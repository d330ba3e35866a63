----------------------------- MODULE Allocator -----------------------------
(***************************************************************************)
(* What an allocator of numbered objects promises its callers, whatever    *)
(* the bitmap, the lock and the search order that implement it: a call is  *)
(* answered with a number nobody else ever got, or refused when, at the    *)
(* moment of the refusal, no number is left.  A call may also fail at once *)
(* for lack of memory.  aufs never frees a zone or an inode number, so     *)
(* there is no way back from "taken".                                      *)
(***************************************************************************)
CONSTANTS
  Threads,   \* the callers
  Ids,       \* the numbers that can be handed out
  None       \* the answer of a refused call

VARIABLES
  taken,     \* the numbers marked in use
  call,      \* the progress of every thread's call
  answer     \* what the thread's call obtained

vars == <<taken, call, answer>>

Init ==
  /\ taken \in SUBSET Ids
  /\ call = [t \in Threads |-> "idle"]
  /\ answer = [t \in Threads |-> None]

Request(t) ==
  /\ call[t] = "idle"
  /\ call' = [call EXCEPT ![t] = "busy"]
  /\ UNCHANGED <<taken, answer>>

Grant(t) ==
  /\ call[t] = "busy"
  /\ \E x \in Ids \ taken :
       /\ taken' = taken \cup {x}
       /\ answer' = [answer EXCEPT ![t] = x]
  /\ call' = [call EXCEPT ![t] = "done"]

Refuse(t) ==
  /\ call[t] = "busy"
  /\ Ids \subseteq taken
  /\ call' = [call EXCEPT ![t] = "done"]
  /\ UNCHANGED <<taken, answer>>

NoMemory(t) ==
  /\ call[t] = "idle"
  /\ call' = [call EXCEPT ![t] = "done"]
  /\ UNCHANGED <<taken, answer>>

Reply(t) ==
  /\ call[t] = "done"
  /\ call' = [call EXCEPT ![t] = "idle"]
  /\ answer' = [answer EXCEPT ![t] = None]
  /\ UNCHANGED taken

Next ==
  \E t \in Threads :
    Request(t) \/ Grant(t) \/ Refuse(t) \/ NoMemory(t) \/ Reply(t)

Spec == Init /\ [][Next]_vars
=============================================================================
