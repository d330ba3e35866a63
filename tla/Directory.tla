----------------------------- MODULE Directory ------------------------------
(***************************************************************************)
(* What directories promise: a map from names to inode numbers, to which   *)
(* names are added one at a time.  A name never changes its number, a      *)
(* number never gets a second name, and only a crash loses names.          *)
(***************************************************************************)
EXTENDS Naturals

VARIABLES
  links,   \* [dir, name, ino] of every name
  crashes  \* crashes so far

Init == links = {} /\ crashes = 0

\* create, mknod or mkdir.
Link ==
  \E l \in links' \ links :
    /\ links' = links \cup {l}
    /\ \A k \in links : k.ino # l.ino /\ (k.dir = l.dir => k.name # l.name)
    /\ UNCHANGED crashes

Crash == crashes' = crashes + 1 /\ links' \subseteq links

Next == Link \/ Crash

Spec == Init /\ [][Next]_<<links, crashes>>
=============================================================================
