---------------------------- MODULE MCConfigFile ----------------------------
(* Two threads, one setting and one that the migrations add, and a backup of
   the backup, beside whatever an earlier process left in the files.

   Three kinds of states are not gone on from.  After a disturbance nothing is
   promised until no call is open, and the files then hold nothing that they
   may not hold at the start.  Bytes that are no text differ from a text that
   does not parse in the file itself alone.  And the migrations set what they
   add, so that no caller has to. *)
EXTENDS ConfigFile, TLC

CONSTANTS c1, c2, k, shipped

MCCallers == {c1, c2}
MCKeys == {k, shipped}
MCShipped == {shipped}
MCDefaults == {}

GoneOnFrom ==
  /\ calm
  /\ disk.temp # NotUtf8 /\ \A i \in 0..Backups : bak[i] # NotUtf8
  /\ \A c \in Callers : op[c] # [kind |-> "set", key |-> shipped]

Symmetric == Permutations(MCCallers)
=============================================================================
