------------------------------- MODULE Mirror -------------------------------
(***************************************************************************)
(* What an asynchronous mirror promises, whatever keeps track of the        *)
(* writes: it owes the target every grain that was written, never takes a   *)
(* copied grain back to an older version, and drops a debt only when it is  *)
(* paid.  A grain is excused when the mirror was not able to keep the       *)
(* promise for it.  DirtyTracking implements this specification.            *)
(***************************************************************************)
EXTENDS Integers

CONSTANT Grains   \* the units of the disk that is mirrored

VARIABLES
  src,      \* grain -> version on the source disk
  tgt,      \* grain -> version on the target disk
  owed,     \* grains the mirror has yet to copy
  excused   \* grains the promise does not hold for

vars == <<src, tgt, owed, excused>>

TypeOK ==
  /\ src \in [Grains -> Nat] /\ tgt \in [Grains -> Nat]
  /\ owed \subseteq Grains /\ excused \subseteq Grains

Init ==
  /\ src \in [Grains -> Nat] /\ tgt = src
  /\ owed = {} /\ excused = {}

\* A write is taken: its grains, T, become owed before it is carried out, and
\* maybe others with them.  Being owed ends an excuse, unless the write itself
\* gives rise to one.
Accept ==
  /\ \E S \in SUBSET Grains : \E T \in SUBSET S :
       /\ owed' = owed \cup S
       /\ excused' \in {excused \cup T, excused \ T}
  /\ UNCHANGED <<src, tgt>>

Excuse ==
  /\ excused' \in SUBSET Grains /\ excused \subseteq excused'
  /\ UNCHANGED <<src, tgt, owed>>

\* A grain of the source changes only while it is owed.
Land ==
  /\ \E g \in owed \cup excused : src' = [src EXCEPT ![g] = @ + 1]
  /\ UNCHANGED <<tgt, owed, excused>>

\* A grain is copied only if it is owed, and from a version the source had
\* since the last copy.
Copy ==
  /\ \E g \in owed \cup excused : \E v \in tgt[g] .. src[g] :
       tgt' = [tgt EXCEPT ![g] = v]
  /\ UNCHANGED <<src, owed, excused>>

Settle ==
  /\ owed' \in SUBSET owed
  /\ \A g \in (owed \ owed') \ excused : tgt[g] = src[g]
  /\ UNCHANGED <<src, tgt, excused>>

Next == Accept \/ Excuse \/ Land \/ Copy \/ Settle

Spec == Init /\ [][Next]_vars

-----------------------------------------------------------------------------
\* The promise: a grain that differs is owed, or excused.
Kept == \A g \in Grains : tgt[g] = src[g] \/ g \in owed \/ g \in excused
=============================================================================
