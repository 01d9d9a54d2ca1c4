------------------------------ MODULE Resolution ------------------------------
(***************************************************************************)
(* How the report_* functions of src/report.rs resolve the values that     *)
(* policies report for one field, free of masks, answers and defaults:     *)
(* values are reported for fields in any order, one of them is chosen per  *)
(* field, and some fields are disputed.                                    *)
(*                                                                         *)
(*   - LargestValue: no reported value wins against the chosen one;        *)
(*   - Default, Agreement: the first reported value is chosen for good;    *)
(*   - Agreement: a value that does not agree with the chosen one makes    *)
(*     the field disputed;                                                 *)
(*   - Default: differing values never do.                                 *)
(*                                                                         *)
(* This is what the code does, not what its docs say: for Default,         *)
(* src/on_conflict.rs speaks of the field's default and README.md of the   *)
(* last writer, and the code keeps neither (DefaultOnConflict in MCReport  *)
(* shows it of the first).                                                 *)
(***************************************************************************)
CONSTANTS
  Slots,            \* the fields that hold one value
  Candidates(_),    \* the values that may be reported for a field
  Unchosen,         \* the field has no value yet
  Strategy,         \* the conflict strategy of each field
  Wins(_, _, _),    \* Wins(f, v, w): under LargestValue v replaces w
  Agree(_, _, _)    \* Agree(f, v, w): v and w are the same value of f

VARIABLES
  reported,    \* the values reported for each field
  chosen,      \* the value the field has
  disputed     \* the fields on which a conflict is on record

abstractVars == <<reported, chosen, disputed>>

AbstractInit ==
  /\ reported = [f \in Slots |-> {}]
  /\ chosen = [f \in Slots |-> Unchosen]
  /\ disputed = {}

\* c may be the value of f once every value in vs has been reported: the arms of the match on
\* on_conflict, and the first value of a field.
MayChoose(f, c, vs) ==
  IF Strategy[f] = "LargestValue" THEN \A w \in vs : ~Wins(f, w, c)
  ELSE chosen[f] \in {Unchosen, c}

\* What reporting v for f may put on record: nothing but a conflict of f, and no conflict is settled.
MayDispute(f, v) ==
  /\ disputed \subseteq disputed' /\ disputed' \subseteq disputed \cup {f}
  /\ Strategy[f] = "Default" => disputed' = disputed
  /\ Strategy[f] = "Agreement" /\ chosen[f] # Unchosen =>
       (Agree(f, chosen[f], v) \/ f \in disputed')

ReportValue(f, v) ==
  /\ reported' = [reported EXCEPT ![f] = @ \cup {v}]
  /\ \E c \in reported[f] \cup {v} :
       /\ MayChoose(f, c, reported[f] \cup {v})
       /\ chosen' = [chosen EXCEPT ![f] = c]
  /\ MayDispute(f, v)

\* An answer contradicts the policy that asked for it.
ContradictPolicy(f) ==
  /\ disputed' = disputed \cup {f}
  /\ UNCHANGED <<reported, chosen>>

AbstractNext ==
  \E f \in Slots : ContradictPolicy(f) \/ \E v \in Candidates(f) : ReportValue(f, v)

AbstractSpec == AbstractInit /\ [][AbstractNext]_abstractVars
=============================================================================
