------------------------ MODULE ProviderDeliveryProofs ------------------------
(***************************************************************************)
(* What holds of ProviderDelivery for every number of operations and       *)
(* versions, and that it implements ProviderCall.                          *)
(***************************************************************************)
EXTENDS ProviderDelivery, TLAPS

\* A command is on its way only at a step that writes, and is over on success.
WireInOrder(o) ==
  /\ wire[o] # "idle" => StepOf(o) \in Write
  /\ wire[o] = "moved" => kind[o] \in CalKind
  /\ answer[o] = "succeeded" => wire[o] = "idle"
  /\ o \in misled => StepOf(o) \in {"put", "remove"}

\* What is not prepared has not begun.
NotBegun(o) ==
  o \notin prepared =>
    at[o] = 1 /\ wire[o] = "idle" /\ answer[o] = "none" /\ done[o] = {}

\* Nothing is done ahead of the plan, nor, where its answer is the provider's,
\* the step at hand before that.
DoneInOrder(o) ==
  /\ done[o] \subseteq Before(o) \cup {StepOf(o)}
  /\ o \notin misled /\ wire[o] \notin {"ok", "nouid"} /\ answer[o] # "succeeded"
       => done[o] \subseteq Before(o)

\* Where it is not late a CalDAV request that is on its way has been noted.
RequestNoted(o) ==
  ~server.late /\ kind[o] \in CalKind /\ wire[o] # "idle" => noted[o]

\* "failed" is true for good: nothing is done or on its way, or else the client
\* cannot know it.
FailureIsFinal(o) ==
  answer[o] = "failed" =>
    \/ o \in misled
    \/ done[o] = {} /\ wire[o] # "sent"
    \/ kind[o] \in CalKind /\ server.late /\ ~noted[o]

\* What needs no look afterwards is met when it is answered.
Once == {"smtp", "copy", "append"}
MetSoFar(o) ==
  /\ Before(o) \cap Once \subseteq met[o]
  /\ wire[o] \in {"ok", "nouid"} /\ StepOf(o) \in Once => StepOf(o) \in met[o]

\* A success is of all writes that are looked after.
SuccessMet(o) ==
  answer[o] = "succeeded" /\ kind[o] \notin CalKind \cup {"move"}
    => Writes(o) \subseteq met[o]

\* An update is merged with the approved version or a later one, and written
\* over the one it is merged with.
BaseIsApproved(o) ==
  /\ kind[o] \in {"update", "delete"} /\ o \in prepared
       => want[o] \in 1..item.version
  /\ kind[o] = "update" /\ StepOf(o) = "put"
       => base[o] \in want[o]..item.version
  /\ kind[o] = "update" /\ done[o] # {} => base[o] = want[o]

\* Of a flag that is still set it is said that it was done.
FlagsAreSet(o) == done[o] \cap Flag \subseteq item.flags

OpInv(o) ==
  /\ WireInOrder(o) /\ DoneInOrder(o) /\ RequestNoted(o) /\ FailureIsFinal(o)
  /\ MetSoFar(o) /\ SuccessMet(o) /\ BaseIsApproved(o) /\ FlagsAreSet(o)
  /\ NotBegun(o)

Rewriting == {o \in Op : kind[o] \in {"update", "delete"} /\ done[o] # {}}

\* The version that an operation was approved on is gone once it is made.
VersionIsSpent ==
  /\ item.version >= 1
  /\ \A o \in Rewriting : /\ want[o] <= item.version
                          /\ item.there => want[o] < item.version
  /\ \A o, p \in Rewriting : want[o] = want[p] => o = p

IInv == TypeOK /\ VersionIsSpent /\ \A o \in Op : OpInv(o)

-----------------------------------------------------------------------------
(* The plans.                                                               *)

\* Operation o is at the i-th step of the plan of k, which has n of them.
Row(o, k, i, step, n, before, writes) ==
  /\ kind[o] = k /\ at[o] = i /\ StepOf(o) = step /\ (Last(o) <=> i = n)
  /\ Before(o) = before /\ Writes(o) = writes /\ DOMAIN Plan[k] = 1..n

\* Service.execute and the clients make these steps.
LEMMA PlanTable ==
  ASSUME TypeOK, NEW o \in Op
  PROVE
     \/ Row(o, "send", 1, "smtp", 2, {}, {"smtp", "copy"})
     \/ Row(o, "send", 2, "copy", 2, {"smtp"}, {"smtp", "copy"})
     \/ Row(o, "mark", 1, "check", 5, {}, {"seen", "flagged"})
     \/ Row(o, "mark", 2, "seen", 5, {"check"}, {"seen", "flagged"})
     \/ Row(o, "mark", 3, "verify", 5, {"check", "seen"}, {"seen", "flagged"})
     \/ Row(o, "mark", 4, "flagged", 5, {"check", "seen", "verify"}, {"seen", "flagged"})
     \/ Row(o, "mark", 5, "verify", 5, {"check", "seen", "verify", "flagged"}, {"seen", "flagged"})
     \/ Row(o, "move", 1, "check", 2, {}, {"move"})
     \/ Row(o, "move", 2, "move", 2, {"check"}, {"move"})
     \/ Row(o, "draft", 1, "append", 1, {}, {"append"})
     \/ Row(o, "redraft", 1, "check", 5, {}, {"append", "deleted"})
     \/ Row(o, "redraft", 2, "append", 5, {"check"}, {"append", "deleted"})
     \/ Row(o, "redraft", 3, "check", 5, {"check", "append"}, {"append", "deleted"})
     \/ Row(o, "redraft", 4, "deleted", 5, {"check", "append"}, {"append", "deleted"})
     \/ Row(o, "redraft", 5, "verify", 5, {"check", "append", "deleted"}, {"append", "deleted"})
     \/ Row(o, "discard", 1, "check", 3, {}, {"deleted"})
     \/ Row(o, "discard", 2, "deleted", 3, {"check"}, {"deleted"})
     \/ Row(o, "discard", 3, "verify", 3, {"check", "deleted"}, {"deleted"})
     \/ Row(o, "create", 1, "put", 1, {}, {"put"})
     \/ Row(o, "update", 1, "get", 2, {}, {"put"})
     \/ Row(o, "update", 2, "put", 2, {"get"}, {"put"})
     \/ Row(o, "delete", 1, "remove", 1, {}, {"remove"})
<1>1. CASE kind[o] = "send"
  <2> DEFINE plan == <<"smtp", "copy">>
  <2>1. Plan[kind[o]] = plan /\ DOMAIN plan = 1..2 /\ Len(plan) = 2
    BY <1>1 DEF Plan, SendPlan
  <2>2. at[o] \in 1..2
    BY <2>1 DEF TypeOK
  <2>3. /\ StepOf(o) = plan[at[o]] /\ (Last(o) <=> at[o] = 2)
        /\ Before(o) = {plan[i] : i \in 1..(at[o] - 1)}
        /\ Writes(o) = {plan[i] : i \in 1..2} \cap Write
    BY <2>1 DEF StepOf, Last, Before, Writes
  <2>4. Writes(o) = {"smtp", "copy"}
    BY <2>3 DEF Write, Flag
  <2>5. CASE at[o] = 1
    BY <1>1, <2>1, <2>3, <2>4, <2>5 DEF Row
  <2>6. CASE at[o] = 2
    BY <1>1, <2>1, <2>3, <2>4, <2>6 DEF Row
  <2> QED
    BY <2>2, <2>5, <2>6
<1>2. CASE kind[o] = "mark"
  <2> DEFINE plan == <<"check", "seen", "verify", "flagged", "verify">>
  <2>1. Plan[kind[o]] = plan /\ DOMAIN plan = 1..5 /\ Len(plan) = 5
    BY <1>2 DEF Plan, MarkPlan
  <2>2. at[o] \in 1..5
    BY <2>1 DEF TypeOK
  <2>3. /\ StepOf(o) = plan[at[o]] /\ (Last(o) <=> at[o] = 5)
        /\ Before(o) = {plan[i] : i \in 1..(at[o] - 1)}
        /\ Writes(o) = {plan[i] : i \in 1..5} \cap Write
    BY <2>1 DEF StepOf, Last, Before, Writes
  <2>4. Writes(o) = {"seen", "flagged"}
    BY <2>3 DEF Write, Flag
  <2>5. CASE at[o] = 1
    BY <1>2, <2>1, <2>3, <2>4, <2>5 DEF Row
  <2>6. CASE at[o] = 2
    BY <1>2, <2>1, <2>3, <2>4, <2>6 DEF Row
  <2>7. CASE at[o] = 3
    BY <1>2, <2>1, <2>3, <2>4, <2>7 DEF Row
  <2>8. CASE at[o] = 4
    BY <1>2, <2>1, <2>3, <2>4, <2>8 DEF Row
  <2>9. CASE at[o] = 5
    BY <1>2, <2>1, <2>3, <2>4, <2>9 DEF Row
  <2> QED
    BY <2>2, <2>5, <2>6, <2>7, <2>8, <2>9
<1>3. CASE kind[o] = "move"
  <2> DEFINE plan == <<"check", "move">>
  <2>1. Plan[kind[o]] = plan /\ DOMAIN plan = 1..2 /\ Len(plan) = 2
    BY <1>3 DEF Plan, MovePlan
  <2>2. at[o] \in 1..2
    BY <2>1 DEF TypeOK
  <2>3. /\ StepOf(o) = plan[at[o]] /\ (Last(o) <=> at[o] = 2)
        /\ Before(o) = {plan[i] : i \in 1..(at[o] - 1)}
        /\ Writes(o) = {plan[i] : i \in 1..2} \cap Write
    BY <2>1 DEF StepOf, Last, Before, Writes
  <2>4. Writes(o) = {"move"}
    BY <2>3 DEF Write, Flag
  <2>5. CASE at[o] = 1
    BY <1>3, <2>1, <2>3, <2>4, <2>5 DEF Row
  <2>6. CASE at[o] = 2
    BY <1>3, <2>1, <2>3, <2>4, <2>6 DEF Row
  <2> QED
    BY <2>2, <2>5, <2>6
<1>4. CASE kind[o] = "draft"
  <2> DEFINE plan == <<"append">>
  <2>1. Plan[kind[o]] = plan /\ DOMAIN plan = 1..1 /\ Len(plan) = 1
    BY <1>4 DEF Plan
  <2>2. at[o] \in 1..1
    BY <2>1 DEF TypeOK
  <2>3. /\ StepOf(o) = plan[at[o]] /\ (Last(o) <=> at[o] = 1)
        /\ Before(o) = {plan[i] : i \in 1..(at[o] - 1)}
        /\ Writes(o) = {plan[i] : i \in 1..1} \cap Write
    BY <2>1 DEF StepOf, Last, Before, Writes
  <2>4. Writes(o) = {"append"}
    BY <2>3 DEF Write, Flag
  <2>5. CASE at[o] = 1
    BY <1>4, <2>1, <2>3, <2>4, <2>5 DEF Row
  <2> QED
    BY <2>2, <2>5
<1>5. CASE kind[o] = "redraft"
  <2> DEFINE plan == <<"check", "append", "check", "deleted", "verify">>
  <2>1. Plan[kind[o]] = plan /\ DOMAIN plan = 1..5 /\ Len(plan) = 5
    BY <1>5 DEF Plan, RedraftPlan
  <2>2. at[o] \in 1..5
    BY <2>1 DEF TypeOK
  <2>3. /\ StepOf(o) = plan[at[o]] /\ (Last(o) <=> at[o] = 5)
        /\ Before(o) = {plan[i] : i \in 1..(at[o] - 1)}
        /\ Writes(o) = {plan[i] : i \in 1..5} \cap Write
    BY <2>1 DEF StepOf, Last, Before, Writes
  <2>4. Writes(o) = {"append", "deleted"}
    BY <2>3 DEF Write, Flag
  <2>5. CASE at[o] = 1
    BY <1>5, <2>1, <2>3, <2>4, <2>5 DEF Row
  <2>6. CASE at[o] = 2
    BY <1>5, <2>1, <2>3, <2>4, <2>6 DEF Row
  <2>7. CASE at[o] = 3
    BY <1>5, <2>1, <2>3, <2>4, <2>7 DEF Row
  <2>8. CASE at[o] = 4
    BY <1>5, <2>1, <2>3, <2>4, <2>8 DEF Row
  <2>9. CASE at[o] = 5
    BY <1>5, <2>1, <2>3, <2>4, <2>9 DEF Row
  <2> QED
    BY <2>2, <2>5, <2>6, <2>7, <2>8, <2>9
<1>6. CASE kind[o] = "discard"
  <2> DEFINE plan == <<"check", "deleted", "verify">>
  <2>1. Plan[kind[o]] = plan /\ DOMAIN plan = 1..3 /\ Len(plan) = 3
    BY <1>6 DEF Plan, DiscardPlan
  <2>2. at[o] \in 1..3
    BY <2>1 DEF TypeOK
  <2>3. /\ StepOf(o) = plan[at[o]] /\ (Last(o) <=> at[o] = 3)
        /\ Before(o) = {plan[i] : i \in 1..(at[o] - 1)}
        /\ Writes(o) = {plan[i] : i \in 1..3} \cap Write
    BY <2>1 DEF StepOf, Last, Before, Writes
  <2>4. Writes(o) = {"deleted"}
    BY <2>3 DEF Write, Flag
  <2>5. CASE at[o] = 1
    BY <1>6, <2>1, <2>3, <2>4, <2>5 DEF Row
  <2>6. CASE at[o] = 2
    BY <1>6, <2>1, <2>3, <2>4, <2>6 DEF Row
  <2>7. CASE at[o] = 3
    BY <1>6, <2>1, <2>3, <2>4, <2>7 DEF Row
  <2> QED
    BY <2>2, <2>5, <2>6, <2>7
<1>7. CASE kind[o] = "create"
  <2> DEFINE plan == <<"put">>
  <2>1. Plan[kind[o]] = plan /\ DOMAIN plan = 1..1 /\ Len(plan) = 1
    BY <1>7 DEF Plan
  <2>2. at[o] \in 1..1
    BY <2>1 DEF TypeOK
  <2>3. /\ StepOf(o) = plan[at[o]] /\ (Last(o) <=> at[o] = 1)
        /\ Before(o) = {plan[i] : i \in 1..(at[o] - 1)}
        /\ Writes(o) = {plan[i] : i \in 1..1} \cap Write
    BY <2>1 DEF StepOf, Last, Before, Writes
  <2>4. Writes(o) = {"put"}
    BY <2>3 DEF Write, Flag
  <2>5. CASE at[o] = 1
    BY <1>7, <2>1, <2>3, <2>4, <2>5 DEF Row
  <2> QED
    BY <2>2, <2>5
<1>8. CASE kind[o] = "update"
  <2> DEFINE plan == <<"get", "put">>
  <2>1. Plan[kind[o]] = plan /\ DOMAIN plan = 1..2 /\ Len(plan) = 2
    BY <1>8 DEF Plan, UpdatePlan
  <2>2. at[o] \in 1..2
    BY <2>1 DEF TypeOK
  <2>3. /\ StepOf(o) = plan[at[o]] /\ (Last(o) <=> at[o] = 2)
        /\ Before(o) = {plan[i] : i \in 1..(at[o] - 1)}
        /\ Writes(o) = {plan[i] : i \in 1..2} \cap Write
    BY <2>1 DEF StepOf, Last, Before, Writes
  <2>4. Writes(o) = {"put"}
    BY <2>3 DEF Write, Flag
  <2>5. CASE at[o] = 1
    BY <1>8, <2>1, <2>3, <2>4, <2>5 DEF Row
  <2>6. CASE at[o] = 2
    BY <1>8, <2>1, <2>3, <2>4, <2>6 DEF Row
  <2> QED
    BY <2>2, <2>5, <2>6
<1>9. CASE kind[o] = "delete"
  <2> DEFINE plan == <<"remove">>
  <2>1. Plan[kind[o]] = plan /\ DOMAIN plan = 1..1 /\ Len(plan) = 1
    BY <1>9 DEF Plan, RemovePlan
  <2>2. at[o] \in 1..1
    BY <2>1 DEF TypeOK
  <2>3. /\ StepOf(o) = plan[at[o]] /\ (Last(o) <=> at[o] = 1)
        /\ Before(o) = {plan[i] : i \in 1..(at[o] - 1)}
        /\ Writes(o) = {plan[i] : i \in 1..1} \cap Write
    BY <2>1 DEF StepOf, Last, Before, Writes
  <2>4. Writes(o) = {"remove"}
    BY <2>3 DEF Write, Flag
  <2>5. CASE at[o] = 1
    BY <1>9, <2>1, <2>3, <2>4, <2>5 DEF Row
  <2> QED
    BY <2>2, <2>5
<1> QED
  BY <1>1, <1>2, <1>3, <1>4, <1>5, <1>6, <1>7, <1>8, <1>9 DEF TypeOK, Kind, MailKind, CalKind

\* What the proofs need of the table.
LEMMA PlanFacts ==
  ASSUME TypeOK, NEW o \in Op
  PROVE  /\ at[o] \in Nat /\ StepOf(o) \in Write \cup {"check", "get", "verify"}
         /\ kind[o] \in CalKind
              => Before(o) \cap Write = {} /\ StepOf(o) \in {"get", "put", "remove"}
         /\ kind[o] \notin CalKind => StepOf(o) \notin {"get", "put", "remove"}
         /\ StepOf(o) = "put" => kind[o] \in {"create", "update"}
         /\ kind[o] = "delete" <=> StepOf(o) = "remove"
         /\ StepOf(o) \in {"put", "remove"} => Last(o) /\ kind[o] \in CalKind
         /\ kind[o] = "update" => \/ StepOf(o) = "get" /\ ~Last(o)
                                  \/ StepOf(o) = "put" /\ Last(o)
         /\ ~Wrapped(o) => \/ Before(o) \cap Write = {} /\ StepOf(o) # "verify"
                           \/ /\ StepOf(o) = "verify" /\ Last(o)
                              /\ Before(o) \cap Write \subseteq Flag
         /\ Last(o) /\ kind[o] \notin CalKind \cup {"move"} =>
              \/ /\ StepOf(o) \in Once
                 /\ Writes(o) \subseteq (Before(o) \cup {StepOf(o)}) \cap Once
              \/ /\ StepOf(o) = "verify"
                 /\ Writes(o) \subseteq Before(o) \cap (Flag \cup Once)
  BY PlanTable
  DEF Row, Write, Flag, Once, CalKind, Wrapped

\* What Advance does to the place in the plan.
LEMMA NextPlace ==
  ASSUME TypeOK, NEW o \in Op, at' = [at EXCEPT ![o] = @ + 1], UNCHANGED kind, ~Last(o)
  PROVE  /\ at'[o] \in DOMAIN Plan[kind[o]]
         /\ Before(o)' = Before(o) \cup {StepOf(o)}
<1>1. at[o] \in Nat /\ at'[o] = at[o] + 1
  BY PlanFacts DEF TypeOK
<1>2. at'[o] \in DOMAIN Plan[kind[o]]
  BY <1>1, PlanTable DEF Row
<1>3. 1..(at'[o] - 1) = (1..(at[o] - 1)) \cup {at[o]}
  BY <1>1, PlanTable DEF Row
<1> QED
  BY <1>1, <1>2, <1>3 DEF Before, StepOf

-----------------------------------------------------------------------------
(* Types.                                                                   *)

\* An error is recorded in one of two ways.
Failed(o) ==
  answer' \in {[answer EXCEPT ![o] = "failed"], [answer EXCEPT ![o] = "uncertain"]}

\* The outcomes have their type when one is recorded.
LEMMA FailTypes ==
  ASSUME TypeOK, NEW o \in Op, Failed(o)
  PROVE  answer' \in [Op -> {"none", "succeeded", "failed", "uncertain"}]
  BY DEF Failed, TypeOK

\* Advance stays in the plan.
LEMMA AdvanceTypes ==
  ASSUME TypeOK, NEW o \in Op, Advance(o), UNCHANGED kind
  PROVE  /\ wire' \in [Op -> {"idle", "sent", "ok", "nouid", "no", "moved"}]
         /\ answer' \in [Op -> {"none", "succeeded", "failed", "uncertain"}]
         /\ at' \in [Op -> Nat] /\ \A p \in Op : at'[p] \in DOMAIN Plan[kind[p]]
<1>1. CASE Last(o)
  BY <1>1 DEF Advance, TypeOK
<1>2. CASE ~Last(o)
  <2>1. at' = [at EXCEPT ![o] = @ + 1] /\ at[o] \in Nat
    BY <1>2, PlanFacts DEF Advance
  <2>2. at'[o] \in DOMAIN Plan[kind[o]]
    BY <1>2, <2>1, NextPlace
  <2> QED
    BY <1>2, <2>1, <2>2 DEF Advance, TypeOK
<1> QED
  BY <1>1, <1>2

\* Most steps advance or fail.
LEMMA MoveTypes ==
  ASSUME TypeOK, NEW o \in Op, UNCHANGED kind,
         \/ Advance(o)
         \/ (Failed(o) /\ UNCHANGED <<wire, at>>)
  PROVE  /\ wire' \in [Op -> {"idle", "sent", "ok", "nouid", "no", "moved"}]
         /\ answer' \in [Op -> {"none", "succeeded", "failed", "uncertain"}]
         /\ at' \in [Op -> Nat] /\ \A p \in Op : at'[p] \in DOMAIN Plan[kind[p]]
<1>1. CASE Advance(o)
  BY <1>1, AdvanceTypes
<1>2. CASE Failed(o) /\ UNCHANGED <<wire, at>>
  BY <1>2, FailTypes DEF TypeOK
<1> QED
  BY <1>1, <1>2

\* The item has a type of its own.
Item == [there : BOOLEAN, version : Nat, flags : SUBSET Flag]

\* The three ways in which Touch, Vanish and Act change it keep it.
LEMMA ItemTypes ==
  ASSUME item \in Item, NEW b \in BOOLEAN, NEW F \in SUBSET Flag
  PROVE  /\ [item EXCEPT !.there = b] \in Item
         /\ [item EXCEPT !.version = @ + 1, !.flags = F] \in Item
         /\ [item EXCEPT !.there = b, !.version = @ + 1] \in Item
<1> DEFINE S == SUBSET Flag
           n == item.version + 1
<1>1. Item = [there : BOOLEAN, version : Nat, flags : S]
  BY DEF Item
<1>2. F \in S /\ n \in Nat /\ item.version \in Nat
  BY DEF Item
<1> HIDE DEF S, n
<1>3. DOMAIN item = {"there", "version", "flags"}
  BY <1>1
<1>4. /\ [item EXCEPT !.there = b] \in Item
      /\ [item EXCEPT !.version = n, !.flags = F] \in Item
      /\ [item EXCEPT !.there = b, !.version = n] \in Item
  BY <1>1, <1>2, <1>3
<1> QED
  BY <1>4 DEF n

\* No step of the operations, the provider or other clients breaks the types.
LEMMA TypesNext ==
  ASSUME TypeOK, \A o \in Op : WireInOrder(o), [Next]_vars
  PROVE  TypeOK'
<1> USE DEF local, ghost
<1>1. CASE UNCHANGED vars
  BY <1>1 DEF vars, TypeOK
<1>2. CASE Vanish
  BY <1>2 DEF Vanish, TypeOK
<1>3. ASSUME NEW f \in Flag, Touch(f) PROVE TypeOK'
  <2>1. item' \in [there : BOOLEAN, version : Nat, flags : SUBSET Flag]
    <3> DEFINE F == IF f \in item.flags THEN item.flags \ {f} ELSE item.flags \cup {f}
    <3>1. item' = [item EXCEPT !.version = @ + 1, !.flags = F]
      BY <1>3 DEF Touch
    <3>2. item \in Item /\ F \in SUBSET Flag
      BY DEF TypeOK, Item
    <3> QED
      BY <3>1, <3>2, ItemTypes DEF Item
  <2>2. done' \in [Op -> SUBSET Write]
    BY <1>3 DEF Touch, TypeOK
  <2> QED
    BY <1>3, <2>1, <2>2 DEF Touch, TypeOK
<1>15. ASSUME NEW o \in Op, ApproveMail(o) PROVE TypeOK'
  <2>1. want' \in [Op -> Nat] /\ mod' \in [Op -> Nat]
    BY <1>15 DEF ApproveMail, TypeOK
  <2>2. prepared' \subseteq Op
    BY <1>15 DEF ApproveMail, TypeOK
  <2> QED
    BY <1>15, <2>1, <2>2 DEF ApproveMail, TypeOK
<1>16. ASSUME NEW o \in Op, ApproveEvent(o) PROVE TypeOK'
  <2>1. want' \in [Op -> Nat]
    BY <1>16 DEF ApproveEvent, TypeOK
  <2>2. prepared' \subseteq Op
    BY <1>16 DEF ApproveEvent, TypeOK
  <2> QED
    BY <1>16, <2>1, <2>2 DEF ApproveEvent, TypeOK
<1>4. ASSUME NEW o \in Op, Break(o) PROVE TypeOK'
  <2>1. Failed(o)
    BY <1>4 DEF Break, SmtpFails, ImapFails, OverImap, DavFails, Fail, Failed
  <2> QED
    BY <1>4, <2>1, FailTypes DEF Break, TypeOK
<1>5. ASSUME NEW o \in Op, Check(o) PROVE TypeOK'
  <2>1. Advance(o) \/ (Failed(o) /\ UNCHANGED <<wire, at>>)
    BY <1>5 DEF Check, Fail, Failed
  <2>2. /\ wire' \in [Op -> {"idle", "sent", "ok", "nouid", "no", "moved"}]
        /\ answer' \in [Op -> {"none", "succeeded", "failed", "uncertain"}]
        /\ at' \in [Op -> Nat] /\ \A p \in Op : at'[p] \in DOMAIN Plan[kind[p]]
    BY <1>5, <2>1, MoveTypes DEF Check
  <2> QED
    BY <1>5, <2>2 DEF Check, TypeOK
<1>6. ASSUME NEW o \in Op, Get(o) PROVE TypeOK'
  <2>1. base' \in [Op -> Nat]
    BY <1>6 DEF Get, TypeOK
  <2> QED
    <3>1. Advance(o) \/ (Failed(o) /\ UNCHANGED <<wire, at>>)
      BY <1>6 DEF Get, Fail, Failed
    <3>2. /\ wire' \in [Op -> {"idle", "sent", "ok", "nouid", "no", "moved"}]
          /\ answer' \in [Op -> {"none", "succeeded", "failed", "uncertain"}]
          /\ at' \in [Op -> Nat] /\ \A p \in Op : at'[p] \in DOMAIN Plan[kind[p]]
      BY <1>6, <3>1, MoveTypes DEF Get
    <3> QED
      BY <1>6, <2>1, <3>2 DEF Get, TypeOK
<1>7. ASSUME NEW o \in Op, Send(o) PROVE TypeOK'
  BY <1>7 DEF Send, TypeOK
<1>8. ASSUME NEW o \in Op, WroteRequest(o) PROVE TypeOK'
  BY <1>8 DEF WroteRequest, TypeOK
<1>9. ASSUME NEW o \in Op, Serve(o) \/ Mask(o) PROVE TypeOK'
  <2>1. StepOf(o) \in Write
    BY <1>9 DEF Serve, Mask, Act, WireInOrder
  <2>2. item' \in [there : BOOLEAN, version : Nat, flags : SUBSET Flag]
    <3>1. item \in Item /\ item.flags \cup {StepOf(o)} \in SUBSET (Flag \cup {StepOf(o)})
      BY DEF TypeOK, Item
    <3>2. CASE StepOf(o) = "put"
      <4>1. item' = [item EXCEPT !.there = TRUE, !.version = @ + 1]
        BY <1>9, <3>2 DEF Serve, Mask, Act, Written, Flag
      <4> QED
        BY <4>1, <3>1, ItemTypes DEF Item
    <3>3. CASE StepOf(o) \in {"move", "remove"}
      <4>1. item' = [item EXCEPT !.there = FALSE]
        BY <1>9, <3>3 DEF Serve, Mask, Act, Written, Flag
      <4> QED
        BY <4>1, <3>1, ItemTypes DEF Item
    <3>4. CASE StepOf(o) \in Flag
      <4>1. item' = [item EXCEPT !.version = @ + 1, !.flags = item.flags \cup {StepOf(o)}]
        BY <1>9, <3>1, <3>4 DEF Serve, Mask, Act, Written, Flag, Item
      <4> QED
        BY <4>1, <3>1, <3>4, ItemTypes DEF Item
    <3>5. CASE StepOf(o) \notin Flag \cup {"put", "move", "remove"}
      BY <1>9, <3>1, <3>5 DEF Serve, Mask, Act, Written, Item
    <3> QED
      BY <3>2, <3>3, <3>4, <3>5
  <2>3. wire' \in [Op -> {"idle", "sent", "ok", "nouid", "no", "moved"}]
    BY <1>9 DEF Serve, Mask, Act, TypeOK
  <2>4. done' \in [Op -> SUBSET Write] /\ met' \in [Op -> SUBSET Write]
    BY <1>9, <2>1 DEF Serve, Mask, Act, TypeOK
  <2>5. misled' \subseteq Op
    BY <1>9 DEF Serve, Mask, Act, TypeOK
  <2> QED
    BY <1>9, <2>2, <2>3, <2>4, <2>5 DEF Serve, Mask, Act, TypeOK
<1>10. ASSUME NEW o \in Op, Decline(o) PROVE TypeOK'
  <2>1. wire' \in [Op -> {"idle", "sent", "ok", "nouid", "no", "moved"}]
    BY <1>10 DEF Decline, TypeOK
  <2> QED
    BY <1>10, <2>1 DEF Decline, TypeOK
<1>11. ASSUME NEW o \in Op, Receive(o) PROVE TypeOK'
  <2>1. Advance(o) \/ (Failed(o) /\ UNCHANGED <<wire, at>>)
    BY <1>11 DEF Receive, Fail, Failed
  <2>2. /\ wire' \in [Op -> {"idle", "sent", "ok", "nouid", "no", "moved"}]
        /\ answer' \in [Op -> {"none", "succeeded", "failed", "uncertain"}]
        /\ at' \in [Op -> Nat] /\ \A p \in Op : at'[p] \in DOMAIN Plan[kind[p]]
    BY <1>11, <2>1, MoveTypes DEF Receive
  <2> QED
    BY <1>11, <2>2 DEF Receive, TypeOK
<1>12. ASSUME NEW o \in Op, Follow(o) PROVE TypeOK'
  <2>1. noted' \in [Op -> BOOLEAN]
    BY <1>12 DEF Follow, TypeOK
  <2>2. CASE Advance(o)
    BY <1>12, <2>1, <2>2, AdvanceTypes DEF Follow, TypeOK
  <2>3. CASE Failed(o) /\ UNCHANGED <<wire, at>>
    BY <1>12, <2>1, <2>3, FailTypes DEF Follow, TypeOK
  <2>4. CASE wire' = [wire EXCEPT ![o] = "sent"] /\ UNCHANGED <<at, answer>>
    BY <1>12, <2>1, <2>4 DEF Follow, TypeOK
  <2> QED
    BY <1>12, <2>2, <2>3, <2>4 DEF Follow, Fail, Failed
<1>13. ASSUME NEW o \in Op, Lose(o) PROVE TypeOK'
  <2>1. Failed(o)
    BY <1>13 DEF Lose, Fail, Failed
  <2> QED
    BY <1>13, <2>1, FailTypes DEF Lose, TypeOK
<1>14. ASSUME NEW o \in Op, Verify(o) PROVE TypeOK'
  <2>1. met' \in [Op -> SUBSET Write]
    BY <1>14 DEF Verify, TypeOK, Write
  <2>2. mod' \in [Op -> Nat]
    <3>1. mod \in [Op -> Nat] /\ item.version \in Nat
      BY DEF TypeOK
    <3> QED
      BY <1>14, <3>1 DEF Verify
  <2> QED
    <3>1. Advance(o) \/ (Failed(o) /\ UNCHANGED <<wire, at>>)
      BY <1>14 DEF Verify, Fail, Failed
    <3>2. /\ wire' \in [Op -> {"idle", "sent", "ok", "nouid", "no", "moved"}]
          /\ answer' \in [Op -> {"none", "succeeded", "failed", "uncertain"}]
          /\ at' \in [Op -> Nat] /\ \A p \in Op : at'[p] \in DOMAIN Plan[kind[p]]
      BY <1>14, <3>1, MoveTypes DEF Verify
    <3> QED
      BY <1>14, <2>1, <2>2, <3>2 DEF Verify, TypeOK
<1> QED
  BY <1>1, <1>2, <1>3, <1>4, <1>5, <1>6, <1>7, <1>8, <1>9, <1>10, <1>11, <1>12,
     <1>13, <1>14, <1>15, <1>16 DEF Next

-----------------------------------------------------------------------------
(* What a step does to the operations.                                      *)

\* The step leaves operation p alone.
Untouched(p) ==
  /\ kind'[p] = kind[p] /\ want'[p] = want[p] /\ at'[p] = at[p] /\ wire'[p] = wire[p]
  /\ noted'[p] = noted[p] /\ base'[p] = base[p] /\ answer'[p] = answer[p]
  /\ done'[p] = done[p] /\ met'[p] = met[p]
  /\ (p \in prepared') = (p \in prepared) /\ (p \in misled') = (p \in misled)

\* Commands set flags and never take a version back.
LEMMA UntouchedKeeps ==
  ASSUME TypeOK, NEW p \in Op, OpInv(p), Untouched(p), UNCHANGED server,
         item.flags \subseteq item'.flags, item'.version \in Nat,
         item.version <= item'.version
  PROVE  OpInv(p)'
<1>1. /\ Before(p)' = Before(p) /\ StepOf(p)' = StepOf(p)
      /\ Writes(p)' = Writes(p)
  BY DEF Untouched, Before, StepOf, Writes
<1>2. (WireInOrder(p) /\ DoneInOrder(p) /\ RequestNoted(p) /\ FailureIsFinal(p))'
  BY <1>1 DEF OpInv, Untouched, WireInOrder, DoneInOrder, RequestNoted,
              FailureIsFinal
<1>3. (MetSoFar(p) /\ SuccessMet(p) /\ FlagsAreSet(p) /\ NotBegun(p))'
  BY <1>1 DEF OpInv, Untouched, MetSoFar, SuccessMet, FlagsAreSet, NotBegun
<1>4. BaseIsApproved(p)'
  BY <1>1 DEF OpInv, Untouched, BaseIsApproved, TypeOK
<1> QED
  BY <1>2, <1>3, <1>4 DEF OpInv

\* The step changes nothing of o but its answer and what was met.
Stays(o) ==
  UNCHANGED <<kind, server, item, prepared, want, at, wire, noted, base, done,
              misled>>

\* An error keeps the invariant if nothing that is known was done, or it is
\* recorded as uncertain.
LEMMA FailKeeps ==
  ASSUME TypeOK, NEW o \in Op, OpInv(o), Runs(o), Failed(o), Stays(o),
         met[o] \subseteq met'[o],
         answer'[o] = "failed" =>
           \/ o \in misled
           \/ done[o] = {} /\ wire[o] # "sent"
           \/ kind[o] \in CalKind /\ server.late /\ ~noted[o]
  PROVE  OpInv(o)'
<1>1. /\ Before(o)' = Before(o) /\ StepOf(o)' = StepOf(o)
      /\ Writes(o)' = Writes(o)
  BY DEF Stays, Before, StepOf, Writes
<1>2. answer'[o] \in {"failed", "uncertain"}
  BY DEF Failed, TypeOK
<1>3. (WireInOrder(o) /\ DoneInOrder(o) /\ RequestNoted(o) /\ FailureIsFinal(o))'
  BY <1>1, <1>2 DEF OpInv, Stays, WireInOrder, DoneInOrder, RequestNoted,
                    FailureIsFinal, Runs
<1>4. (MetSoFar(o) /\ SuccessMet(o) /\ FlagsAreSet(o) /\ BaseIsApproved(o))'
  BY <1>1, <1>2 DEF OpInv, Stays, MetSoFar, SuccessMet, FlagsAreSet, BaseIsApproved
<1>5. NotBegun(o)'
  BY DEF Runs, Stays, NotBegun
<1> QED
  BY <1>3, <1>4, <1>5 DEF OpInv

\* So does an answer that leads to the next step or to success.
LEMMA AdvanceKeeps ==
  ASSUME TypeOK, NEW o \in Op, OpInv(o), Runs(o), Advance(o),
         UNCHANGED <<kind, server, item, prepared, want, done, misled>>,
         met[o] \subseteq met'[o],
         StepOf(o) \in Once => StepOf(o) \in met'[o],
         Last(o) /\ StepOf(o) = "verify" => Before(o) \cap Flag \subseteq met'[o],
         \/ base'[o] = base[o] /\ StepOf(o) # "get"
         \/ base'[o] = item.version /\ StepOf(o) = "get" /\ wire[o] = "idle"
  PROVE  OpInv(o)'
<1>1. wire'[o] = "idle"
  BY DEF Advance, TypeOK
<1>2. done[o] \subseteq Before(o) \cup {StepOf(o)}
  BY DEF OpInv, DoneInOrder
<1>5. NotBegun(o)'
  BY DEF Runs, NotBegun
<1>6. o \in misled => StepOf(o) \in {"put", "remove"} /\ Last(o)
  BY PlanFacts DEF OpInv, WireInOrder
<1>3. CASE Last(o)
  <2>1. answer'[o] = "succeeded" /\ at' = at
    BY <1>3 DEF Advance, TypeOK
  <2>2. /\ Before(o)' = Before(o) /\ StepOf(o)' = StepOf(o)
        /\ Writes(o)' = Writes(o)
    BY <2>1 DEF Before, StepOf, Writes
  <2>3. (WireInOrder(o) /\ DoneInOrder(o) /\ RequestNoted(o) /\ FailureIsFinal(o))'
    BY <1>1, <1>2, <1>6, <2>1, <2>2
    DEF WireInOrder, DoneInOrder, RequestNoted, FailureIsFinal
  <2>4. (MetSoFar(o) /\ FlagsAreSet(o))'
    BY <1>1, <2>2 DEF OpInv, MetSoFar, FlagsAreSet
  <2>5. SuccessMet(o)'
    BY <1>3, <2>2, PlanFacts DEF OpInv, SuccessMet, MetSoFar
  <2>6. BaseIsApproved(o)'
    BY <1>3, <2>2, PlanFacts DEF OpInv, BaseIsApproved
  <2> QED
    BY <1>5, <2>3, <2>4, <2>5, <2>6 DEF OpInv
<1>4. CASE ~Last(o)
  <2>1. answer' = answer /\ at' = [at EXCEPT ![o] = @ + 1]
    BY <1>4 DEF Advance
  <2>2. Before(o)' = Before(o) \cup {StepOf(o)} /\ Writes(o)' = Writes(o)
    BY <1>4, <2>1, NextPlace DEF Writes
  <2>3. (WireInOrder(o) /\ DoneInOrder(o) /\ RequestNoted(o) /\ FailureIsFinal(o))'
    BY <1>1, <1>2, <1>4, <1>6, <2>1, <2>2
    DEF WireInOrder, DoneInOrder, RequestNoted, FailureIsFinal, Runs
  <2>4. (MetSoFar(o) /\ SuccessMet(o) /\ FlagsAreSet(o))'
    BY <1>1, <2>1, <2>2 DEF OpInv, MetSoFar, SuccessMet, FlagsAreSet, Runs
  <2>5. BaseIsApproved(o)'
    <3>1. CASE kind[o] = "update"
      <4>1. StepOf(o) = "get" /\ wire[o] = "idle"
        BY <1>4, <3>1, PlanFacts
      <4>2. done[o] = {}
        BY <1>4, <1>6, <3>1, <4>1, PlanFacts
        DEF OpInv, DoneInOrder, CalKind, Runs, TypeOK
      <4>3. want[o] \in 1..item.version
        BY <3>1 DEF OpInv, BaseIsApproved, Runs
      <4>4. base'[o] \in want[o]..item.version
        BY <4>1, <4>3 DEF TypeOK
      <4> QED
        BY <3>1, <4>2, <4>3, <4>4 DEF BaseIsApproved
    <3>2. CASE kind[o] # "update"
      BY <3>2 DEF OpInv, BaseIsApproved
    <3> QED
      BY <3>1, <3>2
  <2> QED
    BY <1>5, <2>3, <2>4, <2>5 DEF OpInv
<1> QED
  BY <1>3, <1>4

\* An error that is recorded as failed, before a command or after a refusal.
LEMMA PlainFailure ==
  ASSUME TypeOK, NEW o \in Op, OpInv(o), Runs(o), ~Wrapped(o), StepOf(o) # "verify",
         wire[o] \in {"idle", "no", "moved"}
  PROVE  o \in misled \/ (done[o] = {} /\ wire[o] # "sent")
  BY PlanFacts DEF OpInv, DoneInOrder, Runs, TypeOK

-----------------------------------------------------------------------------
(* The invariant.                                                           *)

\* Where a step of o changes neither the item nor what is done, it is enough to
\* look at o.
LEMMA OneOperation ==
  ASSUME IInv, NEW o \in Op, UNCHANGED <<kind, server, item, want, done>>,
         \A p \in Op \ {o} : Untouched(p), OpInv(o)'
  PROVE  VersionIsSpent' /\ \A p \in Op : OpInv(p)'
<1>1. VersionIsSpent'
  BY DEF IInv, VersionIsSpent, Rewriting
<1>2. \A p \in Op \ {o} : OpInv(p)'
  BY UntouchedKeeps DEF IInv, TypeOK
<1> QED
  BY <1>1, <1>2

\* No operation has begun, and no version is spent.
LEMMA InitInvariant == Init => IInv
<1> SUFFICES ASSUME Init PROVE IInv
  OBVIOUS
<1>1. kind \in [Op -> Kind]
  BY DEF Init, Kind
<1>2. \A o \in Op : 1 \in DOMAIN Plan[kind[o]] /\ Before(o) = {}
  <2>1. \A k \in Kind : 1 \in DOMAIN Plan[k]
    BY DEF Plan, SendPlan, MarkPlan, MovePlan, RedraftPlan, DiscardPlan,
           UpdatePlan, RemovePlan, Kind,
           MailKind, CalKind
  <2> QED
    BY <1>1, <2>1 DEF Init, Before
<1>3. TypeOK
  <2>1. server \in [condstore : BOOLEAN, uidplus : BOOLEAN, move : BOOLEAN,
                    late : BOOLEAN]
    BY DeliveryAssumption DEF Init, DeliveryAssumption
  <2>2. item \in [there : BOOLEAN, version : Nat, flags : SUBSET Flag]
    BY DEF Init
  <2>3. want \in [Op -> Nat] /\ base \in [Op -> Nat] /\ at \in [Op -> Nat]
    BY DEF Init
  <2> QED
    BY <1>1, <1>2, <2>1, <2>2, <2>3 DEF Init, TypeOK
<1>4. VersionIsSpent
  BY DEF Init, VersionIsSpent, Rewriting
<1>5. ASSUME NEW o \in Op PROVE OpInv(o)
  <2>1. /\ wire[o] = "idle" /\ done[o] = {} /\ answer[o] = "none"
        /\ at[o] = 1 /\ prepared = {} /\ misled = {}
    BY DEF Init
  <2>2. kind[o] = "update" => StepOf(o) # "put"
    BY <1>3, <2>1, PlanTable DEF Row
  <2> QED
    BY <1>2, <2>1, <2>2
    DEF OpInv, WireInOrder, DoneInOrder, RequestNoted, FailureIsFinal, MetSoFar,
        SuccessMet, BaseIsApproved, FlagsAreSet, NotBegun
<1> QED
  BY <1>3, <1>4, <1>5 DEF IInv

\* An operation is prepared.
LEMMA ApproveKeeps ==
  ASSUME IInv, NEW o \in Op, ApproveMail(o) \/ ApproveEvent(o)
  PROVE  VersionIsSpent' /\ \A p \in Op : OpInv(p)'
<1>1. /\ TypeOK /\ OpInv(o) /\ o \notin prepared /\ o \in prepared'
      /\ UNCHANGED <<kind, server, item, at, wire, noted, base, answer, done, met,
                     misled>>
      /\ \A p \in Op \ {o} : want'[p] = want[p]
                             /\ (p \in prepared') = (p \in prepared)
  BY DEF IInv, ApproveMail, ApproveEvent, ghost, TypeOK
<1>2. kind[o] \in {"update", "delete"} => want'[o] \in 1..item.version
  <2>1. ASSUME NEW v \in 1..item.version, want' = [want EXCEPT ![o] = v]
        PROVE  want'[o] \in 1..item.version
    BY <1>1, <2>1 DEF TypeOK
  <2> QED
    BY <2>1 DEF ApproveMail, ApproveEvent, MailKind
<1>3. at[o] = 1 /\ wire[o] = "idle" /\ answer[o] = "none" /\ done[o] = {}
  BY <1>1 DEF OpInv, NotBegun
<1>4. /\ Before(o)' = Before(o) /\ StepOf(o)' = StepOf(o)
      /\ Writes(o)' = Writes(o)
  BY <1>1 DEF Before, StepOf, Writes
<1>5. kind[o] = "update" => StepOf(o) # "put"
  BY <1>1, <1>3, PlanTable DEF Row
<1>6. OpInv(o)'
  BY <1>1, <1>2, <1>3, <1>4, <1>5
  DEF OpInv, WireInOrder, DoneInOrder, RequestNoted, FailureIsFinal, MetSoFar,
      SuccessMet, BaseIsApproved, FlagsAreSet, NotBegun
<1>7. \A p \in Op \ {o} : OpInv(p)'
  BY <1>1, UntouchedKeeps DEF IInv, Untouched, TypeOK
<1>8. VersionIsSpent'
  <2>1. Rewriting' = Rewriting /\ o \notin Rewriting
    BY <1>1, <1>3 DEF Rewriting
  <2>2. \A p \in Rewriting : want'[p] = want[p]
    BY <1>1, <2>1 DEF Rewriting
  <2> QED
    BY <1>1, <2>1, <2>2 DEF IInv, VersionIsSpent
<1> QED
  BY <1>6, <1>7, <1>8

\* Connecting, selecting, a literal or a capability fails.
LEMMA BreakKeeps ==
  ASSUME IInv, NEW o \in Op, Break(o)
  PROVE  VersionIsSpent' /\ \A p \in Op : OpInv(p)'
<1>1. TypeOK /\ OpInv(o) /\ Runs(o) /\ wire[o] = "idle"
  BY DEF IInv, Break
<1>2. Failed(o) /\ Stays(o) /\ UNCHANGED met
  BY DEF Break, SmtpFails, ImapFails, OverImap, DavFails, Fail, Failed, Stays, local, ghost
<1>3. answer'[o] = "failed" => ~Wrapped(o) /\ StepOf(o) # "verify"
  BY <1>1 DEF Break, SmtpFails, ImapFails, OverImap, DavFails, Fail, TypeOK
<1>4. OpInv(o)'
  BY <1>1, <1>2, <1>3, PlainFailure, FailKeeps
<1> QED
  BY <1>1, <1>2, <1>4, OneOperation DEF Untouched, Stays, Failed, TypeOK

\* The precondition is compared.
LEMMA CheckKeeps ==
  ASSUME IInv, NEW o \in Op, Check(o)
  PROVE  VersionIsSpent' /\ \A p \in Op : OpInv(p)'
<1>1. TypeOK /\ OpInv(o) /\ Runs(o) /\ StepOf(o) = "check"
  BY DEF IInv, Check
<1>2. wire[o] = "idle"
  BY <1>1 DEF OpInv, WireInOrder, Write, Flag
<1>3. CASE Advance(o)
  <2>1. OpInv(o)'
    BY <1>1, <1>3, AdvanceKeeps DEF Check, Once, ghost
  <2> QED
    BY <1>1, <1>3, <2>1, OneOperation
    DEF Check, ghost, Untouched, Advance, TypeOK
<1>4. CASE Fail(o, FALSE) /\ UNCHANGED <<wire, at>>
  <2>1. Failed(o) /\ Stays(o) /\ UNCHANGED met
    BY <1>4 DEF Check, Fail, Failed, Stays, ghost
  <2>2. answer'[o] = "failed" => ~Wrapped(o)
    BY <1>1, <1>4 DEF Fail, TypeOK
  <2>3. OpInv(o)'
    BY <1>1, <1>2, <2>1, <2>2, PlainFailure, FailKeeps
  <2> QED
    BY <1>1, <2>1, <2>3, OneOperation DEF Untouched, Stays, Failed, TypeOK
<1> QED
  BY <1>3, <1>4 DEF Check

\* The event is read and merged.
LEMMA GetKeeps ==
  ASSUME IInv, NEW o \in Op, Get(o)
  PROVE  VersionIsSpent' /\ \A p \in Op : OpInv(p)'
<1>1. TypeOK /\ OpInv(o) /\ Runs(o) /\ StepOf(o) = "get"
  BY DEF IInv, Get
<1>2. wire[o] = "idle"
  BY <1>1 DEF OpInv, WireInOrder, Write, Flag
<1>3. CASE Advance(o) /\ base' = [base EXCEPT ![o] = item.version]
  <2>1. base'[o] = item.version
    BY <1>1, <1>3 DEF TypeOK
  <2>2. OpInv(o)'
    BY <1>1, <1>2, <1>3, <2>1, AdvanceKeeps DEF Get, Once, ghost
  <2> QED
    BY <1>1, <1>3, <2>2, OneOperation
    DEF Get, ghost, Untouched, Advance, TypeOK
<1>4. CASE Fail(o, FALSE) /\ UNCHANGED <<wire, at, base>>
  <2>1. Failed(o) /\ Stays(o) /\ UNCHANGED met
    BY <1>4 DEF Get, Fail, Failed, Stays, ghost
  <2>2. answer'[o] = "failed" => ~Wrapped(o)
    BY <1>1, <1>4 DEF Fail, TypeOK
  <2>3. OpInv(o)'
    BY <1>1, <1>2, <2>1, <2>2, PlainFailure, FailKeeps
  <2> QED
    BY <1>1, <2>1, <2>3, OneOperation DEF Untouched, Stays, Failed, TypeOK
<1> QED
  BY <1>3, <1>4 DEF Get

\* A command is sent.
LEMMA SendKeeps ==
  ASSUME IInv, NEW o \in Op, Send(o)
  PROVE  VersionIsSpent' /\ \A p \in Op : OpInv(p)'
<1>1. /\ TypeOK /\ OpInv(o) /\ answer[o] = "none" /\ StepOf(o) \in Write
      /\ wire[o] = "idle" /\ wire'[o] = "sent" /\ UNCHANGED <<kind, at>>
      /\ noted'[o] = (kind[o] \in CalKind /\ ~server.late)
      /\ UNCHANGED <<server, item, prepared, want, base, answer, done, met, misled>>
      /\ o \in prepared
  BY DEF IInv, Send, Runs, TypeOK, ghost
<1>2. /\ Before(o)' = Before(o) /\ StepOf(o)' = StepOf(o)
      /\ Writes(o)' = Writes(o)
  BY <1>1 DEF Before, StepOf, Writes
<1>3. OpInv(o)'
  BY <1>1, <1>2
  DEF OpInv, WireInOrder, DoneInOrder, RequestNoted, FailureIsFinal, MetSoFar,
      SuccessMet, BaseIsApproved, FlagsAreSet, NotBegun
<1> QED
  BY <1>1, <1>3, OneOperation DEF Send, Untouched, TypeOK

\* The transport reports that the request is written.
LEMMA WroteRequestKeeps ==
  ASSUME IInv, NEW o \in Op, WroteRequest(o)
  PROVE  VersionIsSpent' /\ \A p \in Op : OpInv(p)'
<1>1. /\ TypeOK /\ OpInv(o) /\ answer[o] = "none" /\ noted'[o] = TRUE
      /\ UNCHANGED <<kind, server, item, prepared, want, at, wire, base, answer, done,
                     met, misled>>
      /\ o \in prepared
  BY DEF IInv, WroteRequest, Runs, TypeOK, ghost
<1>2. /\ Before(o)' = Before(o) /\ StepOf(o)' = StepOf(o)
      /\ Writes(o)' = Writes(o)
  BY <1>1 DEF Before, StepOf, Writes
<1>3. OpInv(o)'
  BY <1>1, <1>2
  DEF OpInv, WireInOrder, DoneInOrder, RequestNoted, FailureIsFinal, MetSoFar,
      SuccessMet, BaseIsApproved, FlagsAreSet, NotBegun
<1> QED
  BY <1>1, <1>3, OneOperation DEF WroteRequest, Untouched, TypeOK

\* What a command does to the item: of what is conditional on a version, only
\* what was approved on the one that is there is possible.
LEMMA ServedItem ==
  ASSUME IInv, NEW o \in Op, Act(o)
  PROVE  /\ item.flags \cup ({StepOf(o)} \cap Flag) \subseteq item'.flags
         /\ item'.version \in Nat /\ item.version <= item'.version
         /\ item'.there => item.there \/ item'.version > item.version
         /\ kind[o] \in {"update", "delete"} =>
              /\ item.there /\ item.version = want[o]
              /\ ~item'.there \/ item'.version > want[o]
<1>1. TypeOK /\ OpInv(o) /\ StepOf(o) \in Write /\ MayWrite(o) /\ item' = Written(o)
  BY DEF IInv, OpInv, Act, WireInOrder
<1>2. item.version \in Nat /\ item \in Item
  BY <1>1 DEF TypeOK, Item
<1>3. CASE StepOf(o) = "put"
  <2>1. item' = [item EXCEPT !.there = TRUE, !.version = @ + 1]
    BY <1>1, <1>3 DEF Written, Flag
  <2>2. kind[o] = "create" => ~item.there
    BY <1>1, <1>3 DEF MayWrite, Flag
  <2>3. kind[o] # "create" => item.there /\ item.version = want[o]
    BY <1>1, <1>3 DEF MayWrite, Flag
  <2> QED
    BY <1>2, <1>3, <2>1, <2>2, <2>3 DEF Item, Flag, CalKind
<1>4. CASE StepOf(o) = "remove"
  <2>1. item' = [item EXCEPT !.there = FALSE]
    BY <1>1, <1>4 DEF Written, Flag
  <2>2. item.there /\ item.version = want[o]
    BY <1>1, <1>4, PlanFacts DEF MayWrite, Flag
  <2> QED
    BY <1>2, <1>4, <2>1, <2>2 DEF Item, Flag, CalKind
<1>5. CASE StepOf(o) \notin {"put", "remove"}
  <2>1. kind[o] \notin {"update", "delete"}
    BY <1>1, <1>5, PlanFacts DEF Write, Flag
  <2>2. \/ item' = item /\ StepOf(o) \notin Flag
        \/ item' = [item EXCEPT !.there = FALSE] /\ StepOf(o) \notin Flag
        \/ item' = [item EXCEPT !.version = @ + 1, !.flags = @ \cup {StepOf(o)}]
    BY <1>1, <1>5 DEF Written, Flag
  <2>3. /\ item.flags \cup ({StepOf(o)} \cap Flag) \subseteq item'.flags
        /\ item'.version \in Nat /\ item.version <= item'.version
        /\ item'.there => item.there \/ item'.version > item.version
    <3>1. CASE item' = item /\ StepOf(o) \notin Flag
      BY <1>2, <3>1 DEF Item
    <3>2. CASE item' = [item EXCEPT !.there = FALSE] /\ StepOf(o) \notin Flag
      BY <1>2, <3>2 DEF Item
    <3>3. CASE item' = [item EXCEPT !.version = @ + 1, !.flags = @ \cup {StepOf(o)}]
      BY <1>2, <3>3 DEF Item
    <3> QED
      BY <2>2, <3>1, <3>2, <3>3
  <2> QED
    BY <2>1, <2>3
<1> QED
  BY <1>3, <1>4, <1>5

\* The provider acts on a command, and it or another answers.
LEMMA ActKeeps ==
  ASSUME IInv, NEW o \in Op, Serve(o) \/ Mask(o)
  PROVE  VersionIsSpent' /\ \A p \in Op : OpInv(p)'
<1>1. /\ Act(o) /\ TypeOK /\ OpInv(o) /\ wire[o] = "sent" /\ StepOf(o) \in Write
      /\ UNCHANGED <<kind, server, prepared, want, at, noted, base, answer>>
      /\ done'[o] = done[o] \cup {StepOf(o)} /\ met'[o] = met[o] \cup {StepOf(o)}
      /\ \A p \in Op \ {o} : /\ done'[p] = done[p] /\ met'[p] = met[p]
                             /\ wire'[p] = wire[p]
                             /\ (p \in misled') = (p \in misled)
  BY DEF IInv, OpInv, WireInOrder, Serve, Mask, Act, local, TypeOK
<1>2. /\ o \in misled => o \in misled'
      /\ \/ wire'[o] \in {"ok", "nouid"} /\ (o \in misled' => o \in misled)
         \/ wire'[o] \in {"no", "moved"} /\ o \in misled' /\ kind[o] \in CalKind
  BY <1>1 DEF Serve, Mask, TypeOK
<1>3. answer[o] # "succeeded" /\ o \in prepared
  BY <1>1 DEF OpInv, WireInOrder, NotBegun
<1>4. /\ Before(o)' = Before(o) /\ StepOf(o)' = StepOf(o)
      /\ Writes(o)' = Writes(o)
  BY <1>1 DEF Before, StepOf, Writes
<1>5. BaseIsApproved(o)'
  <2>1. CASE kind[o] = "update"
    <3>1. StepOf(o) = "put"
      BY <1>1, <2>1, PlanFacts DEF Write, Flag
    <3>2. /\ item.version = want[o] /\ base[o] \in want[o]..item.version
          /\ want[o] \in 1..item.version
      BY <1>1, <1>3, <2>1, <3>1, ServedItem DEF OpInv, BaseIsApproved
    <3>3. item'.version \in Nat /\ item.version <= item'.version
      BY <1>1, ServedItem
    <3>4. base[o] = want[o] /\ want[o] \in Nat
      BY <1>1, <3>2 DEF TypeOK
    <3> QED
      BY <1>1, <1>4, <3>2, <3>3, <3>4 DEF BaseIsApproved
  <2>2. CASE kind[o] # "update"
    <3>1. item'.version \in Nat /\ item.version <= item'.version
      BY <1>1, ServedItem
    <3>2. want[o] \in Nat /\ item.version \in Nat
      BY <1>1 DEF TypeOK
    <3> QED
      BY <1>1, <1>4, <2>2, <3>1, <3>2 DEF OpInv, BaseIsApproved
  <2> QED
    BY <2>1, <2>2
<1>6. (WireInOrder(o) /\ DoneInOrder(o))'
  <2>1. kind[o] \in CalKind => StepOf(o) \in {"put", "remove"}
    BY <1>1, PlanFacts DEF Write, Flag
  <2> QED
    BY <1>1, <1>2, <1>3, <1>4, <2>1 DEF OpInv, WireInOrder, DoneInOrder
<1>7. (RequestNoted(o) /\ FailureIsFinal(o) /\ MetSoFar(o) /\ SuccessMet(o))'
  BY <1>1, <1>2, <1>3, <1>4
  DEF OpInv, RequestNoted, FailureIsFinal, MetSoFar, SuccessMet
<1>8. FlagsAreSet(o)' /\ NotBegun(o)'
  BY <1>1, <1>3, ServedItem DEF OpInv, FlagsAreSet, NotBegun
<1>9. \A p \in Op \ {o} : OpInv(p)'
  BY <1>1, ServedItem, UntouchedKeeps DEF IInv, Untouched
<1>10. VersionIsSpent'
  <2>1. /\ item.version \in Nat /\ item'.version \in Nat
        /\ item.version <= item'.version
        /\ item'.there => item.there \/ item'.version > item.version
        /\ want \in [Op -> Nat]
    BY <1>1, ServedItem DEF TypeOK
  <2>2. ASSUME NEW p \in Rewriting
        PROVE  /\ want[p] <= item'.version
               /\ item'.there => want[p] < item'.version
    BY <2>1, <2>2 DEF IInv, VersionIsSpent, Rewriting
  <2>3. CASE kind[o] \in {"update", "delete"}
    <3>1. /\ item.there /\ item.version = want[o]
          /\ ~item'.there \/ item'.version > want[o]
      BY <1>1, <2>3, ServedItem
    <3>2. Rewriting' = Rewriting \cup {o}
      BY <1>1, <2>3 DEF Rewriting
    <3>3. \A p \in Rewriting : want[p] # want[o]
      BY <2>1, <3>1 DEF IInv, VersionIsSpent, Rewriting
    <3> QED
      BY <1>1, <2>1, <2>2, <3>1, <3>2, <3>3 DEF IInv, VersionIsSpent
  <2>4. CASE kind[o] \notin {"update", "delete"}
    <3>1. Rewriting' = Rewriting
      BY <1>1, <2>4 DEF Rewriting
    <3> QED
      BY <1>1, <2>1, <2>2, <3>1 DEF IInv, VersionIsSpent
  <2> QED
    BY <2>3, <2>4
<1> QED
  BY <1>5, <1>6, <1>7, <1>8, <1>9, <1>10 DEF OpInv

\* It does not act on it.
LEMMA DeclineKeeps ==
  ASSUME IInv, NEW o \in Op, Decline(o)
  PROVE  VersionIsSpent' /\ \A p \in Op : OpInv(p)'
<1>1. /\ TypeOK /\ OpInv(o) /\ wire[o] = "sent"
      /\ UNCHANGED <<kind, server, item, prepared, want, at, noted, base, answer, done,
                     met, misled>>
      /\ \A p \in Op \ {o} : wire'[p] = wire[p]
  BY DEF IInv, Decline, local, ghost, TypeOK
<1>2. /\ wire'[o] \in {"no", "ok", "moved"}
      /\ wire'[o] = "ok" => StepOf(o) \in Flag \cup {"move"}
      /\ wire'[o] = "moved" => kind[o] \in CalKind
  BY <1>1 DEF Decline, TypeOK
<1>3. /\ Before(o)' = Before(o) /\ StepOf(o)' = StepOf(o)
      /\ Writes(o)' = Writes(o)
  BY <1>1 DEF Before, StepOf, Writes
<1>4. StepOf(o) \in Flag \cup {"move"} => StepOf(o) \notin Once
  BY DEF Flag, Once
<1>5. answer[o] # "succeeded"
  BY <1>1 DEF OpInv, WireInOrder
<1>6. OpInv(o)'
  BY <1>1, <1>2, <1>3, <1>4, <1>5
  DEF OpInv, WireInOrder, DoneInOrder, RequestNoted, FailureIsFinal, MetSoFar,
      SuccessMet, BaseIsApproved, FlagsAreSet, NotBegun
<1> QED
  BY <1>1, <1>6, OneOperation DEF Untouched

\* The answer is read.
LEMMA ReceiveKeeps ==
  ASSUME IInv, NEW o \in Op, Receive(o)
  PROVE  VersionIsSpent' /\ \A p \in Op : OpInv(p)'
<1>1. /\ TypeOK /\ OpInv(o) /\ Runs(o) /\ wire[o] # "idle" /\ StepOf(o) \in Write
      /\ UNCHANGED <<kind, server, item, prepared, want, noted, base, done, met, misled>>
  BY DEF IInv, OpInv, Receive, Final, WireInOrder, ghost
<1>2. CASE wire[o] \in {"ok", "nouid"} /\ Advance(o)
  <2>1. StepOf(o) \notin {"get", "verify"}
    BY <1>1 DEF Write, Flag
  <2>2. StepOf(o) \in Once => StepOf(o) \in met'[o]
    BY <1>1, <1>2 DEF OpInv, MetSoFar
  <2>3. OpInv(o)'
    BY <1>1, <1>2, <2>1, <2>2, AdvanceKeeps
  <2> QED
    BY <1>1, <1>2, <2>3, OneOperation DEF Receive, Untouched, Advance, TypeOK
<1>3. CASE (Fail(o, TRUE) \/ (Final(o) /\ Fail(o, FALSE))) /\ UNCHANGED <<wire, at>>
  <2>1. Failed(o) /\ Stays(o)
    BY <1>1, <1>3 DEF Fail, Failed, Stays
  <2>2. answer'[o] = "failed" => ~Wrapped(o) /\ wire[o] = "no"
    BY <1>1, <1>3 DEF Fail, Final, TypeOK
  <2>3. StepOf(o) # "verify"
    BY <1>1 DEF Write, Flag
  <2>4. OpInv(o)'
    BY <1>1, <2>1, <2>2, <2>3, PlainFailure, FailKeeps
  <2> QED
    BY <1>1, <2>1, <2>4, OneOperation DEF Untouched, Stays, Failed, TypeOK
<1> QED
  BY <1>2, <1>3 DEF Receive

\* A redirect is followed or refused.
LEMMA FollowKeeps ==
  ASSUME IInv, NEW o \in Op, Follow(o)
  PROVE  VersionIsSpent' /\ \A p \in Op : OpInv(p)'
<1>1. /\ TypeOK /\ OpInv(o) /\ Runs(o) /\ wire[o] = "moved" /\ StepOf(o) \in Write
      /\ kind[o] \in CalKind
      /\ UNCHANGED <<kind, server, item, prepared, want, base, done, met, misled>>
  BY DEF IInv, OpInv, Follow, WireInOrder, ghost
<1>2. StepOf(o) \notin {"get", "verify"} \cup Once
  BY <1>1, PlanFacts DEF Write, Flag, Once
<1>3. CASE Advance(o) /\ UNCHANGED noted
  <2>1. OpInv(o)'
    BY <1>1, <1>2, <1>3, AdvanceKeeps
  <2> QED
    BY <1>1, <1>3, <2>1, OneOperation DEF Untouched, Advance, TypeOK
<1>4. CASE (Fail(o, FALSE) \/ Fail(o, noted[o])) /\ UNCHANGED <<wire, at, noted>>
  <2>1. Failed(o) /\ Stays(o)
    BY <1>1, <1>4 DEF Fail, Failed, Stays
  <2>2. answer'[o] = "failed" => ~Wrapped(o)
    BY <1>1, <1>4 DEF Fail, TypeOK
  <2>3. OpInv(o)'
    BY <1>1, <1>2, <2>1, <2>2, PlainFailure, FailKeeps
  <2> QED
    BY <1>1, <2>1, <2>3, OneOperation DEF Untouched, Stays, Failed, TypeOK
<1>5. CASE /\ wire' = [wire EXCEPT ![o] = "sent"]
           /\ noted' = [noted EXCEPT ![o] = ~server.late] /\ UNCHANGED <<at, answer>>
  <2>1. /\ wire'[o] = "sent" /\ noted'[o] = ~server.late /\ answer[o] = "none"
        /\ o \in prepared
    BY <1>1, <1>5 DEF TypeOK, Runs
  <2>2. /\ Before(o)' = Before(o) /\ StepOf(o)' = StepOf(o)
        /\ Writes(o)' = Writes(o)
    BY <1>1, <1>5 DEF Before, StepOf, Writes
  <2>3. OpInv(o)'
    BY <1>1, <1>5, <2>1, <2>2
    DEF OpInv, WireInOrder, DoneInOrder, RequestNoted, FailureIsFinal, MetSoFar,
        SuccessMet, BaseIsApproved, FlagsAreSet, NotBegun
  <2> QED
    BY <1>1, <1>5, <2>3, OneOperation DEF Untouched, TypeOK
<1> QED
  BY <1>3, <1>4, <1>5 DEF Follow

\* No answer comes. That is a plain error only of a request that was not noted.
LEMMA LoseKeeps ==
  ASSUME IInv, NEW o \in Op, Lose(o)
  PROVE  VersionIsSpent' /\ \A p \in Op : OpInv(p)'
<1>1. /\ TypeOK /\ OpInv(o) /\ Runs(o) /\ wire[o] # "idle"
      /\ Failed(o) /\ Stays(o) /\ UNCHANGED met
  BY DEF IInv, Lose, Fail, Failed, Stays, local, ghost
<1>2. answer'[o] = "failed" => kind[o] \in CalKind /\ ~noted[o]
  BY <1>1 DEF Lose, Fail, MaybeWritten, TypeOK
<1>3. answer'[o] = "failed" => server.late
  BY <1>1, <1>2 DEF OpInv, RequestNoted
<1>4. OpInv(o)'
  BY <1>1, <1>2, <1>3, FailKeeps
<1> QED
  BY <1>1, <1>4, OneOperation DEF Untouched, Stays, Failed, TypeOK

\* The flags are looked at. If they are plainly not set, nothing has been done.
LEMMA VerifyKeeps ==
  ASSUME IInv, NEW o \in Op, Verify(o)
  PROVE  VersionIsSpent' /\ \A p \in Op : OpInv(p)'
<1>1. /\ TypeOK /\ OpInv(o) /\ Runs(o) /\ StepOf(o) = "verify"
      /\ UNCHANGED <<kind, server, item, prepared, want, noted, base, done, misled>>
      /\ o \notin misled /\ met'[o] = met[o] \cup (item.flags \cap Before(o))
      /\ \A p \in Op \ {o} : met'[p] = met[p]
  BY DEF IInv, OpInv, WireInOrder, Verify, TypeOK
<1>2. wire[o] = "idle"
  BY <1>1 DEF OpInv, WireInOrder, Write, Flag
<1>3. CASE Holds(o) /\ Advance(o)
  <2>1. Last(o) => Before(o) \cap Flag \subseteq met'[o]
    BY <1>1, <1>3 DEF Holds
  <2>2. OpInv(o)'
    BY <1>1, <1>3, <2>1, AdvanceKeeps DEF Once
  <2> QED
    BY <1>1, <1>3, <2>2, OneOperation DEF Untouched, Advance, TypeOK
<1>4. CASE (Fail(o, TRUE) \/ (~Holds(o) /\ Fail(o, FALSE))) /\ UNCHANGED <<wire, at>>
  <2>1. Failed(o) /\ Stays(o)
    BY <1>1, <1>4 DEF Fail, Failed, Stays
  <2>2. answer'[o] = "failed" => ~Wrapped(o) /\ ~Holds(o)
    BY <1>1, <1>4 DEF Fail, TypeOK
  <2>3. ASSUME ~Wrapped(o), ~Holds(o) PROVE done[o] = {}
    <3>1. /\ Before(o) \cap Write \subseteq Flag /\ Last(o)
          /\ ~(Before(o) \cap Flag \subseteq item.flags)
      BY <1>1, <2>3, PlanFacts DEF Holds
    <3>2. done[o] \subseteq Before(o) \cap Write /\ done[o] \cap Flag \subseteq item.flags
      BY <1>1, <1>2 DEF OpInv, DoneInOrder, FlagsAreSet, Runs, TypeOK
    <3>3. kind[o] = "discard" /\ Before(o) = {"check", "deleted"}
      BY <1>1, <2>3, <3>1, PlanTable DEF Row, Wrapped
    <3> QED
      BY <3>1, <3>2, <3>3 DEF Flag, Write
  <2>4. OpInv(o)'
    BY <1>1, <1>2, <2>1, <2>2, <2>3, FailKeeps
  <2> QED
    BY <1>1, <2>1, <2>4, OneOperation DEF Untouched, Stays, Failed, TypeOK
<1> QED
  BY <1>3, <1>4 DEF Verify

\* Another client changes the item, and may undo what was done.
LEMMA TouchKeeps ==
  ASSUME IInv, NEW f \in Flag, Touch(f)
  PROVE  VersionIsSpent' /\ \A p \in Op : OpInv(p)'
<1>1. /\ TypeOK /\ UNCHANGED <<kind, server, prepared, want, at, wire, noted, base>>
      /\ UNCHANGED <<answer, met, misled>>
      /\ item'.version = item.version + 1 /\ item.version \in Nat
      /\ item'.flags = IF f \in item.flags THEN item.flags \ {f} ELSE item.flags \cup {f}
      /\ \A p \in Op : done'[p] = IF f \in item.flags THEN done[p] \ {f} ELSE done[p]
  BY DEF IInv, Touch, local, TypeOK
<1>2. ASSUME NEW p \in Op PROVE OpInv(p)'
  <2>1. /\ Before(p)' = Before(p) /\ StepOf(p)' = StepOf(p)
        /\ Writes(p)' = Writes(p)
    BY <1>1 DEF Before, StepOf, Writes
  <2>2. OpInv(p) /\ done'[p] \subseteq done[p]
    BY <1>1 DEF IInv
  <2>3. FlagsAreSet(p)' /\ NotBegun(p)'
    BY <1>1, <2>2 DEF OpInv, FlagsAreSet, NotBegun
  <2>4. BaseIsApproved(p)'
    <3>1. base[p] \in Nat /\ want[p] \in Nat
      BY <1>1 DEF TypeOK
    <3> QED
      BY <1>1, <2>1, <2>2, <3>1 DEF OpInv, BaseIsApproved
  <2>5. (WireInOrder(p) /\ DoneInOrder(p) /\ RequestNoted(p) /\ FailureIsFinal(p))'
    BY <1>1, <2>1, <2>2
    DEF OpInv, WireInOrder, DoneInOrder, RequestNoted, FailureIsFinal
  <2>6. (MetSoFar(p) /\ SuccessMet(p))'
    BY <1>1, <2>1, <2>2 DEF OpInv, MetSoFar, SuccessMet
  <2> QED
    BY <2>3, <2>4, <2>5, <2>6 DEF OpInv
<1>3. VersionIsSpent'
  <2>1. Rewriting' \subseteq Rewriting /\ item'.there = item.there
    BY <1>1 DEF Rewriting, Touch, TypeOK
  <2>2. \A p \in Rewriting : want[p] \in Nat
    BY <1>1 DEF Rewriting, TypeOK
  <2> QED
    BY <1>1, <2>1, <2>2 DEF IInv, VersionIsSpent
<1> QED
  BY <1>2, <1>3

\* The item goes away.
LEMMA VanishKeeps ==
  ASSUME IInv, Vanish
  PROVE  VersionIsSpent' /\ \A p \in Op : OpInv(p)'
<1>1. /\ TypeOK /\ item'.there = FALSE /\ item'.version = item.version
      /\ item'.flags = item.flags /\ item.version \in Nat
      /\ UNCHANGED <<kind, server, prepared, want, at, wire, noted, base, answer>>
      /\ UNCHANGED ghost
  BY DEF IInv, Vanish, local, TypeOK
<1>2. \A p \in Op : OpInv(p)'
  BY <1>1, UntouchedKeeps DEF IInv, Untouched, ghost
<1>3. VersionIsSpent'
  BY <1>1 DEF IInv, VersionIsSpent, Rewriting, ghost
<1> QED
  BY <1>2, <1>3

\* No step breaks the invariant.
LEMMA NextInvariant == IInv /\ [Next]_vars => IInv'
<1> SUFFICES ASSUME IInv, [Next]_vars PROVE IInv'
  OBVIOUS
<1>1. TypeOK'
  BY TypesNext DEF IInv, OpInv
<1>2. CASE UNCHANGED vars
  <2>1. VersionIsSpent'
    BY <1>2 DEF vars, local, ghost, IInv, VersionIsSpent, Rewriting
  <2>2. \A p \in Op : OpInv(p)'
    BY <1>2, UntouchedKeeps DEF vars, local, ghost, IInv, Untouched, TypeOK
  <2> QED
    BY <1>1, <2>1, <2>2 DEF IInv
<1>3. ASSUME Next PROVE VersionIsSpent' /\ \A p \in Op : OpInv(p)'
  BY <1>3, BreakKeeps, CheckKeeps, GetKeeps, SendKeeps, WroteRequestKeeps,
     ApproveKeeps, ActKeeps, DeclineKeeps, ReceiveKeeps, FollowKeeps, LoseKeeps, VerifyKeeps,
     TouchKeeps, VanishKeeps
  DEF Next
<1> QED
  BY <1>1, <1>2, <1>3 DEF IInv

\* What every reachable state of the deliveries satisfies.
THEOREM Invariance == Spec => []IInv
  BY InitInvariant, NextInvariant, PTL DEF Spec

\* The variables have their types whatever the operations and the provider do.
THEOREM TypeCorrect == Spec => []TypeOK
<1>1. IInv => TypeOK
  BY DEF IInv
<1> QED
  BY <1>1, Invariance, PTL

\* Where the answer is the provider's and WroteRequest is not late, a failed write
\* has changed nothing and never will (Service.execute and the classification of
\* errors in the clients).
THEOREM FailuresAreTrue == Spec => []FailedMeansNothing
<1>1. IInv => FailedMeansNothing
  BY DEF IInv, OpInv, FailureIsFinal, FailedMeansNothing
<1> QED
  BY <1>1, Invariance, PTL

\* A success is of writes that are at the provider, or that another client made.
THEOREM SuccessesAreReal == Spec => []SuccessIsReal
<1>1. IInv => SuccessIsReal
  BY DEF IInv, OpInv, SuccessMet, SuccessIsReal
<1> QED
  BY <1>1, Invariance, PTL

\* Of the updates and deletions that were approved on one version, one is made,
\* and of what was approved (If-Match).
THEOREM UpdatesAreNotLost == Spec => []NoLostUpdate
<1>1. IInv => NoLostUpdate
  BY DEF IInv, OpInv, BaseIsApproved, VersionIsSpent, Rewriting, NoLostUpdate
<1> QED
  BY <1>1, Invariance, PTL
-----------------------------------------------------------------------------
(* The refinement of ProviderCall.                                          *)

Answer == {"none", "succeeded", "failed", "uncertain"}

\* An answer is told, or none is. What is known to be done stays as it is.
LEMMA Telling ==
  ASSUME IInv', NEW o \in Op, Runs(o), answer \in [Op -> Answer],
         UNCHANGED <<kind, noted, done, misled>>,
         \/ UNCHANGED answer
         \/ \E a \in {"succeeded", "failed", "uncertain"} :
              answer' = [answer EXCEPT ![o] = a]
  PROVE  [Promise!Next]_(Promise!vars)
<1>1. Acted' = Acted
  BY DEF Acted
<1>2. CASE UNCHANGED answer
  BY <1>1, <1>2 DEF Promise!vars
<1>3. ASSUME NEW a \in {"succeeded", "failed", "uncertain"},
             answer' = [answer EXCEPT ![o] = a]
      PROVE  Promise!Tell(o, a)
  <2>1. answer'[o] = a
    BY <1>3
  <2>2. a = "failed" => o \notin Acted'
    BY <2>1 DEF IInv, OpInv, FailureIsFinal, Acted
  <2> QED
    BY <1>1, <1>3, <2>2 DEF Promise!Tell, Runs
<1> QED
  BY <1>2, <1>3 DEF Promise!Next

\* The ends of a step, as Service.execute records them.
LEMMA Ends ==
  ASSUME NEW o \in Op, NEW u \in BOOLEAN, Advance(o) \/ Fail(o, u)
  PROVE  \/ UNCHANGED answer
         \/ \E a \in {"succeeded", "failed", "uncertain"} :
              answer' = [answer EXCEPT ![o] = a]
<1>1. CASE Advance(o)
  BY <1>1 DEF Advance
<1>2. CASE Fail(o, u)
  <2>1. CASE u \/ Wrapped(o)
    BY <1>2, <2>1 DEF Fail
  <2>2. CASE ~(u \/ Wrapped(o))
    BY <1>2, <2>2 DEF Fail
  <2> QED
    BY <2>1, <2>2
<1> QED
  BY <1>1, <1>2

\* An operation has an effect only while nothing final but success is said of it.
LEMMA TakingEffect ==
  ASSUME NEW o \in Op, UNCHANGED answer, Acted' \in {Acted, Acted \cup {o}},
         o \in Acted' => answer[o] \in {"none", "uncertain"} \/ o \in Acted
  PROVE  [Promise!Next]_(Promise!vars)
<1>1. CASE Acted' = Acted
  BY <1>1 DEF Promise!vars
<1>2. CASE Acted' = Acted \cup {o} /\ o \notin Acted
  BY <1>2 DEF Promise!TakeEffect, Promise!Next
<1> QED
  BY <1>1, <1>2

\* A calendar operation whose request is not out or not answered by a change
\* has done nothing.
LEMMA CalendarIdle ==
  ASSUME IInv, NEW o \in Op, kind[o] \in CalKind, Runs(o), o \notin misled,
         wire[o] \notin {"ok", "nouid"}
  PROVE  done[o] = {}
<1>1. done[o] \subseteq Before(o) \cap Write
  BY DEF IInv, OpInv, DoneInOrder, Runs, TypeOK
<1> QED
  BY <1>1, PlanFacts DEF IInv

\* Nothing is done and nothing is told at first.
LEMMA InitImplements == Init => Promise!Init
<1> SUFFICES ASSUME Init PROVE Promise!Init
  OBVIOUS
<1>1. answer = [o \in Op |-> "none"] /\ \A o \in Op : done[o] = {}
  BY DEF Init
<1>2. Acted = {}
  BY <1>1 DEF Acted
<1> QED
  BY <1>1, <1>2 DEF Promise!Init

\* Every step is one of the promise's, or none.
LEMMA NextImplements ==
  IInv /\ IInv' /\ [Next]_vars => [Promise!Next]_(Promise!vars)
<1> SUFFICES ASSUME IInv, IInv', [Next]_vars PROVE [Promise!Next]_(Promise!vars)
  OBVIOUS
<1>1. TypeOK /\ answer \in [Op -> Answer]
  BY DEF IInv, TypeOK, Answer
<1>2. CASE UNCHANGED vars
  BY <1>2 DEF vars, local, ghost, Acted, Promise!vars
<1>3. CASE Vanish
  BY <1>3 DEF Vanish, local, ghost, Acted, Promise!vars
<1>4. ASSUME NEW f \in Flag, Touch(f) PROVE Promise!Undo
  <2>1. /\ \A o \in Op : done'[o] \subseteq done[o]
        /\ UNCHANGED <<kind, noted, answer, misled>>
    BY <1>4 DEF Touch, local
  <2>2. Acted' \subseteq Acted
    BY <2>1 DEF Acted
  <2> QED
    BY <2>1, <2>2 DEF Promise!Undo
<1>5. ASSUME NEW o \in Op, Break(o) \/ Check(o) \/ Get(o) \/ Receive(o) \/ Lose(o) \/ Verify(o)
      PROVE  [Promise!Next]_(Promise!vars)
  <2>1. Runs(o) /\ UNCHANGED <<kind, noted, done, misled>>
    BY <1>5 DEF Break, Check, Get, Receive, Lose, Verify, local, ghost
  <2>2. Advance(o) \/ (\E u \in BOOLEAN : Fail(o, u))
    <3>1. CASE Break(o) \/ Lose(o)
      <4>1. (StepOf(o) = "verify") \in BOOLEAN /\ MaybeWritten(o) \in BOOLEAN
        BY DEF MaybeWritten
      <4>2. Fail(o, StepOf(o) = "verify") \/ Fail(o, MaybeWritten(o))
        BY <3>1 DEF Break, Lose, SmtpFails, ImapFails, OverImap, DavFails
      <4> QED
        BY <4>1, <4>2, Zenon
    <3>2. CASE Check(o) \/ Get(o)
      BY <3>2 DEF Check, Get
    <3>3. CASE Receive(o) \/ Verify(o)
      BY <3>3 DEF Receive, Verify
    <3> QED
      BY <1>5, <3>1, <3>2, <3>3
  <2> QED
    BY <1>1, <2>1, <2>2, Ends, Telling
<1>6. ASSUME NEW o \in Op, Follow(o) PROVE [Promise!Next]_(Promise!vars)
  <2>1. /\ Runs(o) /\ wire[o] = "moved" /\ kind[o] \in CalKind
        /\ UNCHANGED <<kind, done, misled>>
    BY <1>6 DEF Follow, IInv, OpInv, WireInOrder, ghost
  <2>2. CASE UNCHANGED noted /\ (Advance(o) \/ Fail(o, FALSE) \/ Fail(o, noted[o]))
    <3>1. noted[o] \in BOOLEAN
      BY <1>1 DEF TypeOK
    <3>2. Advance(o) \/ (\E u \in BOOLEAN : Fail(o, u))
      BY <2>2, <3>1
    <3> QED
      BY <1>1, <2>1, <2>2, <3>2, Ends, Telling
  <2>3. CASE noted' = [noted EXCEPT ![o] = ~server.late] /\ UNCHANGED answer
    <3>1. o \in misled \/ done[o] = {}
      BY <2>1, CalendarIdle
    <3>2. Acted' = Acted
      BY <1>1, <2>1, <2>3, <3>1 DEF Acted, TypeOK
    <3> QED
      BY <2>3, <3>2 DEF Promise!vars
  <2> QED
    BY <1>6, <2>2, <2>3 DEF Follow
<1>7. ASSUME NEW o \in Op, Send(o) PROVE [Promise!Next]_(Promise!vars)
  <2>1. /\ Runs(o) /\ wire[o] = "idle" /\ UNCHANGED <<kind, done, answer, misled>>
        /\ \A p \in Op \ {o} : noted'[p] = noted[p]
    BY <1>1, <1>7 DEF Send, ghost, TypeOK
  <2>2. kind[o] \in CalKind => o \in misled \/ done[o] = {}
    BY <2>1, CalendarIdle
  <2>3. Acted' = Acted
    BY <2>1, <2>2 DEF Acted
  <2> QED
    BY <2>1, <2>3 DEF Promise!vars
<1>8. ASSUME NEW o \in Op, WroteRequest(o) PROVE [Promise!Next]_(Promise!vars)
  <2>1. /\ answer[o] = "none" /\ UNCHANGED <<kind, done, answer, misled>> /\ ~noted[o]
        /\ noted'[o] = TRUE /\ \A p \in Op \ {o} : noted'[p] = noted[p]
    BY <1>1, <1>8 DEF WroteRequest, Runs, ghost, TypeOK
  <2>2. Acted' \in {Acted, Acted \cup {o}}
    <3>1. \A p \in Op \ {o} : p \in Acted' <=> p \in Acted
      BY <2>1 DEF Acted
    <3>2. Acted \subseteq Op /\ Acted' \subseteq Op /\ (o \in Acted => o \in Acted')
      BY <2>1 DEF Acted
    <3> QED
      BY <3>1, <3>2
  <2> QED
    BY <2>1, <2>2, TakingEffect
<1>9. ASSUME NEW o \in Op, Serve(o) PROVE [Promise!Next]_(Promise!vars)
  <2>1. /\ wire[o] = "sent" /\ UNCHANGED <<kind, server, noted, answer, misled>>
        /\ done'[o] = done[o] \cup {StepOf(o)}
        /\ \A p \in Op \ {o} : done'[p] = done[p]
    BY <1>1, <1>9 DEF Serve, Act, local, TypeOK
  <2>2. Acted' \in {Acted, Acted \cup {o}}
    <3>1. \A p \in Op \ {o} : p \in Acted' <=> p \in Acted
      BY <2>1 DEF Acted
    <3>2. Acted \subseteq Op /\ Acted' \subseteq Op /\ (o \in Acted => o \in Acted')
      BY <2>1 DEF Acted
    <3> QED
      BY <3>1, <3>2
  <2>3. o \in Acted' => answer[o] \in {"none", "uncertain"}
    <3>1. answer[o] # "succeeded"
      BY <2>1 DEF IInv, OpInv, WireInOrder
    <3>2. answer[o] = "failed" => o \in misled \/ (kind[o] \in CalKind /\ ~noted[o])
      BY <2>1 DEF IInv, OpInv, FailureIsFinal
    <3>3. answer[o] \in {"none", "succeeded", "failed", "uncertain"}
      BY <1>1 DEF TypeOK
    <3> QED
      BY <2>1, <3>1, <3>2, <3>3 DEF Acted
  <2> QED
    BY <2>1, <2>2, <2>3, TakingEffect
<1>10. ASSUME NEW o \in Op, Decline(o) PROVE [Promise!Next]_(Promise!vars)
  BY <1>10 DEF Decline, local, ghost, Acted, Promise!vars
<1>12. ASSUME NEW o \in Op, Mask(o) PROVE Promise!Undo
  <2>1. /\ UNCHANGED <<kind, noted, answer>> /\ misled' = misled \cup {o}
        /\ \A p \in Op \ {o} : done'[p] = done[p]
    BY <1>1, <1>12 DEF Mask, Act, local, TypeOK
  <2>2. Acted' \subseteq Acted
    BY <2>1 DEF Acted
  <2> QED
    BY <2>1, <2>2 DEF Promise!Undo
<1>13. ASSUME NEW o \in Op, ApproveMail(o) \/ ApproveEvent(o)
       PROVE  UNCHANGED Promise!vars
  BY <1>13 DEF ApproveMail, ApproveEvent, ghost, Acted, Promise!vars
<1>11. Promise!Undo => Promise!Next
  BY DEF Promise!Next
<1> QED
  BY <1>2, <1>3, <1>4, <1>5, <1>6, <1>7, <1>8, <1>9, <1>10, <1>11,
     <1>12, <1>13 DEF Next

\* ProviderDelivery implements ProviderCall: whatever the protocol, "failed" is
\* said only of an operation that has, and will have, no effect that the client
\* could know of.
THEOREM Implements == Spec => KeepsProviderPromise
<1>1. Init => Promise!Init
  BY InitImplements
<1>2. IInv /\ IInv' /\ [Next]_vars => [Promise!Next]_(Promise!vars)
  BY NextImplements
<1> QED
  BY <1>1, <1>2, Invariance, PTL DEF Spec, KeepsProviderPromise, Promise!Spec
=============================================================================
