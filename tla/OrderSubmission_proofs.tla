------------------------ MODULE OrderSubmission_proofs ------------------------
(***************************************************************************)
(* The orders row never claims more than the broker did, for plans of any      *)
(* number of legs.                                                           *)
(*                                                                         *)
(* What the row says is what the mapping made of the reply, and the reply is    *)
(* what the broker said of the legs when it answered (resp), which may since    *)
(* have changed for legs it was still working.  The invariant follows those    *)
(* three steps: Heard, Judged and Settled.                                    *)
(***************************************************************************)
EXTENDS OrderSubmission, TLAPS

-----------------------------------------------------------------------------
(* The mapping                                                              *)

\* The four terminal groups of states and the rest.
LEMMA BrokerStatusCases ==
  ASSUME NEW state
  PROVE  /\ state = "filled" => MapBrokerStatus(state) = "FILLED"
         /\ state = "partially_filled" => MapBrokerStatus(state) = "PARTIALLY_FILLED"
         /\ state = "canceled" => MapBrokerStatus(state) = "CANCELLED"
         /\ state = "rejected" => MapBrokerStatus(state) = "FAILED"
         /\ state \notin {"filled", "partially_filled", "canceled", "rejected"} =>
              MapBrokerStatus(state) = "RAISES_RESULT_ERROR"
<1>1. CASE state = "filled"
  BY <1>1 DEF MapBrokerStatus
<1>2. CASE state = "partially_filled"
  BY <1>2 DEF MapBrokerStatus
<1>3. CASE state = "canceled"
  BY <1>3 DEF MapBrokerStatus
<1>4. CASE state = "rejected"
  BY <1>4 DEF MapBrokerStatus
<1>5. CASE state \notin {"filled", "partially_filled", "canceled", "rejected"}
  BY <1>5 DEF MapBrokerStatus
<1> QED
  BY <1>1, <1>2, <1>3, <1>4, <1>5

\* The status when nothing filled is never a fill, and CANCELLED only if the broker
\* said so.
LEMMA NothingFilled ==
  ASSUME NEW state
  PROVE  /\ NothingFilledStatus(state) \in {"CANCELLED", "FAILED", "RAISES_RESULT_ERROR"}
         /\ NothingFilledStatus(state) = "CANCELLED" => state = "canceled"
  BY BrokerStatusCases DEF NothingFilledStatus

\* What a mapped status says of the reply.
LEMMA StatusMeans ==
  ASSUME NEW state, NEW fills, \A l \in DOMAIN fills : fills[l] \in FillLevels
  PROVE  /\ BuildStatus(state, fills) \in ExecutionStatuses \cup Raised
         /\ BuildStatus(state, fills) = "FILLED" => \A l \in DOMAIN fills : fills[l] = "full"
         /\ BuildStatus(state, fills) = "CANCELLED" =>
              state = "canceled" /\ \A l \in DOMAIN fills : fills[l] = "none"
         /\ BuildStatus(state, fills) = "RAISES_RESULT_ERROR" =>
              \A l \in DOMAIN fills : fills[l] = "none"
         /\ (\E l \in DOMAIN fills : fills[l] # "none") /\ (\E l \in DOMAIN fills : fills[l] = "none")
              => BuildStatus(state, fills) = "PARTIALLY_FILLED"
         /\ (\E l \in DOMAIN fills : fills[l] = "short") /\ (\A l \in DOMAIN fills : fills[l] # "none")
              => BuildStatus(state, fills) = "RAISES_VALIDATION"
<1>1. CASE FailedLegs(fills) = {} /\ ~AnyPartial(fills)
  BY <1>1 DEF BuildStatus, FillStatus, StatusMatchesLegs, FailedLegs, AnyPartial, FillLevels,
              ExecutionStatuses, Raised
<1>2. CASE ~(FailedLegs(fills) = {} /\ ~AnyPartial(fills)) /\ FilledLegs(fills) # {}
  BY <1>2 DEF BuildStatus, FillStatus, StatusMatchesLegs, FilledLegs, FailedLegs, AnyPartial,
              FillLevels, ExecutionStatuses, Raised
<1>3. CASE ~(FailedLegs(fills) = {} /\ ~AnyPartial(fills)) /\ FilledLegs(fills) = {}
  <2>1. BuildStatus(state, fills) = NothingFilledStatus(state)
    BY <1>3, NothingFilled DEF BuildStatus, FillStatus, StatusMatchesLegs, Raised
  <2> QED
    BY <1>3, <2>1, NothingFilled DEF FilledLegs, ExecutionStatuses, Raised
<1> QED
  BY <1>1, <1>2, <1>3

\* A sold leg that filled beside a leg that did not is to be unwound.
LEMMA UnwindsNakedShort ==
  ASSUME NEW sides, NEW fills, DOMAIN fills = DOMAIN sides,
         NEW l \in DOMAIN fills, sides[l] = "SELL", fills[l] # "none",
         NEW k \in DOMAIN fills, fills[k] = "none"
  PROVE  RecoveryAction(sides, "PARTIALLY_FILLED", fills) = "UNWIND_FILLED_LEGS"
  BY DEF RecoveryAction, FilledLegs, FailedLegs

\* A folded reply is in a state the broker has.
LEMMA CombinedAreStates ==
  ASSUME NEW states \in SUBSET BrokerStates, NEW state \in CombinedStates(states)
  PROVE  state \in BrokerStates
  BY DEF CombinedStates, BrokerStates

-----------------------------------------------------------------------------
(* The invariant                                                            *)

\* A leg order that the broker is done with.
Final(order) == order.state \in {"filled", "canceled", "rejected"}

\* The broker's legs are orders it accepted, or absent.
Held ==
  /\ leg \in [PlanLegs -> AcceptedLeg \cup {Absent}]
  /\ resp \in [PlanLegs -> AcceptedLeg \cup {Absent}]

\* Where the thread is says what there is so far.
Stage ==
  /\ pc \in {"submit", "legs", "map", "error"} => row = "none" /\ result = "none"
  /\ pc = "persist" => row = "none" /\ result \in ExecutionStatuses
  /\ pc \in {"submit", "legs", "error"} => reply = NoReply
  /\ pc = "legs" => legged
  /\ pc = "done" /\ row = "none" =>
       dbFailed \/ reply = NoReply \/ (caller = "api" /\ mapped = "RAISES_RESULT_ERROR")
  /\ row # "none" => pc = "done" /\ result # "none" /\ row = OrderRowStatus(result)

\* Whatever was final in the reply still is.
Settled ==
  pc \in {"submit", "legs", "map", "persist"} \/ row # "none" =>
    \A l \in PlanLegs : Final(resp[l]) => leg[l] = resp[l]

\* The reply tells of the legs as they were answered, one by one or together.
Heard ==
  pc = "map" =>
    /\ \/ reply.fills = Fills(resp)
       \/ reply.fills = [p \in {Parent} |-> Aggregate(resp)]
       \/ FirstLegOnly
    /\ ~legged /\ reply.state = "canceled" /\ (\A l \in PlanLegs : resp[l].fill = "none")
         => \A l \in PlanLegs : Final(resp[l])

\* A bought leg the broker reported unfilled beside a sold one it filled.
NakedShort ==
  /\ \E l \in PlanLegs : side[l] = "SELL" /\ resp[l].fill # "none"
  /\ \E l \in PlanLegs : side[l] = "BUY" /\ resp[l].fill = "none"

\* The result is what the answers allow.
Judged ==
  pc = "persist" \/ row # "none" =>
    /\ result = "FILLED" /\ ~FirstLegOnly => \A l \in PlanLegs : resp[l].fill = "full"
    /\ result = "CANCELLED" /\ ~legged =>
         \A l \in PlanLegs : resp[l].fill = "none" /\ Final(resp[l])
    /\ NakedShort /\ caller # "close" => recovery = "UNWIND_FILLED_LEGS"

IInv == TypeOK /\ Held /\ Stage /\ Settled /\ Heard /\ Judged

\* An accepted order, and what its fill says of its state.
LEMMA Accepted ==
  ASSUME NEW order \in AcceptedLeg \cup {Absent}
  PROVE  /\ order \in LegOrder
         /\ order.fill \in FillLevels
         /\ order.fill = "full" => Final(order)
         /\ order = Absent \/ order.state \in BrokerStates
         /\ order.fill = "none" => Final(order) \/ order = Absent \/ order.state = "working"
         /\ order.state \in {"working", "partially_filled"} => ~Final(order)
         /\ ~Final(Absent) /\ Absent \notin AcceptedLeg
  BY DEF AcceptedLeg, Absent, LegOrder, LegStates, FillLevels, Final, BrokerStates

\* What the state of a combo says of its legs.
LEMMA ParentTells ==
  ASSUME NEW S, NEW legs \in [S -> AcceptedLeg], NEW state \in ParentStates(legs)
  PROVE  /\ state \in BrokerStates
         /\ state = "canceled" /\ (\A l \in S : legs[l].fill = "none") =>
              \A l \in S : Final(legs[l])
<1> DEFINE states == {legs[l].state : l \in DOMAIN legs}
<1>1. state \in BrokerStates
  BY DEF ParentStates, BrokerStates
<1>2. ASSUME state = "canceled", \A l \in S : legs[l].fill = "none", NEW l \in S
      PROVE  Final(legs[l])
  <2>1. "working" \notin states
    <3>1. states # {"filled"} /\ states # {"rejected"} /\ states # {"working"}
      BY <1>2 DEF ParentStates
    <3> QED
      BY <1>2, <3>1 DEF ParentStates
  <2>2. legs[l] \in AcceptedLeg /\ legs[l].state \in states
    OBVIOUS
  <2> QED
    BY <1>2, <2>1, <2>2 DEF AcceptedLeg, Final
<1> QED
  BY <1>1, <1>2

\* The aggregate of a combo is a fill level: "full" for all legs, "none" for none.
LEMMA AggregateTells ==
  ASSUME NEW legs
  PROVE  /\ Aggregate(legs) \in FillLevels
         /\ Aggregate(legs) = "full" => \A l \in DOMAIN legs : legs[l].fill = "full"
         /\ Aggregate(legs) = "none" => \A l \in DOMAIN legs : legs[l].fill = "none"
  BY DEF Aggregate, FillLevels

\* The reply's fills have levels.
LEMMA Levels == ASSUME TypeOK PROVE \A l \in DOMAIN reply.fills : reply.fills[l] \in FillLevels
  BY DEF TypeOK

-----------------------------------------------------------------------------
(* Every step                                                               *)

LEMMA SubmitAcceptedStep == ASSUME IInv, SubmitAccepted PROVE IInv'
<1> PICK legs \in [PlanLegs -> AcceptedLeg] :
      /\ leg' = legs
      /\ resp' = legs
      /\ \/ /\ PlanLegs = {1}
            /\ reply' = [state |-> legs[1].state, fills |-> Fills(legs)]
         \/ /\ PlanLegs # {1}
            /\ \E state \in ParentStates(legs) :
                 reply' \in {[state |-> state, fills |-> Fills(legs)],
                             [state |-> state, fills |-> [p \in {Parent} |-> Aggregate(legs)]]}
  BY DEF SubmitAccepted
<1>1. /\ pc = "submit" /\ pc' = "map" /\ row = "none" /\ result = "none"
      /\ UNCHANGED <<plan, legged, result, recovery, row, failureRow, dbFailed>>
      /\ PlanLegs' = PlanLegs
  BY DEF SubmitAccepted, IInv, Stage, plan, PlanLegs
<1>2. \A l \in PlanLegs : legs[l] \in AcceptedLeg /\ legs[l] \in LegOrder /\ legs[l].fill \in FillLevels
  BY Accepted
<1>3. /\ reply'.state \in BrokerStates
      /\ \/ reply'.fills = Fills(legs)
         \/ reply'.fills = [p \in {Parent} |-> Aggregate(legs)]
      /\ reply'.state = "canceled" /\ (\A l \in PlanLegs : legs[l].fill = "none")
           => \A l \in PlanLegs : Final(legs[l])
  <2>1. CASE /\ PlanLegs = {1}
             /\ reply' = [state |-> legs[1].state, fills |-> Fills(legs)]
    <3>1. legs[1] \in AcceptedLeg
      BY <2>1
    <3>2. legs[1].state \in BrokerStates /\ (legs[1].state = "canceled" => Final(legs[1]))
      BY <3>1 DEF AcceptedLeg, BrokerStates, Final
    <3> QED
      BY <2>1, <3>2
  <2>2. ASSUME NEW state \in ParentStates(legs),
               reply' \in {[state |-> state, fills |-> Fills(legs)],
                           [state |-> state, fills |-> [p \in {Parent} |-> Aggregate(legs)]]}
        PROVE  <1>3
    BY <2>2, ParentTells
  <2> QED
    BY <2>1, <2>2
<1>4. /\ DOMAIN reply'.fills \subseteq PlanLegs \cup {Parent}
      /\ \A l \in DOMAIN reply'.fills : reply'.fills[l] \in FillLevels
  <2>1. Aggregate(legs) \in FillLevels
    BY AggregateTells
  <2>2. CASE reply'.fills = Fills(legs)
    BY <1>2, <2>2 DEF Fills
  <2>3. CASE reply'.fills = [p \in {Parent} |-> Aggregate(legs)]
    BY <2>1, <2>3
  <2> QED
    BY <1>3, <2>2, <2>3
<1>5. TypeOK'
  BY <1>1, <1>2, <1>3, <1>4 DEF IInv, TypeOK, plan
<1>6. Held' /\ Settled'
  BY <1>1, <1>2 DEF Held, Settled
<1>7. Stage'
  BY <1>1 DEF Stage
<1>8. Heard'
  BY <1>1, <1>3 DEF Heard
<1>9. Judged'
  BY <1>1 DEF Judged
<1> QED
  BY <1>5, <1>6, <1>7, <1>8, <1>9 DEF IInv

\* The thread goes on without an answer.
LEMMA UnansweredStep ==
  ASSUME IInv, SubmitRefused \/ SubmitReplyLost \/ LegFailed \/ FallBackToLegs
  PROVE  IInv'
<1>1. /\ pc \in {"submit", "legs"} /\ row = "none" /\ result = "none" /\ reply = NoReply
      /\ pc' = "error" \/ (pc' = "legs" /\ legged' /\ leg' = leg)
      /\ UNCHANGED <<plan, resp, reply, result, recovery, row, failureRow, dbFailed>>
      /\ legged' \in BOOLEAN
      /\ PlanLegs' = PlanLegs
  <2>1. pc \in {"submit", "legs"} /\ row = "none" /\ result = "none" /\ reply = NoReply
    BY DEF SubmitRefused, SubmitReplyLost, LegFailed, FallBackToLegs, IInv, Stage
  <2>2. UNCHANGED <<plan, resp, reply, result, recovery, row, failureRow, dbFailed>>
    BY DEF SubmitRefused, SubmitReplyLost, LegFailed, FallBackToLegs
  <2>3. PlanLegs' = PlanLegs
    BY <2>2 DEF plan, PlanLegs
  <2>4. pc' = "error" \/ (pc' = "legs" /\ legged' /\ leg' = leg)
    BY DEF SubmitRefused, SubmitReplyLost, LegFailed, FallBackToLegs
  <2>5. legged' \in BOOLEAN
    BY DEF SubmitRefused, SubmitReplyLost, LegFailed, FallBackToLegs, IInv, TypeOK
  <2> QED
    BY <2>1, <2>2, <2>3, <2>4, <2>5
<1>2. leg' \in [PlanLegs -> AcceptedLeg \cup {Absent}]
  BY DEF SubmitRefused, SubmitReplyLost, LegFailed, FallBackToLegs, IInv, Held
<1>3. leg' \in [PlanLegs -> LegOrder]
  BY <1>2, Accepted
<1>4. TypeOK'
  BY <1>1, <1>3 DEF IInv, TypeOK, plan
<1>5. Held'
  BY <1>1, <1>2 DEF IInv, Held
<1>6. Stage'
  BY <1>1 DEF Stage
<1>7. Settled'
  BY <1>1 DEF IInv, Settled
<1>8. Heard' /\ Judged'
  BY <1>1 DEF Heard, Judged
<1> QED
  BY <1>4, <1>5, <1>6, <1>7, <1>8 DEF IInv

LEMMA LegAcceptedStep == ASSUME IInv, LegAccepted PROVE IInv'
<1> PICK order \in AcceptedLeg :
      /\ leg' = [leg EXCEPT ![NextLeg] = order]
      /\ resp' = [resp EXCEPT ![NextLeg] = order]
  BY DEF LegAccepted
<1>1. /\ pc = "legs" /\ row = "none" /\ result = "none"
      /\ UNCHANGED <<plan, pc, legged, reply, result, recovery, row, failureRow, dbFailed>>
      /\ PlanLegs' = PlanLegs
  BY DEF LegAccepted, IInv, Stage, plan, PlanLegs
<1>2. order \in LegOrder
  BY Accepted
<1>3. TypeOK'
  BY <1>1, <1>2 DEF IInv, TypeOK, plan
<1>4. Held'
  BY <1>1 DEF IInv, Held
<1>5. Stage'
  BY <1>1 DEF IInv, Stage
<1>6. Settled'
  <2>1. ASSUME NEW l \in PlanLegs, Final(resp'[l])
        PROVE  leg'[l] = resp'[l]
    <3>1. CASE l = NextLeg
      BY <3>1 DEF IInv, Held
    <3>2. CASE l # NextLeg
      <4>1. leg'[l] = leg[l] /\ resp'[l] = resp[l]
        BY <3>2 DEF IInv, Held
      <4> QED
        BY <1>1, <2>1, <4>1 DEF IInv, Settled
    <3> QED
      BY <3>1, <3>2
  <2> QED
    BY <1>1, <2>1 DEF Settled
<1>7. Heard' /\ Judged'
  BY <1>1 DEF Heard, Judged
<1> QED
  BY <1>3, <1>4, <1>5, <1>6, <1>7 DEF IInv

\* The legs' answers are folded into one; the close takes the first.
LEMMA CombineLeggedStep == ASSUME IInv, CombineLegged PROVE IInv'
<1>1. /\ pc = "legs" /\ pc' = "map" /\ row = "none" /\ result = "none" /\ legged
      /\ \A l \in PlanLegs : resp[l] # Absent
      /\ UNCHANGED <<plan, leg, resp, legged, result, recovery, row, failureRow, dbFailed>>
      /\ PlanLegs' = PlanLegs
  BY DEF CombineLegged, IInv, Stage, plan, PlanLegs
<1>2. \A l \in PlanLegs : resp[l].state \in BrokerStates /\ resp[l].fill \in FillLevels
  BY <1>1, Accepted DEF IInv, Held
<1>3. 1 \in PlanLegs
  BY MaxLegsAssumption DEF IInv, TypeOK, Plans, PlanLegs
<1>4. /\ reply'.state \in BrokerStates
      /\ DOMAIN reply'.fills \subseteq PlanLegs \cup {Parent}
      /\ \A l \in DOMAIN reply'.fills : reply'.fills[l] \in FillLevels
      /\ reply'.fills = Fills(resp) \/ FirstLegOnly
  <2>1. ASSUME NEW state \in CombinedStates({resp[l].state : l \in PlanLegs}),
               reply' = [state |-> state, fills |-> Fills(resp)]
        PROVE  <1>4
    <3>1. {resp[l].state : l \in PlanLegs} \in SUBSET BrokerStates
      BY <1>2
    <3>2. state \in BrokerStates
      BY <3>1, CombinedAreStates
    <3> QED
      BY <1>2, <2>1, <3>2 DEF Fills, IInv, Held
  <2>2. CASE /\ caller = "close"
             /\ reply' = [state |-> resp[1].state, fills |-> [l \in {1} |-> resp[1].fill]]
    BY <1>1, <1>2, <1>3, <2>2 DEF FirstLegOnly
  <2> QED
    BY <2>1, <2>2 DEF CombineLegged
<1>5. TypeOK'
  BY <1>1, <1>4 DEF IInv, TypeOK, plan
<1>6. Held' /\ Settled'
  BY <1>1 DEF IInv, Held, Settled
<1>7. Stage'
  BY <1>1 DEF Stage
<1>8. Heard'
  BY <1>1, <1>4 DEF Heard, FirstLegOnly, plan
<1>9. Judged'
  BY <1>1 DEF Judged
<1> QED
  BY <1>5, <1>6, <1>7, <1>8, <1>9 DEF IInv

\* The broker goes on working a leg that was not final.
LEMMA BrokerWorksStep == ASSUME IInv, NEW w \in PlanLegs, BrokerWorks(w) PROVE IInv'
<1> PICK order \in AcceptedLeg : leg' = [leg EXCEPT ![w] = order]
  BY DEF BrokerWorks
<1>1. /\ UNCHANGED <<plan, pc, resp, legged, reply, result, recovery, row, failureRow, dbFailed>>
      /\ PlanLegs' = PlanLegs /\ mapped' = mapped /\ FirstLegOnly' = FirstLegOnly
      /\ NakedShort' = NakedShort
  BY DEF BrokerWorks, plan, PlanLegs, mapped, FirstLegOnly, NakedShort
<1>2. order \in LegOrder
  BY Accepted
<1>3. TypeOK'
  BY <1>1, <1>2 DEF IInv, TypeOK, plan
<1>4. Held'
  BY <1>1 DEF IInv, Held
<1>5. Stage'
  BY <1>1 DEF IInv, Stage, plan
<1>6. Settled'
  <2>1. ~Final(leg[w])
    BY DEF BrokerWorks, Live, Final
  <2> QED
    BY <1>1, <2>1 DEF IInv, Held, Settled
<1>7. Heard' /\ Judged'
  BY <1>1 DEF IInv, Heard, Judged, plan
<1> QED
  BY <1>3, <1>4, <1>5, <1>6, <1>7 DEF IInv

\* What the reply says is what was heard of the legs, unless a close is mapped from its
\* first leg.
LEMMA HeardTells ==
  ASSUME IInv, pc = "map", ~FirstLegOnly
  PROVE  /\ (\A l \in DOMAIN reply.fills : reply.fills[l] = "full") =>
              \A l \in PlanLegs : resp[l].fill = "full"
         /\ (\A l \in DOMAIN reply.fills : reply.fills[l] = "none") =>
              \A l \in PlanLegs : resp[l].fill = "none"
         /\ NakedShort =>
              \/ mapped = "RAISES_VALIDATION"
              \/ /\ mapped = "PARTIALLY_FILLED"
                 /\ RecoveryAction(side, mapped, reply.fills) = "UNWIND_FILLED_LEGS"
<1>1. DOMAIN resp = PlanLegs /\ DOMAIN Fills(resp) = PlanLegs
      /\ \A l \in PlanLegs : Fills(resp)[l] = resp[l].fill
  BY DEF IInv, Held, Fills
<1>2. \A l \in DOMAIN reply.fills : reply.fills[l] \in FillLevels
  BY Levels DEF IInv
<1>3. CASE reply.fills = Fills(resp)
  <2>1. ASSUME NEW l \in PlanLegs, side[l] = "SELL", resp[l].fill # "none",
               NEW k \in PlanLegs, resp[k].fill = "none"
        PROVE  /\ mapped = "PARTIALLY_FILLED"
               /\ RecoveryAction(side, mapped, reply.fills) = "UNWIND_FILLED_LEGS"
    <3>1. reply.fills[l] # "none" /\ reply.fills[k] = "none" /\ DOMAIN reply.fills = DOMAIN side
      BY <1>1, <1>3, <2>1 DEF PlanLegs
    <3>2. l \in DOMAIN reply.fills /\ k \in DOMAIN reply.fills
      BY <3>1 DEF PlanLegs
    <3>3. mapped = "PARTIALLY_FILLED"
      BY <1>2, <3>1, <3>2, StatusMeans DEF mapped
    <3> QED
      BY <2>1, <3>1, <3>2, <3>3, UnwindsNakedShort
  <2> QED
    BY <1>1, <1>3, <2>1 DEF NakedShort
<1>4. CASE reply.fills = [p \in {Parent} |-> Aggregate(resp)]
  <2>1. DOMAIN reply.fills = {Parent} /\ reply.fills[Parent] = Aggregate(resp)
    BY <1>4
  <2>2. NakedShort => Aggregate(resp) = "short"
    BY <1>1, AggregateTells DEF NakedShort, FillLevels
  <2>3. NakedShort => mapped = "RAISES_VALIDATION"
    BY <1>2, <2>1, <2>2, StatusMeans DEF mapped
  <2> QED
    BY <1>1, <2>1, <2>3, AggregateTells
<1> QED
  BY <1>3, <1>4 DEF IInv, Heard

LEMMA MapResultStep == ASSUME IInv, MapResult PROVE IInv'
<1>1. /\ pc = "map" /\ pc' = "persist" /\ row = "none"
      /\ mapped \notin Raised /\ result' = mapped
      /\ recovery' = RecoveryAction(side, mapped, reply.fills)
      /\ UNCHANGED <<plan, leg, resp, legged, reply, row, failureRow, dbFailed>>
      /\ PlanLegs' = PlanLegs
      /\ FirstLegOnly' = FirstLegOnly /\ NakedShort' = NakedShort
  BY DEF MapResult, IInv, Stage, plan, PlanLegs, FirstLegOnly, NakedShort
<1>2. \A l \in DOMAIN reply.fills : reply.fills[l] \in FillLevels
  BY Levels DEF IInv
<1>3. mapped \in ExecutionStatuses
  BY <1>1, <1>2, StatusMeans DEF mapped
<1>4. TypeOK'
  <2>1. recovery' \in RecoveryActions
    BY <1>1 DEF RecoveryAction, RecoveryActions
  <2> QED
    BY <1>1, <1>3, <2>1 DEF IInv, TypeOK, plan
<1>5. Held' /\ Settled'
  BY <1>1 DEF IInv, Held, Settled
<1>6. Stage' /\ Heard'
  BY <1>1, <1>3 DEF Stage, Heard
<1>7. result' = "FILLED" /\ ~FirstLegOnly => \A l \in PlanLegs : resp[l].fill = "full"
  <2>1. mapped = "FILLED" => \A l \in DOMAIN reply.fills : reply.fills[l] = "full"
    BY <1>2, StatusMeans DEF mapped
  <2> QED
    BY <1>1, <2>1, HeardTells
<1>8. result' = "CANCELLED" /\ ~legged =>
        \A l \in PlanLegs : resp[l].fill = "none" /\ Final(resp[l])
  <2>1. mapped = "CANCELLED" =>
          reply.state = "canceled" /\ \A l \in DOMAIN reply.fills : reply.fills[l] = "none"
    BY <1>2, StatusMeans DEF mapped
  <2> QED
    BY <1>1, <2>1, HeardTells DEF IInv, Heard, FirstLegOnly
<1>9. NakedShort /\ caller # "close" => recovery' = "UNWIND_FILLED_LEGS"
  BY <1>1, HeardTells DEF FirstLegOnly, Raised
<1>10. Judged'
  BY <1>1, <1>7, <1>8, <1>9 DEF Judged, plan
<1> QED
  BY <1>4, <1>5, <1>6, <1>10 DEF IInv

LEMMA MapUnmappableStep == ASSUME IInv, MapUnmappable PROVE IInv'
<1>1. /\ pc = "map" /\ row = "none" /\ result' = "FAILED"
      /\ caller = "close" \/ mapped = "RAISES_RESULT_ERROR"
      /\ \/ pc' = "persist" /\ failureRow' = failureRow
         \/ pc' = "done" /\ caller = "api" /\ failureRow' = TRUE
      /\ UNCHANGED <<plan, leg, resp, legged, reply, recovery, row, dbFailed>>
      /\ PlanLegs' = PlanLegs /\ mapped' = mapped
      /\ FirstLegOnly' = FirstLegOnly /\ NakedShort' = NakedShort
  BY DEF MapUnmappable, IInv, Stage, plan, PlanLegs, FirstLegOnly, NakedShort, mapped
<1>2. TypeOK'
  BY <1>1 DEF IInv, TypeOK, plan, Ended, ExecutionStatuses
<1>3. Held' /\ Settled'
  BY <1>1 DEF IInv, Held, Settled
<1>4. Stage'
  BY <1>1 DEF Stage, ExecutionStatuses, plan
<1>5. Heard'
  BY <1>1 DEF Heard
<1>6. NakedShort => caller = "close"
  BY <1>1, HeardTells DEF FirstLegOnly
<1>7. Judged'
  BY <1>1, <1>6 DEF Judged, plan
<1> QED
  BY <1>2, <1>3, <1>4, <1>5, <1>7 DEF IInv

LEMMA PersistStep == ASSUME IInv, Persist PROVE IInv'
<1>1. /\ pc = "persist" /\ pc' = "done" /\ row = "none" /\ result \in ExecutionStatuses
      /\ \/ row' = OrderRowStatus(result) /\ dbFailed' = dbFailed
         \/ row' = row /\ dbFailed' = TRUE
      /\ failureRow' = (failureRow \/ (caller = "node" /\ result = "FAILED"))
      /\ UNCHANGED <<plan, leg, resp, legged, reply, result, recovery>>
      /\ PlanLegs' = PlanLegs
      /\ FirstLegOnly' = FirstLegOnly /\ NakedShort' = NakedShort
  BY DEF Persist, IInv, Stage, plan, PlanLegs, FirstLegOnly, NakedShort
<1>2. OrderRowStatus(result) \in OrderRowStatuses /\ OrderRowStatus(result) # "none"
      /\ result # "none"
  BY <1>1 DEF OrderRowStatus, OrderRowStatuses, ExecutionStatuses
<1>3. TypeOK'
  <2>1. failureRow' \in BOOLEAN
    BY <1>1
  <2> QED
    BY <1>1, <1>2, <2>1 DEF IInv, TypeOK, plan, Ended
<1>4. Held' /\ Settled'
  BY <1>1 DEF IInv, Held, Settled
<1>5. Stage' /\ Heard'
  <2>1. row' # "none" \/ dbFailed'
    BY <1>1, <1>2
  <2>2. Stage'
    BY <1>1, <1>2, <2>1 DEF Stage
  <2> QED
    BY <1>1, <2>2 DEF Heard
<1>6. Judged'
  BY <1>1 DEF IInv, Judged, plan
<1> QED
  BY <1>3, <1>4, <1>5, <1>6 DEF IInv

\* The thread ends without a row.
LEMMA EndStep == ASSUME IInv, SubmitError \/ MapRaises \/ Crash PROVE IInv'
<1>1. /\ pc' \in Ended /\ row = "none" /\ row' = "none"
      /\ result' = result \/ result' = "FAILED"
      /\ pc' = "done" => reply = NoReply
      /\ failureRow' \in BOOLEAN
      /\ UNCHANGED <<plan, leg, resp, legged, reply, recovery, dbFailed>>
      /\ PlanLegs' = PlanLegs
  <2>1. CASE SubmitError
    BY <2>1 DEF SubmitError, IInv, Stage, Ended, plan, PlanLegs
  <2>2. CASE MapRaises
    BY <2>2 DEF MapRaises, IInv, Stage, TypeOK, Ended, plan, PlanLegs
  <2>3. CASE Crash
    BY <2>3 DEF Crash, IInv, Stage, TypeOK, Ended, plan, PlanLegs
  <2> QED
    BY <2>1, <2>2, <2>3
<1>2. TypeOK'
  BY <1>1 DEF IInv, TypeOK, plan, ExecutionStatuses
<1>3. Held'
  BY <1>1 DEF IInv, Held
<1>4. Stage'
  BY <1>1 DEF Stage, Ended
<1>5. Settled' /\ Heard' /\ Judged'
  BY <1>1 DEF Settled, Heard, Judged, Ended
<1> QED
  BY <1>2, <1>3, <1>4, <1>5 DEF IInv

-----------------------------------------------------------------------------

LEMMA IInvInit == Init => IInv
<1> SUFFICES ASSUME Init
             PROVE  IInv
  OBVIOUS
<1>1. Absent \in LegOrder /\ ~Final(Absent)
  BY DEF Absent, LegOrder, LegStates, FillLevels, Final
<1>2. TypeOK
  <2>1. reply.state \in BrokerStates /\ DOMAIN reply.fills = {}
    BY DEF Init, NoReply, BrokerStates
  <2> QED
    BY <1>1, <2>1 DEF Init, TypeOK, RecoveryActions
<1>3. Held /\ Settled
  BY <1>1 DEF Init, Held, Settled
<1>4. Stage /\ Heard /\ Judged
  BY DEF Init, Stage, Heard, Judged
<1> QED
  BY <1>2, <1>3, <1>4 DEF IInv

LEMMA IInvStep == IInv /\ [Next]_vars => IInv'
<1> SUFFICES ASSUME IInv, [Next]_vars
             PROVE  IInv'
  OBVIOUS
<1>1. CASE Submission
  BY <1>1, SubmitAcceptedStep, UnansweredStep, LegAcceptedStep, CombineLeggedStep, EndStep,
     MapResultStep, MapUnmappableStep, PersistStep DEF Submission
<1>2. ASSUME NEW l \in PlanLegs, BrokerWorks(l)
      PROVE  IInv'
  BY <1>2, BrokerWorksStep
<1>3. CASE Crash
  BY <1>3, EndStep
<1>4. CASE UNCHANGED vars
  <2>1. /\ UNCHANGED <<caller, side, mayLeg, pc, leg, resp, legged, reply, result, recovery, row,
                      failureRow, dbFailed>>
        /\ PlanLegs' = PlanLegs /\ mapped' = mapped
        /\ FirstLegOnly' = FirstLegOnly /\ NakedShort' = NakedShort
    BY <1>4 DEF vars, PlanLegs, mapped, FirstLegOnly, NakedShort
  <2> QED
    BY <2>1 DEF IInv, TypeOK, Held, Stage, Settled, Heard, Judged
<1> QED
  BY <1>1, <1>2, <1>3, <1>4 DEF Next

LEMMA Invariant == Spec => []IInv
  BY IInvInit, IInvStep, PTL DEF Spec

\* The state stays within its types, for plans of any number of legs.
THEOREM TypeCorrect == Spec => []TypeOK
<1>1. IInv => TypeOK
  BY DEF IInv
<1> QED
  BY <1>1, Invariant, PTL

\* A FILLED orders row means that every leg filled in full, whatever the broker claimed of
\* the parent order and however late it worked a leg.
THEOREM RowsTellTheTruth == Spec => []NoFalseSuccess
<1>1. IInv => NoFalseSuccess
  <2> SUFFICES ASSUME IInv, row = "FILLED", ~FirstLegOnly, NEW l \in PlanLegs
               PROVE  leg[l].fill = "full"
    BY DEF NoFalseSuccess
  <2>1. result = "FILLED"
    BY DEF IInv, Stage, OrderRowStatus
  <2>2. resp[l].fill = "full"
    BY <2>1 DEF IInv, Judged
  <2>3. Final(resp[l])
    BY <2>2, Accepted DEF IInv, Held
  <2> QED
    BY <2>2, <2>3 DEF IInv, Settled
<1> QED
  BY <1>1, Invariant, PTL

\* A CANCELLED orders row of an order that went out whole means that nothing is held.
THEOREM CancelledHoldsNothing == Spec => []CancelledRowHoldsNothing
<1>1. IInv => CancelledRowHoldsNothing
  <2> SUFFICES ASSUME IInv, row = "CANCELLED", ~legged, NEW l \in PlanLegs
               PROVE  leg[l].fill = "none" /\ ~Live(l)
    BY DEF CancelledRowHoldsNothing
  <2>1. result = "CANCELLED"
    BY DEF IInv, Stage, OrderRowStatus
  <2>2. resp[l].fill = "none" /\ Final(resp[l])
    BY <2>1 DEF IInv, Judged
  <2> QED
    BY <2>2 DEF IInv, Settled, Live, Final
<1> QED
  BY <1>1, Invariant, PTL

\* A naked short the broker reported never gets a row without the unwind action.
THEOREM NakedShortsAreFlagged == Spec => []NakedShortIsFlagged
<1>1. IInv => NakedShortIsFlagged
  BY DEF IInv, Judged, NakedShort, NakedShortIsFlagged
<1> QED
  BY <1>1, Invariant, PTL

\* An accepted order leaves no row through four doors only.
THEOREM LostOrdersHaveACause == Spec => []UnrecordedOrderHasCause
<1>1. IInv => UnrecordedOrderHasCause
  BY DEF IInv, Stage, UnrecordedOrderHasCause
<1> QED
  BY <1>1, Invariant, PTL

===============================================================================
