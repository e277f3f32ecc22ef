------------------------- MODULE PlanProgressProofs -------------------------
(***************************************************************************)
(* Proofs about PlanProgress: for every set of turns, every set of plan    *)
(* lengths and every bound of the history counter, the row of a learner    *)
(* stays within the plan, its count follows its position, and no progress  *)
(* is invented.                                                            *)
(***************************************************************************)
EXTENDS PlanProgress, TLAPS

\* Normalising a sound row gives one that fits the plan and is still sound.
LEMMA NormalisedFits ==
    ASSUME NEW row \in Row, total \in Nat \ {0}, grew \in BOOLEAN, Sound(row)
    PROVE  /\ Normalised(row, total) \in Row
           /\ Sound(Normalised(row, total))
           /\ Normalised(row, total).index \in Stages
           /\ Normalised(row, total).count <= total
           /\ Normalised(row, total).count = total => Normalised(row, total).done
           /\ Normalised(row, total).count <= row.count
  <1> DEFINE next == Normalised(row, total)
  <1>1. row.index \in Nat /\ row.count \in Nat /\ row.done \in BOOLEAN
    BY DEF Row
  <1>2. /\ next.index = AtMost(row.index, total - 1)
        /\ next.count = AtMost(row.count, total)
        /\ next.done <=> (row.done \/ row.count >= total)
    BY DEF Normalised
  <1>3. next.index \in Nat /\ next.count \in Nat
    BY <1>1, <1>2 DEF AtMost
  <1>4. next \in Row
    BY <1>2, <1>3 DEF Normalised, Row
  <1>5. QED
    BY <1>1, <1>2, <1>4 DEF Sound, AtMost, Stages

\* Finishing a section of a sound row within the plan gives another one, which
\* counts at most one section more.
LEMMA AdvancedFits ==
    ASSUME NEW row \in Row, total \in Nat \ {0}, grew \in BOOLEAN, Sound(row),
           row.index \in Stages, row.count <= total
    PROVE  /\ Advanced(row, total) \in Row
           /\ Sound(Advanced(row, total))
           /\ Advanced(row, total).index \in Stages
           /\ Advanced(row, total).count <= total
           /\ Advanced(row, total).count = total => Advanced(row, total).done
           /\ Advanced(row, total).count <= row.count + 1
  <1> DEFINE next == Advanced(row, total)
             count == AtMost(row.count + 1, total)
  <1>1. row.index \in Nat /\ row.count \in Nat /\ row.done \in BOOLEAN
    BY DEF Row
  <1>2. /\ next.index = IF count >= total THEN total - 1 ELSE AtMost(row.index + 1, total - 1)
        /\ next.count = count
        /\ next.done <=> (count >= total)
    BY DEF Advanced
  <1>3. next.index \in Nat /\ next.count \in Nat
    BY <1>1, <1>2 DEF AtMost
  <1>4. next \in Row
    BY <1>2, <1>3 DEF Advanced, Row
  <1>5. QED
    BY <1>1, <1>2, <1>4 DEF Sound, AtMost, Stages

\* Moving to a section of the plan gives a sound row within it that counts no more.
LEMMA MovedFits ==
    ASSUME NEW row \in Row, total \in Nat \ {0}, grew \in BOOLEAN, NEW target \in Stages
    PROVE  /\ Moved(row, target) \in Row
           /\ Sound(Moved(row, target))
           /\ Moved(row, target).index \in Stages
           /\ Moved(row, target).count < total
           /\ Moved(row, target).count <= row.count
  <1> DEFINE next == Moved(row, target)
  <1>1. row.index \in Nat /\ row.count \in Nat /\ row.done \in BOOLEAN /\ target \in Nat
    BY DEF Row, Stages
  <1>2. next.index = target /\ next.count = AtMost(row.count, target) /\ next.done = FALSE
    BY DEF Moved
  <1>3. next.index \in Nat /\ next.count \in Nat /\ next.done \in BOOLEAN
    BY <1>1, <1>2 DEF AtMost
  <1>4. next \in Row
    BY <1>2, <1>3 DEF Moved, Row
  <1>5. QED
    BY <1>1, <1>2, <1>4 DEF Sound, AtMost, Stages

\* A new learner's row is sound in every plan.
LEMMA FreshFits ==
    ASSUME total \in Nat \ {0}
    PROVE  FreshRow \in Row /\ FreshRow.count = 0 /\ FreshRow.index = 0 /\ Sound(FreshRow)
  BY DEF FreshRow, Row, Sound

\* A new plan satisfies the inductive invariant.
LEMMA InitIndInv == Init => IndInv
  <1> SUFFICES ASSUME Init PROVE IndInv
    OBVIOUS
  <1>1. total \in Nat \ {0}
    BY TotalsAssumption DEF Init
  <1>2. FreshRow \in Row /\ FreshRow.count = 0 /\ FreshRow.index = 0 /\ Sound(FreshRow)
    BY <1>1, FreshFits
  <1>3. TypeOK
    <2>1. advances \in 0 .. Cap
      BY CapAssumption DEF Init
    <2>2. /\ pc \in [Turns -> Pcs]
          /\ asked \in [Turns -> Operations]
          /\ held \in [Turns -> Row]
      BY <1>2 DEF Init, Pcs, Operations
    <2>3. QED
      BY <1>2, <2>1, <2>2 DEF Init, TypeOK
  <1>4. QED
    BY <1>2, <1>3, CapAssumption
    DEF Init, IndInv, RowsSound, IdleHoldsNothing, ContextInPlan, HasContext, ProgressIsEarned

\* A row within the plan, as a turn has it once its context is ensured.
Fits(row) ==
    /\ row.index \in Stages
    /\ row.count <= total
    /\ row.count = total => row.done

\* What a step of turn t has to establish about the row it has in hand
\* afterwards; the stored row stays or becomes that row.
LEMMA TurnStepIndInv ==
    ASSUME IndInv, NEW t \in Turns, TypeOK', UNCHANGED <<total, grew>>,
           plan' = plan \/ plan' = held'[t],
           \A u \in Turns : u # t => held'[u] = held[u] /\ pc'[u] = pc[u],
           advances <= advances',
           Sound(held'[t]), held'[t].count <= advances',
           pc'[t] = "idle" => held'[t] = FreshRow,
           pc'[t] \in {"turn", "write"} => Fits(held'[t])
    PROVE  IndInv'
  <1>1. RowsSound'
    <2>1. Sound(plan')
      BY DEF IndInv, RowsSound
    <2>2. ASSUME NEW u \in Turns PROVE Sound(held'[u])
      BY DEF IndInv, RowsSound
    <2>3. QED
      BY <2>1, <2>2 DEF RowsSound, Sound
  <1>2. IdleHoldsNothing'
    BY DEF IndInv, IdleHoldsNothing
  <1>3. ContextInPlan'
    BY DEF IndInv, ContextInPlan, HasContext, Stages, Fits
  <1>4. ProgressIsEarned'
    <2>1. \A r \in Row : r.count \in Nat
      BY DEF Row
    <2>2. advances \in Nat /\ advances' \in Nat
      BY CapAssumption DEF IndInv, TypeOK
    <2>3. plan'.count <= advances'
      BY <2>1, <2>2 DEF IndInv, TypeOK, ProgressIsEarned
    <2>4. ASSUME NEW u \in Turns PROVE held'[u].count <= advances'
      BY <2>1, <2>2 DEF IndInv, TypeOK, ProgressIsEarned
    <2>5. QED
      BY <2>3, <2>4 DEF ProgressIsEarned
  <1>5. QED
    BY <1>1, <1>2, <1>3, <1>4 DEF IndInv

\* Every operation on the plan preserves it.
LEMMA NextIndInv == IndInv /\ [Next]_vars => IndInv'
  <1> SUFFICES ASSUME IndInv, [Next]_vars PROVE IndInv'
    OBVIOUS
  <1> USE DEF Pcs, Operations
  <1>1. /\ total \in Nat \ {0} /\ grew \in BOOLEAN
        /\ plan \in Row /\ Sound(plan) /\ plan.count <= advances
        /\ advances \in Nat /\ Cap \in Nat /\ total <= Cap /\ advances <= Cap
    BY TotalsAssumption, CapAssumption DEF IndInv, TypeOK, RowsSound, ProgressIsEarned
  <1>2. ASSUME NEW t \in Turns
        PROVE  /\ held[t] \in Row /\ Sound(held[t]) /\ held[t].count <= advances
               /\ held[t].count \in Nat
               /\ pc[t] \in {"turn", "write"} => Fits(held[t])
    <2>1. held[t] \in Row
      BY DEF IndInv, TypeOK
    <2>2. held[t].count \in Nat
      BY <2>1 DEF Row
    <2>3. QED
      BY <2>1, <2>2 DEF IndInv, RowsSound, ProgressIsEarned, ContextInPlan, HasContext, Fits
  <1>3. FreshRow \in Row /\ FreshRow.count = 0 /\ FreshRow.index = 0 /\ Sound(FreshRow)
    BY <1>1, FreshFits
  <1>4. CASE UNCHANGED vars
    BY <1>4 DEF vars, planVars, turnVars, IndInv, TypeOK, RowsSound, Sound, IdleHoldsNothing,
                ContextInPlan, HasContext, Stages, ProgressIsEarned
  <1>5. ASSUME NEW t \in Turns, Begin(t) PROVE IndInv'
    <2>1. TypeOK'
      BY <1>5 DEF Begin, planVars, IndInv, TypeOK
    <2>2. pc'[t] = "ensure"
      BY <1>5 DEF Begin, IndInv, TypeOK
    <2>3. QED
      BY <1>1, <1>2, <1>5, <2>1, <2>2, TurnStepIndInv DEF Begin, planVars
  <1>6. ASSUME NEW t \in Turns, NEW operation \in {"advance", "move"}, Ask(t, operation) PROVE IndInv'
    <2>1. TypeOK'
      BY <1>6 DEF Ask, planVars, IndInv, TypeOK
    <2>2. pc'[t] = "ensure"
      BY <1>6 DEF Ask, IndInv, TypeOK
    <2>3. QED
      BY <1>1, <1>2, <1>6, <2>1, <2>2, TurnStepIndInv DEF Ask, planVars
  <1>7. ASSUME NEW t \in Turns, Ensure(t) PROVE IndInv'
    <2>1. TypeOK'
      BY <1>7 DEF Ensure, AfterEnsure, IndInv, TypeOK
    <2>2. held'[t] = plan
      BY <1>7 DEF Ensure, IndInv, TypeOK
    <2>3. pc'[t] # "idle" /\ (pc'[t] \in {"turn", "write"} => Normalised(plan, total) = plan)
      BY <1>7 DEF Ensure, AfterEnsure, IndInv, TypeOK
    <2>4. Normalised(plan, total) = plan => Fits(plan)
      BY <1>1, NormalisedFits DEF Fits
    <2>5. QED
      BY <1>1, <1>7, <2>1, <2>2, <2>3, <2>4, TurnStepIndInv DEF Ensure
  <1>8. ASSUME NEW t \in Turns, Normalise(t) PROVE IndInv'
    <2> DEFINE row == Normalised(held[t], total)
    <2>1. row \in Row /\ Sound(row) /\ Fits(row) /\ row.count <= held[t].count
      BY <1>1, <1>2, NormalisedFits DEF Fits
    <2>2. row.count <= advances
      BY <1>1, <1>2, <2>1 DEF Row
    <2>3. TypeOK'
      BY <1>8, <2>1 DEF Normalise, AfterEnsure, IndInv, TypeOK
    <2>4. held'[t] = row /\ plan' = row /\ pc'[t] # "idle" /\ advances' = advances
      BY <1>8 DEF Normalise, AfterEnsure, IndInv, TypeOK
    <2> HIDE DEF row
    <2>5. QED
      BY <1>1, <1>8, <2>1, <2>2, <2>3, <2>4, TurnStepIndInv DEF Normalise
  <1>9. ASSUME NEW t \in Turns, Advance(t) PROVE IndInv'
    <2> DEFINE row == Advanced(held[t], total)
    <2>1. row \in Row /\ Sound(row) /\ Fits(row) /\ row.count <= held[t].count + 1
      BY <1>1, <1>2, <1>9, AdvancedFits DEF Advance, Fits
    <2>2. advances' \in 0 .. Cap /\ advances <= advances' /\ row.count <= advances'
      BY <1>1, <1>2, <1>9, <2>1 DEF Advance, AtMost, Row, Fits
    <2>3. TypeOK'
      BY <1>9, <2>1, <2>2 DEF Advance, Write, IndInv, TypeOK
    <2>4. held'[t] = row /\ plan' = row /\ pc'[t] = "turn"
      BY <1>9 DEF Advance, Write, IndInv, TypeOK
    <2> HIDE DEF row
    <2>5. QED
      BY <1>9, <2>1, <2>2, <2>3, <2>4, TurnStepIndInv DEF Advance, Write
  <1>10. ASSUME NEW t \in Turns, NEW target \in Stages, MoveTo(t, target) PROVE IndInv'
    <2> DEFINE row == Moved(held[t], target)
    <2>1. row \in Row /\ Sound(row) /\ row.count <= held[t].count
      BY <1>1, <1>2, MovedFits
    <2>2. Fits(row)
      BY <1>1, <1>2, <2>1, MovedFits DEF Fits, Row
    <2>3. row.count <= advances
      BY <1>1, <1>2, <2>1 DEF Row
    <2>4. TypeOK'
      BY <1>10, <2>1 DEF MoveTo, Write, IndInv, TypeOK
    <2>5. held'[t] = row /\ plan' = row /\ pc'[t] = "turn" /\ advances' = advances
      BY <1>10 DEF MoveTo, Write, IndInv, TypeOK
    <2> HIDE DEF row
    <2>6. QED
      BY <1>1, <1>10, <2>1, <2>2, <2>3, <2>4, <2>5, TurnStepIndInv DEF MoveTo, Write
  <1>11. ASSUME NEW t \in Turns, MoveNowhere(t) PROVE IndInv'
    <2>1. TypeOK'
      BY <1>11 DEF MoveNowhere, planVars, IndInv, TypeOK
    <2>2. pc'[t] = "turn" /\ Fits(held[t])
      BY <1>2, <1>11 DEF MoveNowhere, IndInv, TypeOK
    <2>3. QED
      BY <1>1, <1>2, <1>11, <2>1, <2>2, TurnStepIndInv DEF MoveNowhere, planVars
  <1>12. ASSUME NEW t \in Turns, End(t) PROVE IndInv'
    <2>1. TypeOK'
      BY <1>3, <1>12 DEF End, planVars, IndInv, TypeOK
    <2>2. pc'[t] = "idle" /\ held'[t] = FreshRow
      BY <1>12 DEF End, IndInv, TypeOK
    <2>3. QED
      BY <1>1, <1>3, <1>12, <2>1, <2>2, TurnStepIndInv DEF End, planVars
  <1>13. ASSUME NEW n \in Totals, RebuildTemplate(n) PROVE IndInv'
    <2>1. \A t \in Turns : pc[t] = "idle" /\ held[t] = FreshRow
      BY <1>13 DEF RebuildTemplate, IndInv, IdleHoldsNothing
    <2>2. total' = n /\ n \in Nat \ {0} /\ grew' \in BOOLEAN /\ (grew' <=> grew \/ n > total)
      BY <1>1, <1>13, TotalsAssumption DEF RebuildTemplate
    <2>3. TypeOK'
      BY <1>13, <2>2 DEF RebuildTemplate, turnVars, IndInv, TypeOK
    <2>4. RowsSound'
      <3>1. plan.index \in Nat /\ plan.count \in Nat
        BY <1>1 DEF Row
      <3>2. Sound(plan)'
        BY <1>1, <1>13, <2>2, <3>1 DEF RebuildTemplate, Sound
      <3>3. ASSUME NEW t \in Turns PROVE Sound(held[t])'
        BY <1>3, <1>13, <2>1 DEF RebuildTemplate, turnVars, Sound, FreshRow
      <3>4. QED
        BY <3>2, <3>3 DEF RowsSound
    <2>5. IdleHoldsNothing' /\ ContextInPlan'
      BY <1>13, <2>1 DEF RebuildTemplate, turnVars, IdleHoldsNothing, ContextInPlan, HasContext
    <2>6. ProgressIsEarned'
      BY <1>13 DEF RebuildTemplate, turnVars, IndInv, ProgressIsEarned
    <2>7. QED
      BY <2>3, <2>4, <2>5, <2>6 DEF IndInv
  <1>14. QED
    BY <1>4, <1>5, <1>6, <1>7, <1>8, <1>9, <1>10, <1>11, <1>12, <1>13 DEF Next, TurnStep

\* The strengthened invariant holds in every reachable state.
THEOREM Invariance == Spec => []IndInv
  BY InitIndInv, NextIndInv, PTL DEF Spec

\* Every row, program counter and counter holds a value the code can give it.
THEOREM TypeCorrect == Spec => []TypeOK
  BY Invariance, PTL DEF IndInv

\* The row a turn answers with and computes the next one from always lies
\* within the plan.
THEOREM ContextAlwaysInPlan == Spec => []ContextInPlan
  BY Invariance, PTL DEF IndInv

\* Sections are counted only up to the current one, whatever turns overlap.
THEOREM CountAlwaysFollows == Spec => []CountFollowsPosition
  <1>1. IndInv => CountFollowsPosition
    BY DEF IndInv, RowsSound, Sound, CountFollowsPosition
  <1>2. QED
    BY <1>1, Invariance, PTL

\* No interleaving of turns counts a section that no turn has finished.
THEOREM ProgressAlwaysEarned == Spec => []ProgressIsEarned
  BY Invariance, PTL DEF IndInv
=============================================================================
