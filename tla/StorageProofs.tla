--------------------------- MODULE StorageProofs ---------------------------
(***************************************************************************)
(* What a successful group delete means, which error an unsuccessful one   *)
(* reports, that moves and uploads lose nothing, and the types of both,    *)
(* for any number of calls, objects, slots and pages. The argument about   *)
(* group deletes follows an object a call owes: as long as it is in the    *)
(* bucket and the group has no error, it is still to be listed, waits to   *)
(* be handed over, or has a goroutine that has not sent its request yet or *)
(* whose request is on its way.  And that a call returns: it keeps to its  *)
(* slots, never waits for somebody who cannot go on, and never goes back.  *)
(***************************************************************************)
EXTENDS MCStorage, FiniteSetTheorems, WellFoundedInduction, TLAPS

Errors == {"nil", "delete", "canceled", "missing", "list"}

Shape ==
    /\ TypeOK
    /\ gerr \in [Calls -> Errors]
    /\ result \in [Calls -> Errors]

(* Before a call there is nothing of it, after it none of its goroutines.  *)
Quiet ==
    \A k \in Calls :
        /\ pc[k] = "idle" => ~eof[k] /\ cursor[k] = 0 /\ gerr[k] = "nil"
        /\ pc[k] \in {"idle", "returned"} => \A n \in Names : del[k][n] = "none"

(* What the caller's goroutine knows where it is. *)
Handed ==
    \A k \in Calls :
        /\ pc[k] \in {"idle", "loop", "waiting"} => lerr[k] = "nil"
        /\ pc[k] = "failing" => lerr[k] # "nil"
        /\ pc[k] = "waiting" => queue[k] = {} /\ eof[k]
        /\ Succeeded(k) => gerr[k] = "nil" /\ queue[k] = {} /\ eof[k]

(* Where the objects a call owes still are. *)
OnTheirWay(k) ==
    queue[k] \cup {n \in Names : ~eof[k] /\ cursor[k] < n}
             \cup {n \in Names : del[k][n] \in {"unsent", "sent"}}

OwedAreOnTheirWay ==
    \A k \in Calls :
        pc[k] # "idle" /\ gerr[k] = "nil" => owed[k] \cap objects \subseteq OnTheirWay(k)

(* Only a group with an error has given a request up. *)
GivenUpWithError ==
    \A k \in Calls, n \in Names : <<k, n>> \in late => gerr[k] # "nil"

(* "canceled" has a cause: another error of the group or the caller. *)
CausesKept ==
    \A k \in Calls :
        /\ gerr[k] = "canceled" => k \in parent
        /\ lerr[k] = "canceled" => gerr[k] # "nil" \/ k \in parent

IInv ==
    /\ Shape
    /\ Quiet
    /\ Handed
    /\ OwedAreOnTheirWay
    /\ GivenUpWithError
    /\ CausesKept
    /\ OriginalError

----------------------------------------------------------------------------
(* The cursor never passes an object that is not on the page.              *)
LEMMA PageIsFirst ==
    ASSUME TypeOK, NEW k \in Calls, NEW m \in Page(k), NEW n \in Ahead(k) \ Page(k)
    PROVE  m < n
<1> DEFINE Below(x) == {y \in Ahead(k) : y < x}
<1>1. Ahead(k) \subseteq Names /\ IsFiniteSet(Ahead(k)) /\ m \in Ahead(k)
    BY GroupDeleteAssumption, FS_Subset DEF TypeOK, Ahead, Page
<1>2. m \in Nat /\ n \in Nat
    BY <1>1, GroupDeleteAssumption
<1>3. Cardinality(Below(m)) < PageSize /\ ~(Cardinality(Below(n)) < PageSize)
    BY DEF Page
<1>4. IsFiniteSet(Below(m)) /\ IsFiniteSet(Below(n))
    BY <1>1, FS_Subset
<1>5. ASSUME ~(m < n)
      PROVE  FALSE
    <2>1. Below(n) \subseteq Below(m)
        <3> SUFFICES ASSUME NEW y \in Below(n) PROVE y \in Below(m)
            OBVIOUS
        <3>1. y \in Ahead(k) /\ y \in Nat /\ y < n
            BY <1>1, GroupDeleteAssumption
        <3>2. y < m
            BY <3>1, <1>2, <1>5
        <3> QED
            BY <3>1, <3>2
    <2>2. Cardinality(Below(n)) <= Cardinality(Below(m))
        BY <2>1, <1>4, FS_Subset
    <2>3. Cardinality(Below(n)) \in Nat /\ Cardinality(Below(m)) \in Nat
        BY <1>4, FS_CardinalityType
    <2> QED
        BY <2>2, <2>3, <1>3, GroupDeleteAssumption
<1> QED
    BY <1>5

LEMMA ErrorsOfCalls ==
    \A k \in Calls : DeleteErrors(k) \subseteq Errors
BY DEF DeleteErrors, Errors

LEMMA InitIInv == Init => IInv
<1> SUFFICES ASSUME Init PROVE IInv
    OBVIOUS
<1>1. Shape
    BY GroupDeleteAssumption DEF Init, Shape, TypeOK, Errors, DeleteErrors
<1>2. Quiet /\ Handed
    BY DEF Init, Quiet, Handed, Succeeded
<1>3. OwedAreOnTheirWay /\ GivenUpWithError /\ CausesKept /\ OriginalError
    BY DEF Init, OwedAreOnTheirWay, GivenUpWithError, CausesKept, OriginalError
<1> QED
    BY <1>1, <1>2, <1>3 DEF IInv
LEMMA ShapeStep == Shape /\ [Next]_vars => Shape'
<1> SUFFICES ASSUME Shape, [Next]_vars PROVE Shape'
    OBVIOUS
<1> USE DEF Shape, TypeOK, callVars, Calls, Errors, DeleteErrors, Live, Forgiven
<1>1. ASSUME NEW k \in Calls, Call(k)
      PROVE  Shape'
    BY <1>1, GroupDeleteAssumption, ErrorsOfCalls DEF Call
<1>2. ASSUME NEW k \in Calls, FetchPage(k)
      PROVE  Shape'
    <2>1. Page(k) \subseteq Names
        BY GroupDeleteAssumption DEF Page, Ahead
    <2> QED
        BY <1>2, <2>1 DEF FetchPage
<1>3. ASSUME NEW k \in Calls, FetchFails(k)
      PROVE  Shape'
    BY <1>3, GroupDeleteAssumption, ErrorsOfCalls DEF FetchFails
<1>4. ASSUME NEW k \in Calls, NEW n \in Names, Spawn(k, n)
      PROVE  Shape'
    BY <1>4, GroupDeleteAssumption, ErrorsOfCalls DEF Spawn
<1>5. ASSUME NEW k \in Calls, LoopEnds(k)
      PROVE  Shape'
    BY <1>5, GroupDeleteAssumption, ErrorsOfCalls DEF LoopEnds
<1>6. ASSUME NEW k \in Calls, Return(k)
      PROVE  Shape'
    BY <1>6, GroupDeleteAssumption, ErrorsOfCalls DEF Return
<1>7. ASSUME NEW k \in Calls, ParentCancel(k)
      PROVE  Shape'
    BY <1>7, GroupDeleteAssumption, ErrorsOfCalls DEF ParentCancel
<1>8. ASSUME NEW k \in Calls, NEW n \in Names, Serve(k, n)
      PROVE  Shape'
    BY <1>8, GroupDeleteAssumption, ErrorsOfCalls DEF Serve
<1>9. ASSUME NEW k \in Calls, NEW n \in Names, DeleteReturns(k, n)
      PROVE  Shape'
    BY <1>9, GroupDeleteAssumption, ErrorsOfCalls DEF DeleteReturns, Finish
<1>10. ASSUME NEW k \in Calls, NEW n \in Names, DeleteFails(k, n)
      PROVE  Shape'
    BY <1>10, GroupDeleteAssumption, ErrorsOfCalls DEF DeleteFails, GiveUp, Finish
<1>11. ASSUME NEW k \in Calls, NEW n \in Names, DeleteCanceled(k, n)
      PROVE  Shape'
    BY <1>11, GroupDeleteAssumption, ErrorsOfCalls DEF DeleteCanceled, GiveUp, Finish
<1>12. ASSUME NEW k \in Calls, NEW n \in Names, LateServe(k, n)
      PROVE  Shape'
    BY <1>12, GroupDeleteAssumption, ErrorsOfCalls DEF LateServe
<1>13. ASSUME NEW n \in Foreign, Upload(n)
      PROVE  Shape'
    BY <1>13, GroupDeleteAssumption, ErrorsOfCalls DEF Upload
<1>14. ASSUME NEW n \in Foreign, Remove(n)
      PROVE  Shape'
    BY <1>14, GroupDeleteAssumption, ErrorsOfCalls DEF Remove
<1>15. CASE UNCHANGED vars
    BY <1>15, GroupDeleteAssumption, ErrorsOfCalls DEF vars
<1> QED
    BY <1>1, <1>2, <1>3, <1>4, <1>5, <1>6, <1>7,
       <1>8, <1>9, <1>10, <1>11, <1>12, <1>13, <1>14, <1>15
    DEF Next, CallStep, DeleteStep

LEMMA QuietStep == Shape /\ Quiet /\ [Next]_vars => Quiet'
<1> SUFFICES ASSUME Shape /\ Quiet, [Next]_vars PROVE Quiet'
    OBVIOUS
<1> USE DEF Shape, TypeOK, callVars, Quiet, Active, Live, Forgiven
<1>1. ASSUME NEW k \in Calls, Call(k)
      PROVE  Quiet'
    BY <1>1, GroupDeleteAssumption DEF Call
<1>2. ASSUME NEW k \in Calls, FetchPage(k)
      PROVE  Quiet'
    BY <1>2, GroupDeleteAssumption DEF FetchPage
<1>3. ASSUME NEW k \in Calls, FetchFails(k)
      PROVE  Quiet'
    BY <1>3, GroupDeleteAssumption DEF FetchFails
<1>4. ASSUME NEW k \in Calls, NEW n \in Names, Spawn(k, n)
      PROVE  Quiet'
    BY <1>4, GroupDeleteAssumption DEF Spawn
<1>5. ASSUME NEW k \in Calls, LoopEnds(k)
      PROVE  Quiet'
    BY <1>5, GroupDeleteAssumption DEF LoopEnds
<1>6. ASSUME NEW k \in Calls, Return(k)
      PROVE  Quiet'
    BY <1>6, GroupDeleteAssumption DEF Return
<1>7. ASSUME NEW k \in Calls, ParentCancel(k)
      PROVE  Quiet'
    BY <1>7, GroupDeleteAssumption DEF ParentCancel
<1>8. ASSUME NEW k \in Calls, NEW n \in Names, Serve(k, n)
      PROVE  Quiet'
    BY <1>8, GroupDeleteAssumption DEF Serve
<1>9. ASSUME NEW k \in Calls, NEW n \in Names, DeleteReturns(k, n)
      PROVE  Quiet'
    BY <1>9, GroupDeleteAssumption DEF DeleteReturns, Finish
<1>10. ASSUME NEW k \in Calls, NEW n \in Names, DeleteFails(k, n)
      PROVE  Quiet'
    BY <1>10, GroupDeleteAssumption DEF DeleteFails, GiveUp, Finish
<1>11. ASSUME NEW k \in Calls, NEW n \in Names, DeleteCanceled(k, n)
      PROVE  Quiet'
    BY <1>11, GroupDeleteAssumption DEF DeleteCanceled, GiveUp, Finish
<1>12. ASSUME NEW k \in Calls, NEW n \in Names, LateServe(k, n)
      PROVE  Quiet'
    BY <1>12, GroupDeleteAssumption DEF LateServe
<1>13. ASSUME NEW n \in Foreign, Upload(n)
      PROVE  Quiet'
    BY <1>13, GroupDeleteAssumption DEF Upload
<1>14. ASSUME NEW n \in Foreign, Remove(n)
      PROVE  Quiet'
    BY <1>14, GroupDeleteAssumption DEF Remove
<1>15. CASE UNCHANGED vars
    BY <1>15, GroupDeleteAssumption DEF vars
<1> QED
    BY <1>1, <1>2, <1>3, <1>4, <1>5, <1>6, <1>7,
       <1>8, <1>9, <1>10, <1>11, <1>12, <1>13, <1>14, <1>15
    DEF Next, CallStep, DeleteStep

LEMMA HandedStep == Shape /\ Quiet /\ Handed /\ [Next]_vars => Handed'
<1> SUFFICES ASSUME Shape /\ Quiet /\ Handed, [Next]_vars PROVE Handed'
    OBVIOUS
<1> USE DEF Shape, TypeOK, callVars, Handed, Quiet, Succeeded, Live, Forgiven
<1>1. ASSUME NEW k \in Calls, Call(k)
      PROVE  Handed'
    BY <1>1, GroupDeleteAssumption DEF Call
<1>2. ASSUME NEW k \in Calls, FetchPage(k)
      PROVE  Handed'
    BY <1>2, GroupDeleteAssumption DEF FetchPage
<1>3. ASSUME NEW k \in Calls, FetchFails(k)
      PROVE  Handed'
    BY <1>3, GroupDeleteAssumption DEF FetchFails
<1>4. ASSUME NEW k \in Calls, NEW n \in Names, Spawn(k, n)
      PROVE  Handed'
    BY <1>4, GroupDeleteAssumption DEF Spawn
<1>5. ASSUME NEW k \in Calls, LoopEnds(k)
      PROVE  Handed'
    BY <1>5, GroupDeleteAssumption DEF LoopEnds
<1>6. ASSUME NEW k \in Calls, Return(k)
      PROVE  Handed'
    BY <1>6, GroupDeleteAssumption DEF Return
<1>7. ASSUME NEW k \in Calls, ParentCancel(k)
      PROVE  Handed'
    BY <1>7, GroupDeleteAssumption DEF ParentCancel
<1>8. ASSUME NEW k \in Calls, NEW n \in Names, Serve(k, n)
      PROVE  Handed'
    BY <1>8, GroupDeleteAssumption DEF Serve
<1>9. ASSUME NEW k \in Calls, NEW n \in Names, DeleteReturns(k, n)
      PROVE  Handed'
    BY <1>9, GroupDeleteAssumption DEF DeleteReturns, Finish
<1>10. ASSUME NEW k \in Calls, NEW n \in Names, DeleteFails(k, n)
      PROVE  Handed'
    BY <1>10, GroupDeleteAssumption DEF DeleteFails, GiveUp, Finish
<1>11. ASSUME NEW k \in Calls, NEW n \in Names, DeleteCanceled(k, n)
      PROVE  Handed'
    BY <1>11, GroupDeleteAssumption DEF DeleteCanceled, GiveUp, Finish
<1>12. ASSUME NEW k \in Calls, NEW n \in Names, LateServe(k, n)
      PROVE  Handed'
    BY <1>12, GroupDeleteAssumption DEF LateServe
<1>13. ASSUME NEW n \in Foreign, Upload(n)
      PROVE  Handed'
    BY <1>13, GroupDeleteAssumption DEF Upload
<1>14. ASSUME NEW n \in Foreign, Remove(n)
      PROVE  Handed'
    BY <1>14, GroupDeleteAssumption DEF Remove
<1>15. CASE UNCHANGED vars
    BY <1>15, GroupDeleteAssumption DEF vars
<1> QED
    BY <1>1, <1>2, <1>3, <1>4, <1>5, <1>6, <1>7,
       <1>8, <1>9, <1>10, <1>11, <1>12, <1>13, <1>14, <1>15
    DEF Next, CallStep, DeleteStep

LEMMA OwedStep == Shape /\ Quiet /\ OwedAreOnTheirWay /\ [Next]_vars => OwedAreOnTheirWay'
<1> SUFFICES ASSUME Shape /\ Quiet /\ OwedAreOnTheirWay, [Next]_vars PROVE OwedAreOnTheirWay'
    OBVIOUS
<1> USE DEF Shape, TypeOK, callVars, OwedAreOnTheirWay, OnTheirWay, Quiet, Live, Forgiven, Calls
<1>1. ASSUME NEW k \in Calls, Call(k)
      PROVE  OwedAreOnTheirWay'
    <2>1. OwedAreOnTheirWay!(k)'
        <3>1. CASE k \in BatchCalls
            BY <1>1, <3>1 DEF Call
        <3>2. CASE k \notin BatchCalls
            <4>1. \A n \in Names : cursor'[k] < n /\ ~eof'[k]
                BY <1>1, <3>2, GroupDeleteAssumption DEF Call
            <4> QED
                BY <1>1, <3>2, <4>1 DEF Call
        <3> QED
            BY <3>1, <3>2
    <2>2. ASSUME NEW j \in Calls, j # k
          PROVE  OwedAreOnTheirWay!(j)'
        BY <1>1, <2>2 DEF Call
    <2> QED
        BY <2>1, <2>2
<1>2. ASSUME NEW k \in Calls, FetchPage(k)
      PROVE  OwedAreOnTheirWay'
    <2>1. OwedAreOnTheirWay!(k)'
        <3> SUFFICES ASSUME gerr[k] = "nil", NEW n \in owed[k], n \in objects
                     PROVE  n \in OnTheirWay(k)'
            BY <1>2 DEF FetchPage
        <3>1. n \in Names /\ n \notin queue[k]
            BY <1>2 DEF FetchPage
        <3>2. CASE del[k][n] \in {"unsent", "sent"}
            BY <1>2, <3>1, <3>2 DEF FetchPage
        <3>3. CASE n \in Page(k)
            BY <1>2, <3>1, <3>3 DEF FetchPage
        <3>4. CASE n \in Ahead(k) \ Page(k)
            <4>1. \A m \in Page(k) : m < n
                BY <3>4, PageIsFirst
            <4>2. ~eof'[k]
                BY <1>2, <3>4 DEF FetchPage
            <4>3. cursor[k] < n
                BY <3>4 DEF Ahead
            <4>4. cursor'[k] \in Page(k) \cup {cursor[k]}
                BY <1>2 DEF FetchPage
            <4> QED
                BY <3>1, <4>1, <4>2, <4>3, <4>4
        <3> QED
            BY <1>2, <3>1, <3>2, <3>3, <3>4 DEF FetchPage, Ahead
    <2>2. ASSUME NEW j \in Calls, j # k
          PROVE  OwedAreOnTheirWay!(j)'
        BY <1>2, <2>2 DEF FetchPage
    <2> QED
        BY <2>1, <2>2
<1>3. ASSUME NEW k \in Calls, FetchFails(k)
      PROVE  OwedAreOnTheirWay'
    BY <1>3, GroupDeleteAssumption DEF FetchFails
<1>4. ASSUME NEW k \in Calls, NEW n \in Names, Spawn(k, n)
      PROVE  OwedAreOnTheirWay'
    BY <1>4, GroupDeleteAssumption DEF Spawn
<1>5. ASSUME NEW k \in Calls, LoopEnds(k)
      PROVE  OwedAreOnTheirWay'
    BY <1>5, GroupDeleteAssumption DEF LoopEnds
<1>6. ASSUME NEW k \in Calls, Return(k)
      PROVE  OwedAreOnTheirWay'
    BY <1>6, GroupDeleteAssumption DEF Return
<1>7. ASSUME NEW k \in Calls, ParentCancel(k)
      PROVE  OwedAreOnTheirWay'
    BY <1>7, GroupDeleteAssumption DEF ParentCancel
<1>8. ASSUME NEW k \in Calls, NEW n \in Names, Serve(k, n)
      PROVE  OwedAreOnTheirWay'
    BY <1>8, GroupDeleteAssumption DEF Serve
<1>9. ASSUME NEW k \in Calls, NEW n \in Names, DeleteReturns(k, n)
      PROVE  OwedAreOnTheirWay'
    BY <1>9, GroupDeleteAssumption DEF DeleteReturns, Finish
<1>10. ASSUME NEW k \in Calls, NEW n \in Names, DeleteFails(k, n)
      PROVE  OwedAreOnTheirWay'
    BY <1>10, GroupDeleteAssumption DEF DeleteFails, GiveUp, Finish
<1>11. ASSUME NEW k \in Calls, NEW n \in Names, DeleteCanceled(k, n)
      PROVE  OwedAreOnTheirWay'
    BY <1>11, GroupDeleteAssumption DEF DeleteCanceled, GiveUp, Finish
<1>12. ASSUME NEW k \in Calls, NEW n \in Names, LateServe(k, n)
      PROVE  OwedAreOnTheirWay'
    BY <1>12, GroupDeleteAssumption DEF LateServe
<1>13. ASSUME NEW n \in Foreign, Upload(n)
      PROVE  OwedAreOnTheirWay'
    BY <1>13, GroupDeleteAssumption DEF Upload
<1>14. ASSUME NEW n \in Foreign, Remove(n)
      PROVE  OwedAreOnTheirWay'
    BY <1>14, GroupDeleteAssumption DEF Remove
<1>15. CASE UNCHANGED vars
    BY <1>15, GroupDeleteAssumption DEF vars
<1> QED
    BY <1>1, <1>2, <1>3, <1>4, <1>5, <1>6, <1>7,
       <1>8, <1>9, <1>10, <1>11, <1>12, <1>13, <1>14, <1>15
    DEF Next, CallStep, DeleteStep

LEMMA GivenUpStep == Shape /\ GivenUpWithError /\ [Next]_vars => GivenUpWithError'
<1> SUFFICES ASSUME Shape /\ GivenUpWithError, [Next]_vars PROVE GivenUpWithError'
    OBVIOUS
<1> USE DEF Shape, TypeOK, callVars, GivenUpWithError, Live, Forgiven
<1>1. ASSUME NEW k \in Calls, Call(k)
      PROVE  GivenUpWithError'
    BY <1>1, GroupDeleteAssumption DEF Call
<1>2. ASSUME NEW k \in Calls, FetchPage(k)
      PROVE  GivenUpWithError'
    BY <1>2, GroupDeleteAssumption DEF FetchPage
<1>3. ASSUME NEW k \in Calls, FetchFails(k)
      PROVE  GivenUpWithError'
    BY <1>3, GroupDeleteAssumption DEF FetchFails
<1>4. ASSUME NEW k \in Calls, NEW n \in Names, Spawn(k, n)
      PROVE  GivenUpWithError'
    BY <1>4, GroupDeleteAssumption DEF Spawn
<1>5. ASSUME NEW k \in Calls, LoopEnds(k)
      PROVE  GivenUpWithError'
    BY <1>5, GroupDeleteAssumption DEF LoopEnds
<1>6. ASSUME NEW k \in Calls, Return(k)
      PROVE  GivenUpWithError'
    BY <1>6, GroupDeleteAssumption DEF Return
<1>7. ASSUME NEW k \in Calls, ParentCancel(k)
      PROVE  GivenUpWithError'
    BY <1>7, GroupDeleteAssumption DEF ParentCancel
<1>8. ASSUME NEW k \in Calls, NEW n \in Names, Serve(k, n)
      PROVE  GivenUpWithError'
    BY <1>8, GroupDeleteAssumption DEF Serve
<1>9. ASSUME NEW k \in Calls, NEW n \in Names, DeleteReturns(k, n)
      PROVE  GivenUpWithError'
    BY <1>9, GroupDeleteAssumption DEF DeleteReturns, Finish
<1>10. ASSUME NEW k \in Calls, NEW n \in Names, DeleteFails(k, n)
      PROVE  GivenUpWithError'
    BY <1>10, GroupDeleteAssumption DEF DeleteFails, GiveUp, Finish
<1>11. ASSUME NEW k \in Calls, NEW n \in Names, DeleteCanceled(k, n)
      PROVE  GivenUpWithError'
    BY <1>11, GroupDeleteAssumption DEF DeleteCanceled, GiveUp, Finish
<1>12. ASSUME NEW k \in Calls, NEW n \in Names, LateServe(k, n)
      PROVE  GivenUpWithError'
    BY <1>12, GroupDeleteAssumption DEF LateServe
<1>13. ASSUME NEW n \in Foreign, Upload(n)
      PROVE  GivenUpWithError'
    BY <1>13, GroupDeleteAssumption DEF Upload
<1>14. ASSUME NEW n \in Foreign, Remove(n)
      PROVE  GivenUpWithError'
    BY <1>14, GroupDeleteAssumption DEF Remove
<1>15. CASE UNCHANGED vars
    BY <1>15, GroupDeleteAssumption DEF vars
<1> QED
    BY <1>1, <1>2, <1>3, <1>4, <1>5, <1>6, <1>7,
       <1>8, <1>9, <1>10, <1>11, <1>12, <1>13, <1>14, <1>15
    DEF Next, CallStep, DeleteStep

LEMMA CausesStep == Shape /\ CausesKept /\ [Next]_vars => CausesKept'
<1> SUFFICES ASSUME Shape /\ CausesKept, [Next]_vars PROVE CausesKept'
    OBVIOUS
<1> USE DEF Shape, TypeOK, callVars, CausesKept, Live, Forgiven
<1>1. ASSUME NEW k \in Calls, Call(k)
      PROVE  CausesKept'
    BY <1>1, GroupDeleteAssumption DEF Call
<1>2. ASSUME NEW k \in Calls, FetchPage(k)
      PROVE  CausesKept'
    BY <1>2, GroupDeleteAssumption DEF FetchPage
<1>3. ASSUME NEW k \in Calls, FetchFails(k)
      PROVE  CausesKept'
    BY <1>3, GroupDeleteAssumption DEF FetchFails
<1>4. ASSUME NEW k \in Calls, NEW n \in Names, Spawn(k, n)
      PROVE  CausesKept'
    BY <1>4, GroupDeleteAssumption DEF Spawn
<1>5. ASSUME NEW k \in Calls, LoopEnds(k)
      PROVE  CausesKept'
    BY <1>5, GroupDeleteAssumption DEF LoopEnds
<1>6. ASSUME NEW k \in Calls, Return(k)
      PROVE  CausesKept'
    BY <1>6, GroupDeleteAssumption DEF Return
<1>7. ASSUME NEW k \in Calls, ParentCancel(k)
      PROVE  CausesKept'
    BY <1>7, GroupDeleteAssumption DEF ParentCancel
<1>8. ASSUME NEW k \in Calls, NEW n \in Names, Serve(k, n)
      PROVE  CausesKept'
    BY <1>8, GroupDeleteAssumption DEF Serve
<1>9. ASSUME NEW k \in Calls, NEW n \in Names, DeleteReturns(k, n)
      PROVE  CausesKept'
    BY <1>9, GroupDeleteAssumption DEF DeleteReturns, Finish
<1>10. ASSUME NEW k \in Calls, NEW n \in Names, DeleteFails(k, n)
      PROVE  CausesKept'
    BY <1>10, GroupDeleteAssumption DEF DeleteFails, GiveUp, Finish
<1>11. ASSUME NEW k \in Calls, NEW n \in Names, DeleteCanceled(k, n)
      PROVE  CausesKept'
    BY <1>11, GroupDeleteAssumption DEF DeleteCanceled, GiveUp, Finish
<1>12. ASSUME NEW k \in Calls, NEW n \in Names, LateServe(k, n)
      PROVE  CausesKept'
    BY <1>12, GroupDeleteAssumption DEF LateServe
<1>13. ASSUME NEW n \in Foreign, Upload(n)
      PROVE  CausesKept'
    BY <1>13, GroupDeleteAssumption DEF Upload
<1>14. ASSUME NEW n \in Foreign, Remove(n)
      PROVE  CausesKept'
    BY <1>14, GroupDeleteAssumption DEF Remove
<1>15. CASE UNCHANGED vars
    BY <1>15, GroupDeleteAssumption DEF vars
<1> QED
    BY <1>1, <1>2, <1>3, <1>4, <1>5, <1>6, <1>7,
       <1>8, <1>9, <1>10, <1>11, <1>12, <1>13, <1>14, <1>15
    DEF Next, CallStep, DeleteStep

LEMMA OriginalStep == Shape /\ CausesKept /\ OriginalError /\ [Next]_vars => OriginalError'
<1> SUFFICES ASSUME Shape /\ CausesKept /\ OriginalError, [Next]_vars PROVE OriginalError'
    OBVIOUS
<1> USE DEF Shape, TypeOK, callVars, CausesKept, OriginalError
<1>1. ASSUME NEW k \in Calls, Call(k)
      PROVE  OriginalError'
    BY <1>1, GroupDeleteAssumption DEF Call
<1>2. ASSUME NEW k \in Calls, FetchPage(k)
      PROVE  OriginalError'
    BY <1>2, GroupDeleteAssumption DEF FetchPage
<1>3. ASSUME NEW k \in Calls, FetchFails(k)
      PROVE  OriginalError'
    BY <1>3, GroupDeleteAssumption DEF FetchFails
<1>4. ASSUME NEW k \in Calls, NEW n \in Names, Spawn(k, n)
      PROVE  OriginalError'
    BY <1>4, GroupDeleteAssumption DEF Spawn
<1>5. ASSUME NEW k \in Calls, LoopEnds(k)
      PROVE  OriginalError'
    BY <1>5, GroupDeleteAssumption DEF LoopEnds
<1>6. ASSUME NEW k \in Calls, Return(k)
      PROVE  OriginalError'
    BY <1>6, GroupDeleteAssumption DEF Return
<1>7. ASSUME NEW k \in Calls, ParentCancel(k)
      PROVE  OriginalError'
    BY <1>7, GroupDeleteAssumption DEF ParentCancel
<1>8. ASSUME NEW k \in Calls, NEW n \in Names, Serve(k, n)
      PROVE  OriginalError'
    BY <1>8, GroupDeleteAssumption DEF Serve
<1>9. ASSUME NEW k \in Calls, NEW n \in Names, DeleteReturns(k, n)
      PROVE  OriginalError'
    BY <1>9, GroupDeleteAssumption DEF DeleteReturns, Finish
<1>10. ASSUME NEW k \in Calls, NEW n \in Names, DeleteFails(k, n)
      PROVE  OriginalError'
    BY <1>10, GroupDeleteAssumption DEF DeleteFails, GiveUp, Finish
<1>11. ASSUME NEW k \in Calls, NEW n \in Names, DeleteCanceled(k, n)
      PROVE  OriginalError'
    BY <1>11, GroupDeleteAssumption DEF DeleteCanceled, GiveUp, Finish
<1>12. ASSUME NEW k \in Calls, NEW n \in Names, LateServe(k, n)
      PROVE  OriginalError'
    BY <1>12, GroupDeleteAssumption DEF LateServe
<1>13. ASSUME NEW n \in Foreign, Upload(n)
      PROVE  OriginalError'
    BY <1>13, GroupDeleteAssumption DEF Upload
<1>14. ASSUME NEW n \in Foreign, Remove(n)
      PROVE  OriginalError'
    BY <1>14, GroupDeleteAssumption DEF Remove
<1>15. CASE UNCHANGED vars
    BY <1>15, GroupDeleteAssumption DEF vars
<1> QED
    BY <1>1, <1>2, <1>3, <1>4, <1>5, <1>6, <1>7,
       <1>8, <1>9, <1>10, <1>11, <1>12, <1>13, <1>14, <1>15
    DEF Next, CallStep, DeleteStep

----------------------------------------------------------------------------
THEOREM Invariance == Spec => []IInv
<1>1. IInv /\ [Next]_vars => IInv'
    BY ShapeStep, QuietStep, HandedStep, OwedStep, GivenUpStep, CausesStep,
       OriginalStep DEF IInv
<1> QED
    BY <1>1, InitIInv, PTL DEF Spec

(* The type invariant of the group deletes.                                *)
THEOREM TypeCorrect == Spec => []TypeOK
BY Invariance, PTL DEF IInv, Shape

(* A DeleteFolder or DeleteBatch that returns nil has removed every object *)
(* it owes, whatever other clients did between two pages of the listing.   *)
THEOREM SuccessIsComplete == Spec => []SuccessDeletesAll
<1>1. IInv => SuccessDeletesAll
    BY DEF IInv, Quiet, Handed, Succeeded, OwedAreOnTheirWay, OnTheirWay,
           SuccessDeletesAll
<1> QED
    BY <1>1, Invariance, PTL

(* A call that has returned has no goroutine left, and after a success no  *)
(* request of it is still on its way.                                      *)
THEOREM NothingLags == Spec => []NoStraggler
<1>1. IInv => NoStraggler
    BY DEF IInv, Quiet, Handed, Succeeded, GivenUpWithError, NoStraggler, Active
<1> QED
    BY <1>1, Invariance, PTL

(* "context canceled" is returned only to a caller that has cancelled, as  *)
(* the comment at lines 121-122 of gcs.go demands.                         *)
THEOREM ErrorsAreOriginal == Spec => []OriginalError
BY Invariance, PTL DEF IInv

----------------------------------------------------------------------------
(* What the caller's goroutine and the deletes do while a call lasts.      *)

(* At most deleteConcurrency deletes run at a time (eg.SetLimit).          *)
SlotsKept == \A k \in Calls : Cardinality(Active(k)) <= Limit

(* A delete sends nothing only under a dead context, which stays dead.     *)
UnsentIsDead ==
    \A k \in Calls, n \in Names : del[k][n] = "unsent" => ~Live(k)

(* What is handed over is behind the cursor, and waits no more.            *)
HandedOnce ==
    \A k \in Calls, n \in Names :
        /\ n \in queue[k] \/ del[k][n] # "none" => eof[k] \/ n <= cursor[k]
        /\ n \in queue[k] => del[k][n] = "none"

Paced == UnsentIsDead /\ HandedOnce /\ SlotsKept

LEMMA UnsentStep == Shape /\ UnsentIsDead /\ [Next]_vars => UnsentIsDead'
<1> SUFFICES ASSUME Shape, UnsentIsDead, [Next]_vars PROVE UnsentIsDead'
    OBVIOUS
<1> USE DEF Shape, TypeOK, callVars, UnsentIsDead, Live, Forgiven
<1>1. ASSUME NEW k \in Calls, Call(k)
      PROVE  UnsentIsDead'
    BY <1>1 DEF Call
<1>2. ASSUME NEW k \in Calls, FetchPage(k)
      PROVE  UnsentIsDead'
    BY <1>2 DEF FetchPage
<1>3. ASSUME NEW k \in Calls, FetchFails(k)
      PROVE  UnsentIsDead'
    BY <1>3 DEF FetchFails
<1>4. ASSUME NEW k \in Calls, NEW n \in Names, Spawn(k, n)
      PROVE  UnsentIsDead'
    BY <1>4 DEF Spawn
<1>5. ASSUME NEW k \in Calls, LoopEnds(k)
      PROVE  UnsentIsDead'
    BY <1>5 DEF LoopEnds
<1>6. ASSUME NEW k \in Calls, Return(k)
      PROVE  UnsentIsDead'
    BY <1>6 DEF Return
<1>7. ASSUME NEW k \in Calls, ParentCancel(k)
      PROVE  UnsentIsDead'
    BY <1>7 DEF ParentCancel
<1>8. ASSUME NEW k \in Calls, NEW n \in Names, Serve(k, n)
      PROVE  UnsentIsDead'
    BY <1>8 DEF Serve
<1>9. ASSUME NEW k \in Calls, NEW n \in Names, DeleteReturns(k, n)
      PROVE  UnsentIsDead'
    BY <1>9 DEF DeleteReturns, Finish
<1>10. ASSUME NEW k \in Calls, NEW n \in Names, DeleteFails(k, n)
      PROVE  UnsentIsDead'
    BY <1>10 DEF DeleteFails, Finish
<1>11. ASSUME NEW k \in Calls, NEW n \in Names, DeleteCanceled(k, n)
      PROVE  UnsentIsDead'
    BY <1>11 DEF DeleteCanceled, Finish
<1>12. ASSUME NEW k \in Calls, NEW n \in Names, LateServe(k, n)
      PROVE  UnsentIsDead'
    BY <1>12 DEF LateServe
<1>13. ASSUME NEW n \in Foreign, Upload(n)
      PROVE  UnsentIsDead'
    BY <1>13 DEF Upload
<1>14. ASSUME NEW n \in Foreign, Remove(n)
      PROVE  UnsentIsDead'
    BY <1>14 DEF Remove
<1>15. CASE UNCHANGED vars
    BY <1>15 DEF vars
<1> QED
    BY <1>1, <1>2, <1>3, <1>4, <1>5, <1>6, <1>7,
       <1>8, <1>9, <1>10, <1>11, <1>12, <1>13, <1>14, <1>15
    DEF Next, CallStep, DeleteStep

LEMMA CursorIsNatural ==
    ASSUME TypeOK, NEW k \in Calls
    PROVE  cursor[k] \in Nat
<1>1. cursor[k] \in Names \/ cursor[k] = 0
    BY DEF TypeOK
<1>2. \A n \in Names : n \in Nat
    BY GroupDeleteAssumption
<1> QED
    BY <1>1, <1>2

LEMMA HandedOnceStep == Shape /\ Quiet /\ HandedOnce /\ [Next]_vars => HandedOnce'
<1> SUFFICES ASSUME Shape, Quiet, HandedOnce, [Next]_vars PROVE HandedOnce'
    OBVIOUS
<1>0. Names \subseteq Nat /\ Paths \subseteq Names
    BY GroupDeleteAssumption
<1> USE <1>0 DEF Shape, TypeOK, callVars, HandedOnce
<1>1. ASSUME NEW k \in Calls, Call(k)
      PROVE  HandedOnce'
    <2>1. \A n \in Names : del[k][n] = "none"
        BY <1>1 DEF Call, Quiet
    <2> QED
        BY <1>1, <2>1 DEF Call
<1>2. ASSUME NEW k \in Calls, FetchPage(k)
      PROVE  HandedOnce'
    <2>1. \A n \in Page(k) : n \in Names /\ cursor[k] < n /\ n <= cursor'[k]
        BY <1>2 DEF FetchPage, Page, Ahead
    <2>2. cursor[k] \in Nat /\ cursor'[k] \in Nat /\ cursor[k] <= cursor'[k]
        <3>1. PICK last \in Page(k) \cup {cursor[k]} :
                 /\ \A n \in Page(k) \cup {cursor[k]} : n <= last
                 /\ cursor' = [cursor EXCEPT ![k] = last]
            BY <1>2 DEF FetchPage
        <3>2. cursor'[k] = last
            BY <3>1
        <3>3. cursor[k] \in Nat
            BY CursorIsNatural
        <3>5. last \in Nat
            <4>1. last \in Page(k) => last \in Nat
                BY <2>1
            <4> QED
                BY <3>1, <3>3, <4>1
        <3>4. cursor[k] <= last
            BY <3>1
        <3> QED
            BY <3>2, <3>3, <3>4, <3>5
    <2>3. /\ ~eof[k] /\ queue[k] = {} /\ queue' = [queue EXCEPT ![k] = Page(k)]
          /\ \A j \in Calls \ {k} : cursor'[j] = cursor[j] /\ eof'[j] = eof[j]
          /\ del' = del
        BY <1>2 DEF FetchPage
    <2>4. \A n \in Names : del[k][n] # "none" => n <= cursor[k]
        BY <2>3
    <2>5. \A n \in Page(k) : del[k][n] = "none"
        <3> SUFFICES ASSUME NEW n \in Page(k), del[k][n] # "none" PROVE FALSE
            OBVIOUS
        <3>1. n \in Names /\ n \in Nat /\ cursor[k] < n
            BY <2>1
        <3>2. n <= cursor[k]
            BY <2>4, <3>1
        <3> QED
            BY <2>2, <3>1, <3>2
    <2>6. \A n \in Names : del[k][n] # "none" => n <= cursor'[k]
        BY <2>2, <2>4
    <2>7. \A j \in Calls, n \in Names : n \in queue'[j] =>
              (eof'[j] \/ n <= cursor'[j]) /\ del'[j][n] = "none"
        BY <2>1, <2>3, <2>5
    <2>8. \A j \in Calls, n \in Names : del'[j][n] # "none" => eof'[j] \/ n <= cursor'[j]
        BY <2>3, <2>6
    <2> QED
        BY <2>7, <2>8
<1>3. ASSUME NEW k \in Calls, FetchFails(k)
      PROVE  HandedOnce'
    BY <1>3 DEF FetchFails
<1>4. ASSUME NEW k \in Calls, NEW n \in Names, Spawn(k, n)
      PROVE  HandedOnce'
    BY <1>4 DEF Spawn
<1>5. ASSUME NEW k \in Calls, LoopEnds(k)
      PROVE  HandedOnce'
    BY <1>5 DEF LoopEnds
<1>6. ASSUME NEW k \in Calls, Return(k)
      PROVE  HandedOnce'
    BY <1>6 DEF Return
<1>7. ASSUME NEW k \in Calls, ParentCancel(k)
      PROVE  HandedOnce'
    BY <1>7 DEF ParentCancel
<1>8. ASSUME NEW k \in Calls, NEW n \in Names, Serve(k, n)
      PROVE  HandedOnce'
    BY <1>8 DEF Serve
<1>9. ASSUME NEW k \in Calls, NEW n \in Names, DeleteReturns(k, n)
      PROVE  HandedOnce'
    BY <1>9 DEF DeleteReturns, Finish
<1>10. ASSUME NEW k \in Calls, NEW n \in Names, DeleteFails(k, n)
      PROVE  HandedOnce'
    BY <1>10 DEF DeleteFails, Finish
<1>11. ASSUME NEW k \in Calls, NEW n \in Names, DeleteCanceled(k, n)
      PROVE  HandedOnce'
    BY <1>11 DEF DeleteCanceled, Finish
<1>12. ASSUME NEW k \in Calls, NEW n \in Names, LateServe(k, n)
      PROVE  HandedOnce'
    BY <1>12 DEF LateServe
<1>13. ASSUME NEW n \in Foreign, Upload(n)
      PROVE  HandedOnce'
    BY <1>13 DEF Upload
<1>14. ASSUME NEW n \in Foreign, Remove(n)
      PROVE  HandedOnce'
    BY <1>14 DEF Remove
<1>15. CASE UNCHANGED vars
    BY <1>15 DEF vars
<1> QED
    BY <1>1, <1>2, <1>3, <1>4, <1>5, <1>6, <1>7,
       <1>8, <1>9, <1>10, <1>11, <1>12, <1>13, <1>14, <1>15
    DEF Next, CallStep, DeleteStep

LEMMA ActiveFinite ==
    \A k \in Calls : IsFiniteSet(Active(k)) /\ Cardinality(Active(k)) \in Nat
<1>1. \A k \in Calls : IsFiniteSet(Active(k))
    BY GroupDeleteAssumption, FS_Subset DEF Active
<1> QED
    BY <1>1, FS_CardinalityType

LEMMA SlotsStep == Shape /\ SlotsKept /\ [Next]_vars => SlotsKept'
<1> SUFFICES ASSUME Shape, SlotsKept, [Next]_vars PROVE SlotsKept'
    OBVIOUS
<1> DEFINE Calm == \A k \in Calls : Active(k)' \subseteq Active(k)
<1>a. ASSUME Calm PROVE SlotsKept'
    <2> SUFFICES ASSUME NEW k \in Calls PROVE Cardinality(Active(k)') <= Limit
        BY DEF SlotsKept
    <2>1. IsFiniteSet(Active(k)) /\ Cardinality(Active(k)) \in Nat
        BY ActiveFinite
    <2>2. Cardinality(Active(k)') <= Cardinality(Active(k)) /\ IsFiniteSet(Active(k)')
        BY <1>a, <2>1, FS_Subset
    <2>3. Cardinality(Active(k)') \in Nat
        BY <2>2, FS_CardinalityType
    <2> QED
        BY <2>1, <2>2, <2>3, GroupDeleteAssumption DEF SlotsKept
<1> USE DEF Shape, TypeOK, callVars, Active
<1>1. ASSUME NEW k \in Calls, Call(k)
      PROVE  Calm
    BY <1>1 DEF Call
<1>2. ASSUME NEW k \in Calls, FetchPage(k)
      PROVE  Calm
    BY <1>2 DEF FetchPage
<1>3. ASSUME NEW k \in Calls, FetchFails(k)
      PROVE  Calm
    BY <1>3 DEF FetchFails
<1>4. ASSUME NEW k \in Calls, NEW n \in Names, Spawn(k, n)
      PROVE  SlotsKept'
    <2>1. \A j \in Calls : j # k => Active(j)' \subseteq Active(j)
        BY <1>4 DEF Spawn
    <2>2. Active(k)' = Active(k) \cup {n}
        BY <1>4 DEF Spawn
    <2>3. IsFiniteSet(Active(k)) /\ Cardinality(Active(k)) \in Nat
        BY ActiveFinite
    <2>4. Cardinality(Active(k)) < Limit
        BY <1>4 DEF Spawn
    <2> HIDE DEF Active
    <2>5. Cardinality(Active(k) \cup {n}) <= Cardinality(Active(k)) + 1
          /\ Cardinality(Active(k) \cup {n}) \in Nat
        <3>1. Cardinality(Active(k) \cup {n}) =
                IF n \in Active(k) THEN Cardinality(Active(k)) ELSE Cardinality(Active(k)) + 1
            BY <2>3, FS_AddElement
        <3> QED
            BY <2>3, <3>1
    <2>6. Cardinality(Active(k)') <= Limit
        BY <2>2, <2>3, <2>4, <2>5, GroupDeleteAssumption
    <2>7. ASSUME NEW j \in Calls, j # k PROVE Cardinality(Active(j)') <= Limit
        <3>1. IsFiniteSet(Active(j)) /\ Cardinality(Active(j)) \in Nat
            BY ActiveFinite
        <3>2. Cardinality(Active(j)') <= Cardinality(Active(j)) /\ IsFiniteSet(Active(j)')
            BY <2>1, <2>7, <3>1, FS_Subset
        <3>3. Cardinality(Active(j)') \in Nat
            BY <3>2, FS_CardinalityType
        <3> QED
            BY <3>1, <3>2, <3>3, GroupDeleteAssumption DEF SlotsKept
    <2> QED
        BY <2>6, <2>7 DEF SlotsKept
<1>5. ASSUME NEW k \in Calls, LoopEnds(k)
      PROVE  Calm
    BY <1>5 DEF LoopEnds
<1>6. ASSUME NEW k \in Calls, Return(k)
      PROVE  Calm
    BY <1>6 DEF Return
<1>7. ASSUME NEW k \in Calls, ParentCancel(k)
      PROVE  Calm
    BY <1>7 DEF ParentCancel
<1>8. ASSUME NEW k \in Calls, NEW n \in Names, Serve(k, n)
      PROVE  Calm
    BY <1>8 DEF Serve
<1>9. ASSUME NEW k \in Calls, NEW n \in Names, DeleteReturns(k, n)
      PROVE  Calm
    BY <1>9 DEF DeleteReturns, Finish
<1>10. ASSUME NEW k \in Calls, NEW n \in Names, DeleteFails(k, n)
      PROVE  Calm
    BY <1>10 DEF DeleteFails, Finish
<1>11. ASSUME NEW k \in Calls, NEW n \in Names, DeleteCanceled(k, n)
      PROVE  Calm
    BY <1>11 DEF DeleteCanceled, Finish
<1>12. ASSUME NEW k \in Calls, NEW n \in Names, LateServe(k, n)
      PROVE  Calm
    BY <1>12 DEF LateServe
<1>13. ASSUME NEW n \in Foreign, Upload(n)
      PROVE  Calm
    BY <1>13 DEF Upload
<1>14. ASSUME NEW n \in Foreign, Remove(n)
      PROVE  Calm
    BY <1>14 DEF Remove
<1>15. ASSUME UNCHANGED vars
       PROVE  Calm
    <2>1. del' = del
        BY <1>15 DEF vars
    <2> QED
        BY <2>1
<1> QED
    BY <1>a, <1>1, <1>2, <1>3, <1>4, <1>5, <1>6, <1>7,
       <1>8, <1>9, <1>10, <1>11, <1>12, <1>13, <1>14, <1>15
    DEF Next, CallStep, DeleteStep

LEMMA PacedStep == IInv /\ Paced /\ [Next]_vars => Paced'
BY UnsentStep, HandedOnceStep, SlotsStep DEF IInv, Paced

LEMMA PacedAlways == Spec => [](IInv /\ Paced)
<1>1. Init => Paced
    <2> SUFFICES ASSUME Init PROVE Paced
        OBVIOUS
    <2>1. \A k \in Calls : Active(k) = {}
        BY DEF Init, Active
    <2>2. Cardinality({}) = 0
        BY FS_EmptySet
    <2>3. SlotsKept
        BY <2>1, <2>2, GroupDeleteAssumption DEF SlotsKept
    <2>4. UnsentIsDead /\ HandedOnce
        BY DEF Init, UnsentIsDead, HandedOnce
    <2> QED
        BY <2>3, <2>4 DEF Paced
<1> QED
    BY <1>1, InitIInv, Invariance, PacedStep, PTL DEF Spec

(* A call of DeleteBatch or DeleteFolder never runs more deletes at a time *)
(* than its slots (SetLimit), for any calls, objects and limit.            *)
THEOREM SlotsRespected == Spec => []SlotsKept
BY PacedAlways, PTL DEF Paced

(* Every delete goroutine of a call that has not returned can come to its  *)
(* end, and where none is left the caller's goroutine can go on.           *)
CanEnd(k, n) ==
    del[k][n] \in {"sent", "ok", "gone"} \/ (del[k][n] = "unsent" /\ ~Live(k))

CallerCan(k) ==
    \/ pc[k] = "loop" /\ (queue[k] = {} \/ Cardinality(Active(k)) < Limit)
    \/ pc[k] \in {"waiting", "failing"} /\ Active(k) = {}

GoesOn ==
    \A k \in Calls : pc[k] \in {"loop", "waiting", "failing"} =>
        /\ \A n \in Active(k) : CanEnd(k, n)
        /\ Active(k) = {} => CallerCan(k)

(* No call waits for ever for a slot or in eg.Wait: whoever it waits for   *)
(* can end, and after the last one it goes on itself.                      *)
THEOREM CallsGoOn == Spec => []GoesOn
<1>1. IInv /\ Paced => GoesOn
    <2> SUFFICES ASSUME IInv, Paced, NEW k \in Calls, pc[k] \in {"loop", "waiting", "failing"}
                 PROVE  /\ \A n \in Active(k) : CanEnd(k, n)
                        /\ Active(k) = {} => CallerCan(k)
        BY DEF GoesOn
    <2>1. ASSUME NEW n \in Active(k) PROVE CanEnd(k, n)
        BY DEF IInv, Shape, TypeOK, Paced, UnsentIsDead, Active, CanEnd
    <2>2. ASSUME Active(k) = {} PROVE CallerCan(k)
        <3>1. Cardinality(Active(k)) = 0
            BY <2>2, FS_EmptySet
        <3>2. 0 < Limit
            BY GroupDeleteAssumption
        <3> QED
            BY <2>2, <3>1, <3>2 DEF CallerCan
    <2> QED
        BY <2>1, <2>2
<1> QED
    BY <1>1, PacedAlways, PTL

(* How far a call is from being through with an object: still to be        *)
(* listed, handed over, deleted, answered.                                 *)
Stage(k, n) ==
    IF del[k][n] \in {"ok", "gone"} THEN 1
    ELSE IF del[k][n] # "none" THEN 2
    ELSE IF n \in queue[k] THEN 3
    ELSE IF ~eof[k] /\ cursor[k] < n THEN 4 ELSE 0

(* How far its caller's goroutine is from its return. *)
Rank(k) == IF pc[k] \in {"idle", "loop"} THEN 2 ELSE IF pc[k] = "returned" THEN 0 ELSE 1

Forward(k) ==
    /\ \A n \in Names : Stage(k, n)' <= Stage(k, n)
    /\ eof[k] => eof'[k]
    /\ Rank(k)' <= Rank(k)

Progress(k) ==
    \/ \E n \in Names : Stage(k, n)' < Stage(k, n)
    \/ ~eof[k] /\ eof'[k]
    \/ Rank(k)' < Rank(k)

Advances ==
    \A k \in Calls : pc[k] # "idle" =>
        /\ Forward(k)
        /\ CallStep(k) \/ (\E n \in Names : DeleteStep(k, n)) => Progress(k)

LEMMA StageNumbers ==
    /\ \A k \in Calls, n \in Names : Stage(k, n) \in Nat
    /\ \A k \in Calls : Rank(k) \in Nat
BY DEF Stage, Rank

(* What leaves the state of a call alone leaves it where it is. *)
Untouched(k) ==
    /\ pc'[k] = pc[k]
    /\ queue'[k] = queue[k]
    /\ cursor'[k] = cursor[k]
    /\ eof'[k] = eof[k]
    /\ del'[k] = del[k]

LEMMA Unmoved ==
    ASSUME NEW k \in Calls, Untouched(k)
    PROVE  Forward(k)
<1>1. \A n \in Names : Stage(k, n)' = Stage(k, n)
    BY DEF Stage, Untouched
<1>2. Rank(k)' = Rank(k)
    BY DEF Rank, Untouched
<1> QED
    BY <1>1, <1>2, StageNumbers DEF Forward, Untouched

(* A set of natural numbers has a least element. *)
LEMMA Least ==
    ASSUME NEW T \in SUBSET Nat, T # {}
    PROVE  \E x \in T : \A y \in T : ~(y < x)
<1>1. \E r : IsWellFoundedOn(r, Nat) /\ \A x, y \in Nat : <<y, x>> \in r <=> y < x
    <2> DEFINE r == OpToRel(<, Nat)
    <2>1. IsWellFoundedOn(r, Nat)
        BY NatLessThanWellFounded
    <2>2. \A x, y \in Nat : <<y, x>> \in r <=> y < x
        BY DEF OpToRel
    <2> QED
        BY <2>1, <2>2
<1>2. PICK r : IsWellFoundedOn(r, Nat) /\ \A x, y \in Nat : <<y, x>> \in r <=> y < x
    BY <1>1
<1>3. PICK x \in T : \A y \in T : <<y, x>> \notin r
    BY <1>2, WFMin
<1> QED
    BY <1>2, <1>3

(* A page is empty only at the end of the listing. *)
LEMMA PageOrEnd ==
    ASSUME TypeOK, NEW k \in Calls, Ahead(k) # {}
    PROVE  Page(k) # {}
<1>1. Ahead(k) \in SUBSET Nat
    BY GroupDeleteAssumption DEF Ahead, TypeOK
<1>2. PICK n \in Ahead(k) : \A m \in Ahead(k) : ~(m < n)
    BY <1>1, Least
<1>3. {m \in Ahead(k) : m < n} = {}
    BY <1>2
<1>4. Cardinality({m \in Ahead(k) : m < n}) < PageSize
    BY <1>3, FS_EmptySet, GroupDeleteAssumption
<1> QED
    BY <1>4 DEF Page

LEMMA CallAdvances ==
    ASSUME IInv, Paced, NEW k \in Calls, CallStep(k)
    PROVE  Forward(k) /\ Progress(k)
<1>0. TypeOK /\ HandedOnce
    BY DEF IInv, Shape, Paced
<1>1. CASE FetchPage(k)
    <2>1. /\ pc' = pc /\ del' = del /\ queue[k] = {} /\ ~eof[k]
          /\ queue'[k] = Page(k)
          /\ eof'[k] <=> Page(k) = Ahead(k)
        BY <1>0, <1>1 DEF FetchPage, TypeOK
    <2>2. PICK last \in Page(k) \cup {cursor[k]} :
             /\ \A n \in Page(k) \cup {cursor[k]} : n <= last
             /\ cursor'[k] = last
        BY <1>0, <1>1 DEF FetchPage, TypeOK
    <2>3. cursor[k] \in Nat /\ \A n \in Names : n \in Nat
        BY <1>0, CursorIsNatural, GroupDeleteAssumption
    <2>4. ASSUME NEW n \in Page(k)
          PROVE  n \in Names /\ cursor[k] < n
        BY <1>0 DEF Page, Ahead, TypeOK
    <2>5. cursor'[k] \in Nat /\ cursor[k] <= cursor'[k]
        BY <2>2, <2>3, <2>4
    <2>6. ASSUME NEW n \in Page(k)
          PROVE  Stage(k, n) = 4 /\ Stage(k, n)' = 3
        <3>1. n \in Names /\ n \in Nat /\ cursor[k] < n /\ ~(n <= cursor[k])
            BY <2>3, <2>4
        <3>2. del[k][n] = "none"
            BY <1>0, <2>1, <3>1 DEF HandedOnce
        <3> QED
            BY <2>1, <3>1, <3>2 DEF Stage
    <2>7. ASSUME NEW n \in Names, n \notin Page(k)
          PROVE  Stage(k, n)' <= Stage(k, n)
        <3>1. CASE del[k][n] # "none"
            BY <2>1, <3>1 DEF Stage
        <3>2. CASE del[k][n] = "none" /\ cursor[k] < n
            BY <2>1, <2>7, <3>2 DEF Stage
        <3>3. CASE del[k][n] = "none" /\ ~(cursor[k] < n)
            <4>1. ~(cursor'[k] < n)
                BY <2>3, <2>5, <3>3
            <4> QED
                BY <2>1, <2>7, <3>3, <4>1 DEF Stage
        <3> QED
            BY <3>1, <3>2, <3>3
    <2>8. Forward(k)
        <3>1. Rank(k)' = Rank(k) /\ Rank(k) \in Nat
            BY <2>1, StageNumbers DEF Rank
        <3>2. \A n \in Names : Stage(k, n)' <= Stage(k, n)
            BY <2>6, <2>7
        <3> QED
            BY <2>1, <3>1, <3>2 DEF Forward
    <2>9. Progress(k)
        <3>1. CASE Page(k) = Ahead(k)
            BY <2>1, <3>1 DEF Progress
        <3>2. CASE Page(k) # Ahead(k)
            <4>1. Ahead(k) # {}
                BY <3>2 DEF Page
            <4>2. PICK n : n \in Page(k)
                BY <1>0, <4>1, PageOrEnd
            <4>3. n \in Names /\ Stage(k, n)' < Stage(k, n)
                BY <2>4, <2>6, <4>2
            <4> QED
                BY <4>3 DEF Progress
        <3> QED
            BY <3>1, <3>2
    <2> QED
        BY <2>8, <2>9
<1>2. ASSUME NEW n \in Names, Spawn(k, n)
      PROVE  Forward(k) /\ Progress(k)
    <2>1. /\ pc' = pc /\ cursor' = cursor /\ eof' = eof
          /\ n \in queue[k] /\ queue'[k] = queue[k] \ {n}
          /\ del'[k][n] \in {"sent", "unsent"}
          /\ \A m \in Names \ {n} : del'[k][m] = del[k][m]
        BY <1>0, <1>2 DEF Spawn, TypeOK
    <2>2. del[k][n] = "none"
        BY <1>0, <2>1 DEF HandedOnce
    <2>3. Stage(k, n) = 3 /\ Stage(k, n)' = 2
        BY <2>1, <2>2 DEF Stage
    <2>4. \A m \in Names \ {n} : Stage(k, m)' = Stage(k, m)
        BY <2>1 DEF Stage
    <2>5. Rank(k)' = Rank(k)
        BY <2>1 DEF Rank
    <2> QED
        BY <2>1, <2>3, <2>4, <2>5, StageNumbers DEF Forward, Progress
<1>3. CASE FetchFails(k) \/ LoopEnds(k) \/ Return(k)
    <2>1. /\ queue' = queue /\ cursor' = cursor /\ eof' = eof /\ del' = del
          /\ \/ pc[k] = "loop" /\ pc'[k] \in {"failing", "waiting"}
             \/ pc[k] \in {"failing", "waiting"} /\ pc'[k] = "returned"
        BY <1>0, <1>3 DEF FetchFails, LoopEnds, Return, TypeOK
    <2>2. \A n \in Names : Stage(k, n)' = Stage(k, n)
        BY <2>1 DEF Stage
    <2>3. Rank(k)' < Rank(k) /\ Rank(k)' <= Rank(k)
        BY <2>1 DEF Rank
    <2>4. \A n \in Names : Stage(k, n)' <= Stage(k, n)
        BY <2>2, StageNumbers
    <2> QED
        BY <2>1, <2>3, <2>4 DEF Forward, Progress
<1> QED
    BY <1>1, <1>2, <1>3 DEF CallStep

LEMMA DeleteAdvances ==
    ASSUME IInv, Paced, NEW k \in Calls, NEW n \in Names, DeleteStep(k, n)
    PROVE  Forward(k) /\ Progress(k)
<1>0. TypeOK /\ HandedOnce
    BY DEF IInv, Shape, Paced
<1>1. /\ pc' = pc /\ cursor' = cursor /\ eof' = eof /\ queue' = queue
      /\ del[k][n] # "none"
      /\ \/ del[k][n] = "sent" /\ del'[k][n] \in {"ok", "gone"}
         \/ del'[k][n] = "none"
      /\ \A m \in Names \ {n} : del'[k][m] = del[k][m]
    BY <1>0 DEF DeleteStep, Serve, DeleteReturns, DeleteFails, DeleteCanceled, Finish,
                callVars, TypeOK
<1>2. n \notin queue[k] /\ (eof[k] \/ ~(cursor[k] < n))
    <2>1. n \notin queue[k] /\ (eof[k] \/ n <= cursor[k])
        BY <1>0, <1>1 DEF HandedOnce
    <2>2. cursor[k] \in Nat /\ n \in Nat
        BY <1>0, CursorIsNatural, GroupDeleteAssumption
    <2> QED
        BY <2>1, <2>2
<1>3. Stage(k, n)' < Stage(k, n) /\ Stage(k, n)' <= Stage(k, n)
    BY <1>1, <1>2 DEF Stage
<1>4. \A m \in Names \ {n} : Stage(k, m)' = Stage(k, m)
    BY <1>1 DEF Stage
<1>5. Rank(k)' <= Rank(k)
    <2>1. Rank(k)' = Rank(k)
        BY <1>1 DEF Rank
    <2> QED
        BY <2>1, StageNumbers
<1>6. \A m \in Names : Stage(k, m)' <= Stage(k, m)
    BY <1>3, <1>4, StageNumbers
<1> QED
    BY <1>1, <1>3, <1>5, <1>6 DEF Forward, Progress

(* A call never takes a step back: no object is listed or deleted a second *)
(* time, and every step of its own, of the caller's goroutine or of a      *)
(* delete, brings it nearer to its return, so that it takes no more than a *)
(* few steps for each object, whatever other clients do to the bucket.     *)
THEOREM CallsAdvance == Spec => [][Advances]_vars
<1>1. IInv /\ Paced /\ [Next]_vars => Advances \/ UNCHANGED vars
    <2> SUFFICES ASSUME IInv, Paced, Next, NEW k \in Calls, pc[k] # "idle"
                 PROVE  /\ Forward(k)
                        /\ CallStep(k) \/ (\E n \in Names : DeleteStep(k, n)) => Progress(k)
        BY DEF Advances
    <2>0. TypeOK
        BY DEF IInv, Shape
    <2>1. CASE CallStep(k) \/ \E n \in Names : DeleteStep(k, n)
        BY <2>1, CallAdvances, DeleteAdvances
    <2>2. ASSUME ~(CallStep(k) \/ \E n \in Names : DeleteStep(k, n))
          PROVE  Forward(k)
        <3> SUFFICES Untouched(k)
            BY Unmoved
        <3> USE <2>0 DEF TypeOK, callVars, Untouched
        <3>1. ASSUME NEW j \in Calls, Call(j)
              PROVE  Untouched(k)
            BY <3>1 DEF Call
        <3>2. ASSUME NEW j \in Calls, j # k, CallStep(j)
              PROVE  Untouched(k)
            BY <3>2 DEF CallStep, FetchPage, FetchFails, Spawn, LoopEnds, Return
        <3>3. ASSUME NEW j \in Calls, ParentCancel(j)
              PROVE  Untouched(k)
            BY <3>3 DEF ParentCancel
        <3>4. ASSUME NEW j \in Calls, NEW n \in Names, j # k, DeleteStep(j, n)
              PROVE  Untouched(k)
            BY <3>4 DEF DeleteStep, Serve, DeleteReturns, DeleteFails, DeleteCanceled,
                              Finish
        <3>5. ASSUME NEW j \in Calls, NEW n \in Names, LateServe(j, n)
              PROVE  Untouched(k)
            BY <3>5 DEF LateServe
        <3>6. ASSUME NEW n \in Foreign, Upload(n) \/ Remove(n)
              PROVE  Untouched(k)
            BY <3>6 DEF Upload, Remove
        <3> QED
            BY <2>2, <3>1, <3>2, <3>3, <3>4, <3>5, <3>6 DEF Next
    <2> QED
        BY <2>1, <2>2
<1> QED
    BY <1>1, PacedAlways, PTL DEF Spec

----------------------------------------------------------------------------
(* Uploads and moves.                                                      *)

MoveShape ==
    /\ O!TypeOK
    /\ move # "idle" => answer = "none"
    /\ writer # "none" => uploads # 0

(* A closed writer has written its whole file. *)
WholeFiles ==
    /\ O!NeverTorn
    /\ writer = "close" => uploads \in whole

(* As long as others leave it alone the content of the move in progress,   *)
(* or of the last one, is at the destination, or at the source with no     *)
(* delete on its way.                                                      *)
Content ==
    ~touched /\ kept # 0 =>
        /\ object[Dst] = kept \/ (object[Src] = kept /\ ~pending)
        /\ move = "copy" => object[Src] \in {kept, 0}
        /\ move = "delete" => object[Dst] = kept
        /\ answer = "nil" => object[Dst] = kept /\ object[Src] = 0

MoveInv == MoveShape /\ WholeFiles /\ Content

LEMMA MoveInit == O!Init => MoveInv
<1> SUFFICES ASSUME O!Init PROVE MoveInv
    OBVIOUS
<1>1. MoveShape
    <2>1. /\ object \in [O!Places -> 0..MaxUploads]
          /\ uploads \in 0..MaxUploads /\ kept \in 0..MaxUploads
        BY MovesAssumption DEF O!ObjectMoveAssumption, O!Init, O!Places
    <2>2. /\ whole \subseteq 1..uploads
          /\ writer = "none" /\ path \in O!Places /\ move = "idle"
          /\ touched \in BOOLEAN /\ pending \in BOOLEAN /\ answer = "none"
        BY DEF O!Init, O!Places
    <2> QED
        BY <2>1, <2>2 DEF MoveShape, O!TypeOK
<1>2. WholeFiles
    BY DEF O!Init, WholeFiles, O!NeverTorn, O!Exists
<1>3. Content
    BY DEF O!Init, Content
<1> QED
    BY <1>1, <1>2, <1>3 DEF MoveInv

LEMMA MoveShapeStep == MoveShape /\ [O!Next]_O!vars => MoveShape'
<1> SUFFICES ASSUME MoveShape, [O!Next]_O!vars PROVE MoveShape'
    OBVIOUS
<1> USE MovesAssumption DEF O!ObjectMoveAssumption, MoveShape, O!TypeOK, O!Places, O!Exists, O!uploadVars, O!moveVars
<1>1. CASE O!Move
    BY <1>1 DEF O!Move, O!Return
<1>2. CASE O!Copied
    BY <1>2 DEF O!Copied, O!Copy
<1>3. CASE O!CopyFails
    BY <1>3 DEF O!CopyFails, O!Copy, O!Return
<1>4. CASE O!Deleted
    BY <1>4 DEF O!Deleted, O!Delete, O!Return
<1>5. CASE O!DeleteFails
    <2>1. object' \in [O!Places -> 0..MaxUploads]
        BY <1>5 DEF O!DeleteFails, O!Delete
    <2>2. pending' \in BOOLEAN
        BY <1>5 DEF O!DeleteFails
    <2>3. /\ move' = "idle" /\ answer' = "error"
          /\ UNCHANGED <<uploads, whole, writer, path, kept, touched>>
        BY <1>5 DEF O!DeleteFails, O!Return
    <2> QED
        BY <2>1, <2>2, <2>3
<1>6. CASE O!CopyDone
    BY <1>6 DEF O!CopyDone
<1>7. CASE O!CopyBreaks
    BY <1>7 DEF O!CopyBreaks
<1>8. CASE O!Close
    BY <1>8 DEF O!Close, O!Store
<1>9. CASE O!CloseFails
    BY <1>9 DEF O!CloseFails
<1>10. CASE O!LateDelete
    <2>1. object' \in [O!Places -> 0..MaxUploads]
        BY <1>10 DEF O!LateDelete, O!Delete
    <2>2. pending' \in BOOLEAN /\ UNCHANGED <<uploads, whole, writer, path, move, kept, answer, touched>>
        BY <1>10 DEF O!LateDelete
    <2> QED
        BY <2>1, <2>2
<1>11. ASSUME NEW p \in O!Places, O!BeginUpload(p) PROVE MoveShape'
    BY <1>11 DEF O!BeginUpload
<1>12. ASSUME NEW p \in O!Places, O!Remove(p) PROVE MoveShape'
    BY <1>12 DEF O!Remove
<1>13. CASE UNCHANGED O!vars
    BY <1>13 DEF O!vars
<1> QED
    BY <1>1, <1>2, <1>3, <1>4, <1>5, <1>6, <1>7,
       <1>8, <1>9, <1>10, <1>11, <1>12, <1>13
    DEF O!Next, O!MoveStep, O!UploadStep

LEMMA WholeStep == MoveShape /\ WholeFiles /\ [O!Next]_O!vars => WholeFiles'
<1> SUFFICES ASSUME MoveShape /\ WholeFiles, [O!Next]_O!vars PROVE WholeFiles'
    OBVIOUS
<1> USE MovesAssumption DEF O!ObjectMoveAssumption, MoveShape, WholeFiles, O!NeverTorn, O!TypeOK, O!Places, O!Exists, O!uploadVars, O!moveVars
<1>1. CASE O!Move
    BY <1>1 DEF O!Move, O!Return
<1>2. CASE O!Copied
    BY <1>2 DEF O!Copied, O!Copy
<1>3. CASE O!CopyFails
    BY <1>3 DEF O!CopyFails, O!Copy, O!Return
<1>4. CASE O!Deleted
    BY <1>4 DEF O!Deleted, O!Delete, O!Return
<1>5. CASE O!DeleteFails
    BY <1>5 DEF O!DeleteFails, O!Delete, O!Return
<1>6. CASE O!CopyDone
    BY <1>6 DEF O!CopyDone
<1>7. CASE O!CopyBreaks
    BY <1>7 DEF O!CopyBreaks
<1>8. CASE O!Close
    BY <1>8 DEF O!Close, O!Store
<1>9. CASE O!CloseFails
    BY <1>9 DEF O!CloseFails
<1>10. CASE O!LateDelete
    BY <1>10 DEF O!LateDelete, O!Delete
<1>11. ASSUME NEW p \in O!Places, O!BeginUpload(p) PROVE WholeFiles'
    BY <1>11 DEF O!BeginUpload
<1>12. ASSUME NEW p \in O!Places, O!Remove(p) PROVE WholeFiles'
    BY <1>12 DEF O!Remove
<1>13. CASE UNCHANGED O!vars
    BY <1>13 DEF O!vars
<1> QED
    BY <1>1, <1>2, <1>3, <1>4, <1>5, <1>6, <1>7,
       <1>8, <1>9, <1>10, <1>11, <1>12, <1>13
    DEF O!Next, O!MoveStep, O!UploadStep

LEMMA ContentStep == MoveShape /\ Content /\ [O!Next]_O!vars => Content'
<1> SUFFICES ASSUME MoveShape /\ Content, [O!Next]_O!vars PROVE Content'
    OBVIOUS
<1> USE MovesAssumption DEF O!ObjectMoveAssumption, MoveShape, Content, O!TypeOK, O!Places, O!Exists, O!uploadVars, O!moveVars
<1>1. CASE O!Move
    BY <1>1 DEF O!Move, O!Return
<1>2. CASE O!Copied
    BY <1>2 DEF O!Copied, O!Copy
<1>3. CASE O!CopyFails
    BY <1>3 DEF O!CopyFails, O!Copy, O!Return
<1>4. CASE O!Deleted
    BY <1>4 DEF O!Deleted, O!Delete, O!Return
<1>5. CASE O!DeleteFails
    BY <1>5 DEF O!DeleteFails, O!Delete, O!Return
<1>6. CASE O!CopyDone
    BY <1>6 DEF O!CopyDone
<1>7. CASE O!CopyBreaks
    BY <1>7 DEF O!CopyBreaks
<1>8. CASE O!Close
    BY <1>8 DEF O!Close, O!Store
<1>9. CASE O!CloseFails
    BY <1>9 DEF O!CloseFails
<1>10. CASE O!LateDelete
    BY <1>10 DEF O!LateDelete, O!Delete
<1>11. ASSUME NEW p \in O!Places, O!BeginUpload(p) PROVE Content'
    BY <1>11 DEF O!BeginUpload
<1>12. ASSUME NEW p \in O!Places, O!Remove(p) PROVE Content'
    BY <1>12 DEF O!Remove
<1>13. CASE UNCHANGED O!vars
    BY <1>13 DEF O!vars
<1> QED
    BY <1>1, <1>2, <1>3, <1>4, <1>5, <1>6, <1>7,
       <1>8, <1>9, <1>10, <1>11, <1>12, <1>13
    DEF O!Next, O!MoveStep, O!UploadStep

LEMMA MoveInvariance == O!Spec => []MoveInv
<1>1. MoveInv /\ [O!Next]_O!vars => MoveInv'
    BY MoveShapeStep, WholeStep, ContentStep DEF MoveInv
<1> QED
    BY <1>1, MoveInit, PTL DEF O!Spec

(* No object is a part of a file, and no move loses its content, whatever  *)
(* breaks off, comes late or is tried again.                               *)
THEOREM MovesLoseNothing == O!Spec => []ContentKept
<1>1. MoveInv => ContentKept
    BY DEF ContentKept, MoveInv, WholeFiles, Content, O!ContentKept, O!NeverLost, O!Places, O!Exists
<1> QED
    BY <1>1, MoveInvariance, PTL

----------------------------------------------------------------------------
(* The run's specification, of which every behaviour is one of the two.    *)
LEMMA BothRun == StorageSpec => Spec /\ O!Spec
<1>1. StorageInit => Init /\ O!Init
    BY DEF StorageInit
<1>2. [StorageNext]_<<part, vars, objectVars>> => [Next]_vars /\ [O!Next]_O!vars
    BY DEF StorageNext, objectVars, O!vars, O!uploadVars, O!moveVars
<1> QED
    BY <1>1, <1>2, PTL DEF StorageSpec, Spec, O!Spec

(* Every variable of the deletes, the uploads and the moves keeps its      *)
(* type, for any calls, objects, slots, pages and contents.                *)
THEOREM StorageTypeCorrect == StorageSpec => []StorageTypeOK
<1>1. MoveInv => O!TypeOK
    BY DEF MoveInv, MoveShape
<1>2. TypeOK /\ O!TypeOK => StorageTypeOK
    BY DEF StorageTypeOK
<1> QED
    BY <1>1, <1>2, BothRun, TypeCorrect, MoveInvariance, PTL
============================================================================
