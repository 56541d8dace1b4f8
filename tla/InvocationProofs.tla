-------------------------- MODULE InvocationProofs --------------------------
(***************************************************************************)
(* Proofs about Invocation, for every finite set of requests, every limit  *)
(* and both settings of the timeout.                                       *)
(***************************************************************************)
EXTENDS Invocation, FiniteSetTheorems, TLAPS

(***************************************************************************)
(* The inductive invariant.  The counters are integers to begin with: that *)
(* they stay natural follows from what they count.                         *)
(***************************************************************************)
TypeInt ==
  /\ pc      \in [Requests -> Places]
  /\ handler \in [Requests -> {"none", "running", "returned", "ended"}]
  /\ result  \in [Requests -> Results \cup {"none"}]
  /\ ctx     \in [Requests -> {"live", "deadline", "disconnect", "cancelled"}]
  /\ answer  \in [Requests -> Codes \cup {"none"}]
  /\ sem \in Int
  /\ inFlight \in Int
  /\ requestsTotal \in [Codes -> Int]
  /\ durations \in Int
  /\ panics \in Int

(* What is known of one request at each place of the chain.                 *)
ShapeOf(r) ==
  /\ pc[r] \in {"idle", "limit", "read"} => handler[r] = "none"
  /\ Waiting(r) => handler[r] # "none"
  /\ answer[r] = "none" <=> pc[r] \in {"idle", "limit", "read"} \/ Waiting(r)
  /\ result[r] = "none" <=> handler[r] \in {"none", "running"}
  /\ pc[r] = "inline" => handler[r] = "running"
  /\ pc[r] = "parked" => handler[r] # "ended" /\ ctx[r] = "live"
  /\ ctx[r] = "cancelled" => answer[r] # "none"
  /\ pc[r] = "limit" \/ answer[r] = "429" => Limited
  /\ pc[r] = "body" => answer[r] = "handler"
  /\ pc[r] = "release" => HoldsSlot(r)
  /\ pc[r] \in {"count", "observe", "done"} => answer[r] # "invalid"
  /\ answer[r] \in {"handler", "invalid"} => result[r] = answer[r]
  /\ answer[r] = "500" => result[r] \in {"error", "panic"}
  /\ pc[r] = "aborted" => answer[r] = "invalid"
  /\ handler[r] = "running" /\ ~ Waiting(r) => CtxDone(r) /\ answer[r] = "504"
  /\ ~ TimeoutOn => /\ pc[r] \notin {"select", "parked"}
                    /\ handler[r] = "running" => pc[r] = "inline"
                    /\ handler[r] # "returned"

Shape == \A r \in Requests : ShapeOf(r)

PanicsCounted == panics = Cardinality(Panicked)

IInv == /\ TypeInt
        /\ Shape
        /\ SlotsConserved
        /\ GaugeConserved
        /\ CountedOnce
        /\ PanicsCounted
-----------------------------------------------------------------------------
(* Counting one request more, or one less.                                  *)
LEMMA CardinalityAdd ==
  ASSUME NEW S \in SUBSET Requests, NEW r \in Requests, r \notin S
  PROVE  Cardinality(S \cup {r}) = Cardinality(S) + 1
<1>1. IsFiniteSet(S)  BY FS_Subset, RequestsFinite
<1>. QED  BY <1>1, FS_AddElement

LEMMA CardinalityRemove ==
  ASSUME NEW S \in SUBSET Requests, NEW r \in S
  PROVE  Cardinality(S \ {r}) = Cardinality(S) - 1
<1>1. IsFiniteSet(S)  BY FS_Subset, RequestsFinite
<1>. QED  BY <1>1, FS_RemoveElement

(* What is counted is a natural number.                                     *)
LEMMA CardinalityNat ==
  ASSUME NEW S \in SUBSET Requests
  PROVE  Cardinality(S) \in Nat
<1>1. IsFiniteSet(S)  BY FS_Subset, RequestsFinite
<1>. QED  BY <1>1, FS_CardinalityType

(* A step keeps every variable in its range.                                *)
LEMMA TypeStep ==
  ASSUME TypeInt, Shape, NEW r \in Requests, Step(r)
  PROVE  TypeInt'
<1>. USE DEF TypeInt, Places, Codes, Results, Go, Answer, Cancelled, CodeOf,
             AfterLimiter, AfterWrite, metrics
<1>1. CASE Arrive(r)      BY <1>1 DEF Arrive
<1>2. CASE Acquire(r)     BY <1>2 DEF Acquire
<1>3. CASE Shed(r)        BY <1>3 DEF Shed
<1>4. CASE ReadFails(r)   BY <1>4 DEF ReadFails
<1>5. CASE Invoke(r)      BY <1>5 DEF Invoke
<1>6. ASSUME NEW res \in Results, HandlerReturns(r, res)
      PROVE  TypeInt'
  BY <1>6 DEF HandlerReturns
<1>7. CASE SendResult(r)
  <2>1. result[r] \in Results  BY <1>7 DEF SendResult, Shape, ShapeOf
  <2>. QED  BY <1>7, <2>1 DEF SendResult
<1>8. CASE SelectResult(r)
  <2>1. result[r] \in Results  BY <1>8 DEF SelectResult, Shape, ShapeOf
  <2>. QED  BY <1>8, <2>1 DEF SelectResult
<1>9. CASE SelectDone(r)  BY <1>9 DEF SelectDone
<1>10. CASE Park(r)       BY <1>10 DEF Park
<1>11. CASE Deadline(r)   BY <1>11 DEF Deadline, CloseDone
<1>12. CASE Disconnect(r) BY <1>12 DEF Disconnect, CloseDone
<1>13. CASE WriteHeader(r) BY <1>13 DEF WriteHeader
<1>14. CASE WriteBody(r)  BY <1>14 DEF WriteBody
<1>15. CASE Release(r)    BY <1>15 DEF Release
<1>16. CASE Count(r)
  <2>1. answer[r] \in Codes  BY <1>16 DEF Count, Shape, ShapeOf, Waiting
  <2>2. requestsTotal[answer[r]] + 1 \in Int  BY <2>1
  <2>3. requestsTotal' \in [Codes -> Int]
    <3>. HIDE DEF Codes
    <3>. QED  BY <1>16, <2>1, <2>2 DEF Count
  <2>. QED  BY <1>16, <2>3 DEF Count
<1>17. CASE Observe(r)    BY <1>17 DEF Observe
<1>18. CASE Leave(r)      BY <1>18 DEF Leave
<1>. QED
  BY <1>1, <1>2, <1>3, <1>4, <1>5, <1>6, <1>7, <1>8, <1>9, <1>10, <1>11,
     <1>12, <1>13, <1>14, <1>15, <1>16, <1>17, <1>18
     DEF Step, ServerStep, HandlerStep

(* A step keeps what is known of each request: only the request that steps  *)
(* changes.                                                                 *)
LEMMA ShapeStep ==
  ASSUME TypeInt, Shape, NEW r \in Requests, Step(r)
  PROVE  Shape'
<1>. SUFFICES ASSUME NEW s \in Requests  PROVE ShapeOf(s)'
  BY DEF Shape
<1>. ShapeOf(s) /\ ShapeOf(r)  BY DEF Shape
<1>. USE DEF TypeInt, Places, Codes, Results, Go, Answer, Cancelled, CodeOf,
             AfterLimiter, AfterWrite, HoldsSlot, ShapeOf, Waiting, CtxDone
<1>1. CASE Arrive(r)      BY <1>1 DEF Arrive
<1>2. CASE Acquire(r)     BY <1>2 DEF Acquire
<1>3. CASE Shed(r)        BY <1>3 DEF Shed
<1>4. CASE ReadFails(r)   BY <1>4 DEF ReadFails
<1>5. CASE Invoke(r)      BY <1>5 DEF Invoke
<1>6. ASSUME NEW res \in Results, HandlerReturns(r, res)
      PROVE  ShapeOf(s)'
  BY <1>6 DEF HandlerReturns
<1>7. CASE SendResult(r)  BY <1>7 DEF SendResult
<1>8. CASE SelectResult(r) BY <1>8 DEF SelectResult
<1>9. CASE SelectDone(r)  BY <1>9 DEF SelectDone
<1>10. CASE Park(r)       BY <1>10 DEF Park
<1>11. CASE Deadline(r)   BY <1>11 DEF Deadline, CloseDone
<1>12. CASE Disconnect(r) BY <1>12 DEF Disconnect, CloseDone
<1>13. CASE WriteHeader(r) BY <1>13 DEF WriteHeader
<1>14. CASE WriteBody(r)  BY <1>14 DEF WriteBody
<1>15. CASE Release(r)    BY <1>15 DEF Release
<1>16. CASE Count(r)      BY <1>16 DEF Count
<1>17. CASE Observe(r)    BY <1>17 DEF Observe
<1>18. CASE Leave(r)      BY <1>18 DEF Leave
<1>. QED
  BY <1>1, <1>2, <1>3, <1>4, <1>5, <1>6, <1>7, <1>8, <1>9, <1>10, <1>11,
     <1>12, <1>13, <1>14, <1>15, <1>16, <1>17, <1>18
     DEF Step, ServerStep, HandlerStep

(* The requests that hold a slot change with sem: Acquire adds one, Release *)
(* removes one, and no other step touches either.                           *)
LEMMA HoldersStep ==
  ASSUME TypeInt, Shape, NEW r \in Requests, Step(r)
  PROVE  \/ Holders' = Holders /\ sem' = sem
         \/ /\ r \notin Holders /\ Holders' = Holders \cup {r}
            /\ Limited /\ sem < MaxConcurrency /\ sem' = sem + 1
         \/ r \in Holders /\ Holders' = Holders \ {r} /\ sem' = sem - 1
<1>. ShapeOf(r)  BY DEF Shape
<1>. USE DEF TypeInt, Go, Answer, AfterLimiter, AfterWrite, HoldsSlot, ShapeOf,
             Holders, Waiting, CodeOf, Results
<1>. DEFINE Goal == \/ Holders' = Holders /\ sem' = sem
                    \/ /\ r \notin Holders /\ Holders' = Holders \cup {r}
                       /\ Limited /\ sem < MaxConcurrency /\ sem' = sem + 1
                    \/ r \in Holders /\ Holders' = Holders \ {r} /\ sem' = sem - 1
<1>1. CASE Arrive(r)       BY <1>1 DEF Arrive
<1>2. CASE Acquire(r)      BY <1>2 DEF Acquire
<1>3. CASE Shed(r)         BY <1>3 DEF Shed
<1>4. CASE ReadFails(r)    BY <1>4 DEF ReadFails
<1>5. CASE Invoke(r)       BY <1>5 DEF Invoke
<1>6. ASSUME NEW res \in Results, HandlerReturns(r, res)
      PROVE  Goal
  BY <1>6 DEF HandlerReturns
<1>7. CASE SendResult(r)   BY <1>7 DEF SendResult
<1>8. CASE SelectResult(r) BY <1>8 DEF SelectResult
<1>9. CASE SelectDone(r)   BY <1>9 DEF SelectDone
<1>10. CASE Park(r)        BY <1>10 DEF Park
<1>11. CASE Deadline(r)    BY <1>11 DEF Deadline, CloseDone
<1>12. CASE Disconnect(r)  BY <1>12 DEF Disconnect, CloseDone
<1>13. CASE WriteHeader(r) BY <1>13 DEF WriteHeader
<1>14. CASE WriteBody(r)   BY <1>14 DEF WriteBody
<1>15. CASE Release(r)     BY <1>15 DEF Release
<1>16. CASE Count(r)       BY <1>16 DEF Count
<1>17. CASE Observe(r)     BY <1>17 DEF Observe
<1>18. CASE Leave(r)       BY <1>18 DEF Leave
<1>. QED
  BY <1>1, <1>2, <1>3, <1>4, <1>5, <1>6, <1>7, <1>8, <1>9, <1>10, <1>11,
     <1>12, <1>13, <1>14, <1>15, <1>16, <1>17, <1>18
     DEF Step, ServerStep, HandlerStep

LEMMA SlotsStep ==
  ASSUME TypeInt, Shape, SlotsConserved, NEW r \in Requests, Step(r)
  PROVE  SlotsConserved'
<1>. Holders \subseteq Requests  BY DEF Holders
<1>1. CASE Holders' = Holders /\ sem' = sem
  BY <1>1 DEF SlotsConserved, Limited
<1>2. CASE /\ r \notin Holders /\ Holders' = Holders \cup {r}
           /\ Limited /\ sem < MaxConcurrency /\ sem' = sem + 1
  <2>1. Cardinality(Holders') = Cardinality(Holders) + 1  BY <1>2, CardinalityAdd
  <2>. QED  BY <1>2, <2>1, LimitIsInt DEF SlotsConserved, Limited, TypeInt
<1>3. CASE r \in Holders /\ Holders' = Holders \ {r} /\ sem' = sem - 1
  <2>1. Cardinality(Holders') = Cardinality(Holders) - 1  BY <1>3, CardinalityRemove
  <2>. QED  BY <1>3, <2>1, LimitIsInt DEF SlotsConserved, Limited, TypeInt
<1>. QED  BY <1>1, <1>2, <1>3, HoldersStep

(* The gauge follows the requests inside the chain.                         *)
LEMMA GaugeStep ==
  ASSUME TypeInt, Shape, GaugeConserved, NEW r \in Requests, Step(r)
  PROVE  GaugeConserved'
<1>. ShapeOf(r) /\ Inside \subseteq Requests  BY DEF Shape, Inside
<1>. DEFINE Same == Inside' = Inside /\ inFlight' = inFlight
<1>. USE DEF TypeInt, Go, Answer, AfterLimiter, AfterWrite, ShapeOf, Left, Waiting,
             metrics
<1>0. ASSUME Same  PROVE GaugeConserved'  BY <1>0 DEF GaugeConserved
<1>1. CASE Arrive(r)
  <2>1. r \notin Inside /\ Inside' = Inside \cup {r}  BY <1>1 DEF Arrive, Inside
  <2>2. Cardinality(Inside') = Cardinality(Inside) + 1  BY <2>1, CardinalityAdd
  <2>. QED  BY <1>1, <2>2 DEF Arrive, GaugeConserved
<1>2. CASE Acquire(r)
  <2>. Same  BY <1>2 DEF Acquire, Inside
  <2>. QED  BY <1>0
<1>3. CASE Shed(r)
  <2>. Same  BY <1>3 DEF Shed, Inside
  <2>. QED  BY <1>0
<1>4. CASE ReadFails(r)
  <2>. Same  BY <1>4 DEF ReadFails, Inside
  <2>. QED  BY <1>0
<1>5. CASE Invoke(r)
  <2>. Same  BY <1>5 DEF Invoke, Inside
  <2>. QED  BY <1>0
<1>6. ASSUME NEW res \in Results, HandlerReturns(r, res)
      PROVE  GaugeConserved'
  <2>. Same  BY <1>6 DEF HandlerReturns, Inside
  <2>. QED  BY <1>0
<1>7. CASE SendResult(r)
  <2>. Same  BY <1>7 DEF SendResult, Inside
  <2>. QED  BY <1>0
<1>8. CASE SelectResult(r)
  <2>. Same  BY <1>8 DEF SelectResult, Inside
  <2>. QED  BY <1>0
<1>9. CASE SelectDone(r)
  <2>. Same  BY <1>9 DEF SelectDone, Inside
  <2>. QED  BY <1>0
<1>10. CASE Park(r)
  <2>. Same  BY <1>10 DEF Park, Inside
  <2>. QED  BY <1>0
<1>11. CASE Deadline(r)
  <2>. Same  BY <1>11 DEF Deadline, CloseDone, Inside
  <2>. QED  BY <1>0
<1>12. CASE Disconnect(r)
  <2>. Same  BY <1>12 DEF Disconnect, CloseDone, Inside
  <2>. QED  BY <1>0
<1>13. CASE WriteHeader(r)
  <2>. Same  BY <1>13 DEF WriteHeader, Inside
  <2>. QED  BY <1>0
<1>14. CASE WriteBody(r)
  <2>. Same  BY <1>14 DEF WriteBody, Inside
  <2>. QED  BY <1>0
<1>15. CASE Release(r)
  <2>. Same  BY <1>15 DEF Release, Inside
  <2>. QED  BY <1>0
<1>16. CASE Count(r)
  <2>. Same  BY <1>16 DEF Count, Inside
  <2>. QED  BY <1>0
<1>17. CASE Observe(r)
  <2>. Same  BY <1>17 DEF Observe, Inside
  <2>. QED  BY <1>0
<1>18. CASE Leave(r)
  <2>1. r \in Inside /\ Inside' = Inside \ {r}  BY <1>18 DEF Leave, Inside
  <2>2. Cardinality(Inside') = Cardinality(Inside) - 1  BY <2>1, CardinalityRemove
  <2>. QED  BY <1>18, <2>2 DEF Leave, GaugeConserved
<1>. QED
  BY <1>1, <1>2, <1>3, <1>4, <1>5, <1>6, <1>7, <1>8, <1>9, <1>10, <1>11,
     <1>12, <1>13, <1>14, <1>15, <1>16, <1>17, <1>18
     DEF Step, ServerStep, HandlerStep

(* The counter and the histogram follow the answers that were written.      *)
LEMMA CountStep ==
  ASSUME TypeInt, Shape, CountedOnce, NEW r \in Requests, Step(r)
  PROVE  CountedOnce'
<1>. ShapeOf(r)  BY DEF Shape
<1>. \A c \in Codes : CountedAs(c) \subseteq Requests  BY DEF CountedAs
<1>. AllObserved \subseteq Requests  BY DEF AllObserved
<1>. DEFINE Same == /\ requestsTotal' = requestsTotal /\ durations' = durations
                    /\ \A c \in Codes : CountedAs(c)' = CountedAs(c)
                    /\ AllObserved' = AllObserved
<1>. USE DEF TypeInt, Go, Answer, AfterLimiter, AfterWrite, ShapeOf, Waiting,
             Counted, Observed, metrics
<1>0. ASSUME Same  PROVE CountedOnce'  BY <1>0 DEF CountedOnce
<1>1. CASE Arrive(r)
  <2>. Same  BY <1>1 DEF Arrive, CountedAs, AllObserved
  <2>. QED  BY <1>0
<1>2. CASE Acquire(r)
  <2>. Same  BY <1>2 DEF Acquire, CountedAs, AllObserved
  <2>. QED  BY <1>0
<1>3. CASE Shed(r)
  <2>. Same  BY <1>3 DEF Shed, CountedAs, AllObserved
  <2>. QED  BY <1>0
<1>4. CASE ReadFails(r)
  <2>. Same  BY <1>4 DEF ReadFails, CountedAs, AllObserved
  <2>. QED  BY <1>0
<1>5. CASE Invoke(r)
  <2>. Same  BY <1>5 DEF Invoke, CountedAs, AllObserved
  <2>. QED  BY <1>0
<1>6. ASSUME NEW res \in Results, HandlerReturns(r, res)
      PROVE  CountedOnce'
  <2>. Same  BY <1>6 DEF HandlerReturns, CountedAs, AllObserved
  <2>. QED  BY <1>0
<1>7. CASE SendResult(r)
  <2>. Same  BY <1>7 DEF SendResult, CountedAs, AllObserved
  <2>. QED  BY <1>0
<1>8. CASE SelectResult(r)
  <2>. Same  BY <1>8 DEF SelectResult, CountedAs, AllObserved
  <2>. QED  BY <1>0
<1>9. CASE SelectDone(r)
  <2>. Same  BY <1>9 DEF SelectDone, CountedAs, AllObserved
  <2>. QED  BY <1>0
<1>10. CASE Park(r)
  <2>. Same  BY <1>10 DEF Park, CountedAs, AllObserved
  <2>. QED  BY <1>0
<1>11. CASE Deadline(r)
  <2>. Same  BY <1>11 DEF Deadline, CloseDone, CountedAs, AllObserved
  <2>. QED  BY <1>0
<1>12. CASE Disconnect(r)
  <2>. Same  BY <1>12 DEF Disconnect, CloseDone, CountedAs, AllObserved
  <2>. QED  BY <1>0
<1>13. CASE WriteHeader(r)
  <2>. Same  BY <1>13 DEF WriteHeader, CountedAs, AllObserved
  <2>. QED  BY <1>0
<1>14. CASE WriteBody(r)
  <2>. Same  BY <1>14 DEF WriteBody, CountedAs, AllObserved
  <2>. QED  BY <1>0
<1>15. CASE Release(r)
  <2>. Same  BY <1>15 DEF Release, CountedAs, AllObserved
  <2>. QED  BY <1>0
<1>16. CASE Count(r)
  <2>. PICK a \in Codes : a = answer[r]  BY <1>16 DEF Count
  <2>1. r \notin CountedAs(a)  BY <1>16 DEF Count, CountedAs
  <2>2. CountedAs(a)' = CountedAs(a) \cup {r}  BY <1>16 DEF Count, CountedAs
  <2>3. \A c \in Codes \ {a} : CountedAs(c)' = CountedAs(c)
    BY <1>16 DEF Count, CountedAs
  <2>4. AllObserved' = AllObserved  BY <1>16 DEF Count, AllObserved
  <2>5. Cardinality(CountedAs(a)') = Cardinality(CountedAs(a)) + 1
    BY <2>1, <2>2, CardinalityAdd
  <2>6. /\ requestsTotal'[a] = requestsTotal[a] + 1
        /\ \A c \in Codes \ {a} : requestsTotal'[c] = requestsTotal[c]
    BY <1>16, <2>1 DEF Count
  <2>7. ASSUME NEW c \in Codes
        PROVE  requestsTotal'[c] = Cardinality(CountedAs(c)')
    <3>1. CASE c = a   BY <2>1, <2>5, <2>6, <3>1 DEF CountedOnce
    <3>2. CASE c # a   BY <2>3, <2>6, <3>2 DEF CountedOnce
    <3>. QED  BY <3>1, <3>2
  <2>. QED  BY <1>16, <2>4, <2>7 DEF Count, CountedOnce
<1>17. CASE Observe(r)
  <2>1. r \notin AllObserved /\ AllObserved' = AllObserved \cup {r}
    BY <1>17 DEF Observe, AllObserved
  <2>2. Cardinality(AllObserved') = Cardinality(AllObserved) + 1
    BY <2>1, CardinalityAdd
  <2>3. \A c \in Codes : CountedAs(c)' = CountedAs(c)
    BY <1>17 DEF Observe, CountedAs
  <2>. QED  BY <1>17, <2>2, <2>3 DEF Observe, CountedOnce
<1>18. CASE Leave(r)
  <2>. Same  BY <1>18 DEF Leave, CountedAs, AllObserved
  <2>. QED  BY <1>0
<1>. QED
  BY <1>1, <1>2, <1>3, <1>4, <1>5, <1>6, <1>7, <1>8, <1>9, <1>10, <1>11,
     <1>12, <1>13, <1>14, <1>15, <1>16, <1>17, <1>18
     DEF Step, ServerStep, HandlerStep

(* Only the return of a Handler changes who panicked.                       *)
LEMMA PanicsStep ==
  ASSUME TypeInt, Shape, PanicsCounted, NEW r \in Requests, Step(r)
  PROVE  PanicsCounted'
<1>1. ASSUME NEW res \in Results, HandlerReturns(r, res)
      PROVE  PanicsCounted'
  <2>. Panicked \subseteq Requests  BY DEF Panicked
  <2>1. r \notin Panicked
    BY <1>1 DEF HandlerReturns, Panicked, Shape, ShapeOf
  <2>2. CASE res = "panic"
    <3>1. Panicked' = Panicked \cup {r}
      BY <1>1, <2>2 DEF HandlerReturns, Panicked, TypeInt
    <3>2. Cardinality(Panicked') = Cardinality(Panicked) + 1
      BY <2>1, <3>1, CardinalityAdd
    <3>. QED  BY <1>1, <2>2, <3>2 DEF HandlerReturns, PanicsCounted
  <2>3. CASE res # "panic"
    <3>1. Panicked' = Panicked
      BY <1>1, <2>1, <2>3 DEF HandlerReturns, Panicked, TypeInt
    <3>. QED  BY <1>1, <2>3, <3>1 DEF HandlerReturns, PanicsCounted
  <2>. QED  BY <2>2, <2>3
<1>2. ASSUME UNCHANGED <<result, panics>>
      PROVE  PanicsCounted'
  BY <1>2 DEF PanicsCounted, Panicked
<1>3. HandlerStep(r) \/ UNCHANGED <<result, panics>>
  BY DEF Step, ServerStep, Arrive, Acquire, Shed, ReadFails, Invoke, SendResult,
         SelectResult, SelectDone, Park, Deadline, Disconnect, CloseDone,
         WriteHeader, WriteBody, Release, Count, Observe, Leave, metrics
<1>. QED  BY <1>1, <1>2, <1>3 DEF HandlerStep
-----------------------------------------------------------------------------
(* The inductive invariant holds of every reachable state.                  *)
THEOREM Invariance == Spec => []IInv
<1>1. Init => IInv
  <2>. SUFFICES ASSUME Init  PROVE IInv
    OBVIOUS
  <2>1. TypeInt  BY DEF Init, TypeInt, Places, Codes
  <2>2. Shape
    BY DEF Init, Shape, ShapeOf, Waiting, Codes
  <2>3. Holders = {} /\ Inside = {} /\ AllObserved = {} /\ Panicked = {}
    BY DEF Init, Holders, HoldsSlot, Inside, AllObserved, Observed, Panicked
  <2>4. \A c \in Codes : CountedAs(c) = {}
    BY DEF Init, CountedAs, Counted
  <2>5. SlotsConserved
    BY <2>3, FS_EmptySet, LimitIsInt DEF Init, SlotsConserved, Limited
  <2>6. GaugeConserved /\ PanicsCounted
    BY <2>3, FS_EmptySet DEF Init, GaugeConserved, PanicsCounted
  <2>7. CountedOnce
    BY <2>3, <2>4, FS_EmptySet DEF Init, CountedOnce
  <2>. QED  BY <2>1, <2>2, <2>5, <2>6, <2>7 DEF IInv
<1>2. IInv /\ [Next]_vars => IInv'
  <2>. SUFFICES ASSUME IInv, [Next]_vars  PROVE IInv'
    OBVIOUS
  <2>1. ASSUME NEW r \in Requests, Step(r)  PROVE IInv'
    BY <2>1, TypeStep, ShapeStep, SlotsStep, GaugeStep, CountStep, PanicsStep
       DEF IInv
  <2>2. ASSUME UNCHANGED vars  PROVE IInv'
    BY <2>2 DEF vars, goroutines, metrics, IInv, TypeInt, Shape, ShapeOf, Waiting,
                CtxDone, HoldsSlot, SlotsConserved, Holders, GaugeConserved,
                Inside, Left, CountedOnce, CountedAs, Counted, AllObserved,
                Observed, PanicsCounted, Panicked
  <2>. QED  BY <2>1, <2>2 DEF Next
<1>. QED  BY <1>1, <1>2, PTL DEF Spec
-----------------------------------------------------------------------------
(* Every variable keeps its type: no slot is returned that was not taken,   *)
(* and the gauge never goes below zero.                                     *)
THEOREM TypeCorrect == Spec => []TypeOK
<1>1. IInv => TypeOK
  <2>. SUFFICES ASSUME IInv  PROVE TypeOK
    OBVIOUS
  <2>1. Cardinality(Holders) \in Nat /\ Cardinality(Inside) \in Nat
    BY CardinalityNat DEF Holders, Inside
  <2>2. Cardinality(AllObserved) \in Nat /\ Cardinality(Panicked) \in Nat
    BY CardinalityNat DEF AllObserved, Panicked
  <2>3. \A c \in Codes : Cardinality(CountedAs(c)) \in Nat
    BY CardinalityNat DEF CountedAs
  <2>4. requestsTotal \in [Codes -> Nat]
    BY <2>3 DEF IInv, TypeInt, CountedOnce
  <2>. QED
    BY <2>1, <2>2, <2>4 DEF IInv, TypeInt, TypeOK, SlotsConserved,
       GaugeConserved, CountedOnce, PanicsCounted
<1>. QED  BY <1>1, Invariance, PTL

(* The semaphore holds one token per admitted request, within the limit.    *)
THEOREM SlotsSafe == Spec => []SlotsConserved
<1>1. IInv => SlotsConserved  BY DEF IInv
<1>. QED  BY <1>1, Invariance, PTL

(* The gauge is exact on every path through the chain.                      *)
THEOREM GaugeSafe == Spec => []GaugeConserved
<1>1. IInv => GaugeConserved  BY DEF IInv
<1>. QED  BY <1>1, Invariance, PTL

(* Every written answer is counted once under its code.                     *)
THEOREM CountsSafe == Spec => []CountedOnce
<1>1. IInv => CountedOnce  BY DEF IInv
<1>. QED  BY <1>1, Invariance, PTL

(* A union of two disjoint sets of requests has as many as both.            *)
LEMMA CardinalityUnion ==
  ASSUME NEW S \in SUBSET Requests, NEW T \in SUBSET Requests, S \cap T = {}
  PROVE  Cardinality(S \cup T) = Cardinality(S) + Cardinality(T)
<1>1. IsFiniteSet(S) /\ IsFiniteSet(T)  BY FS_Subset, RequestsFinite
<1>2. Cardinality(S \cup T)
        = Cardinality(S) + Cardinality(T) - Cardinality(S \cap T)
  BY <1>1, FS_Union
<1>3. Cardinality(S) \in Nat /\ Cardinality(T) \in Nat  BY CardinalityNat
<1>. QED  BY <1>2, <1>3, FS_EmptySet

LEMMA CardinalityLeq ==
  ASSUME NEW S \in SUBSET Requests, NEW T \in SUBSET S
  PROVE  Cardinality(T) <= Cardinality(S)
<1>1. IsFiniteSet(S)  BY FS_Subset, RequestsFinite
<1>. QED  BY <1>1, FS_Subset

(* What the counter adds up to, over all codes, is the requests counted.    *)
AllCounted == {r \in Requests : Counted(r)}

LEMMA TotalIsCounted ==
  ASSUME TypeInt, Shape, CountedOnce
  PROVE  Total = Cardinality(AllCounted)
<1>. DEFINE One   == CountedAs("handler")
            Two   == One \cup CountedAs("invalid")
            Three == Two \cup CountedAs("500")
            Four  == Three \cup CountedAs("504")
            Five  == Four \cup CountedAs("413")
            Six   == Five \cup CountedAs("429")
<1>1. \A c \in Codes : CountedAs(c) \in SUBSET Requests  BY DEF CountedAs
<1>2. /\ CountedAs("handler") \in SUBSET Requests
      /\ CountedAs("invalid") \in SUBSET Requests
      /\ CountedAs("500") \in SUBSET Requests
      /\ CountedAs("504") \in SUBSET Requests
      /\ CountedAs("413") \in SUBSET Requests
      /\ CountedAs("429") \in SUBSET Requests
  BY <1>1 DEF Codes
<1>3. /\ One \cap CountedAs("invalid") = {}
      /\ Two \cap CountedAs("500") = {}
      /\ Three \cap CountedAs("504") = {}
      /\ Four \cap CountedAs("413") = {}
      /\ Five \cap CountedAs("429") = {}
  BY DEF CountedAs
<1>4. Six = AllCounted
  <2>1. \A r \in AllCounted : answer[r] \in Codes
    BY DEF AllCounted, Counted, Shape, ShapeOf, Waiting, TypeInt
  <2>. QED  BY <2>1 DEF AllCounted, CountedAs, Codes
<1>. HIDE DEF One, Two, Three, Four, Five, Six
<1>5. Cardinality(Two) = Cardinality(One) + Cardinality(CountedAs("invalid"))
  BY <1>2, <1>3, CardinalityUnion DEF One, Two
<1>6. Cardinality(Three) = Cardinality(Two) + Cardinality(CountedAs("500"))
  BY <1>2, <1>3, CardinalityUnion DEF One, Two, Three
<1>7. Cardinality(Four) = Cardinality(Three) + Cardinality(CountedAs("504"))
  BY <1>2, <1>3, CardinalityUnion DEF One, Two, Three, Four
<1>8. Cardinality(Five) = Cardinality(Four) + Cardinality(CountedAs("413"))
  BY <1>2, <1>3, CardinalityUnion DEF One, Two, Three, Four, Five
<1>9. Cardinality(Six) = Cardinality(Five) + Cardinality(CountedAs("429"))
  BY <1>2, <1>3, CardinalityUnion DEF One, Two, Three, Four, Five, Six
<1>10. /\ requestsTotal["handler"] = Cardinality(One)
       /\ requestsTotal["invalid"] = Cardinality(CountedAs("invalid"))
       /\ requestsTotal["500"] = Cardinality(CountedAs("500"))
       /\ requestsTotal["504"] = Cardinality(CountedAs("504"))
       /\ requestsTotal["413"] = Cardinality(CountedAs("413"))
       /\ requestsTotal["429"] = Cardinality(CountedAs("429"))
  BY DEF CountedOnce, Codes, One
<1>. QED  BY <1>4, <1>5, <1>6, <1>7, <1>8, <1>9, <1>10 DEF Total

(* At any one moment the instruments add up: what was observed was counted, *)
(* and what was counted and not observed is still inside.                   *)
THEOREM InstrumentsSafe == Spec => []InstrumentsAddUp
<1>1. IInv => InstrumentsAddUp
  <2>. SUFFICES ASSUME IInv  PROVE InstrumentsAddUp
    OBVIOUS
  <2>. DEFINE late == AllCounted \ AllObserved
  <2>1. Total = Cardinality(AllCounted)  BY TotalIsCounted DEF IInv
  <2>2. durations = Cardinality(AllObserved) /\ inFlight = Cardinality(Inside)
    BY DEF IInv, CountedOnce, GaugeConserved
  <2>3. /\ AllObserved \subseteq AllCounted /\ AllCounted \subseteq Requests
        /\ Inside \subseteq Requests /\ late \subseteq Inside
    BY DEF AllObserved, AllCounted, Observed, Counted, Inside, Left
  <2>4. Cardinality(AllObserved) <= Cardinality(AllCounted)
    BY <2>3, CardinalityLeq
  <2>5. Cardinality(late) <= Cardinality(Inside)  BY <2>3, CardinalityLeq
  <2>6. Cardinality(AllCounted) = Cardinality(AllObserved) + Cardinality(late)
    <3>1. AllCounted = AllObserved \cup late /\ AllObserved \cap late = {}
      BY <2>3
    <3>2. AllObserved \in SUBSET Requests /\ late \in SUBSET Requests
      BY <2>3
    <3>. HIDE DEF late
    <3>. QED  BY <3>1, <3>2, CardinalityUnion
  <2>7. /\ Cardinality(AllObserved) \in Nat /\ Cardinality(late) \in Nat
        /\ Cardinality(Inside) \in Nat
    BY <2>3, CardinalityNat
  <2>. HIDE DEF late
  <2>. QED  BY <2>1, <2>2, <2>4, <2>5, <2>6, <2>7 DEF InstrumentsAddUp
<1>. QED  BY <1>1, Invariance, PTL

(* Clients are told what Handlers did, and panics are masked and counted.   *)
THEOREM AnswersSafe == Spec => []AnswerIsResult
<1>1. IInv => AnswerIsResult
  BY DEF IInv, Shape, ShapeOf, PanicsCounted, AnswerIsResult
<1>. QED  BY <1>1, Invariance, PTL

(* A Handler nobody waits for has been told to stop.                        *)
THEOREM AbandonedSafe == Spec => []AbandonedIsCancelled
<1>1. IInv => AbandonedIsCancelled
  BY DEF IInv, Shape, ShapeOf, AbandonedIsCancelled
<1>. QED  BY <1>1, Invariance, PTL

(* Whoever waits is woken by something that has not happened yet, and the   *)
(* deferred release, which receives from the channel, never blocks on it.   *)
THEOREM NobodyWaitsSafe == Spec => []NobodyWaitsInVain
<1>1. IInv => NobodyWaitsInVain
  <2>. SUFFICES ASSUME IInv, NEW r \in Requests
                PROVE  /\ pc[r] = "parked" => /\ handler[r] \in {"running", "returned"}
                                             /\ ctx[r] = "live"
                       /\ pc[r] = "inline" => handler[r] = "running"
                       /\ pc[r] = "release" => sem > 0
    BY DEF NobodyWaitsInVain
  <2>1. TypeInt /\ ShapeOf(r) /\ sem = Cardinality(Holders)
    BY DEF IInv, Shape, SlotsConserved
  <2>2. ASSUME pc[r] = "release"  PROVE sem > 0
    <3>1. {r} \subseteq Holders /\ Holders \subseteq Requests
      BY <2>1, <2>2 DEF ShapeOf, Holders
    <3>2. Cardinality({r}) <= Cardinality(Holders)
      BY <3>1, CardinalityLeq
    <3>. QED  BY <2>1, <3>2, FS_Singleton, SMTT(30) DEF TypeInt
  <2>3. ASSUME pc[r] = "parked"
        PROVE  handler[r] \in {"running", "returned"} /\ ctx[r] = "live"
    <3>1. handler[r] \in {"none", "running", "returned", "ended"}
      BY <2>1 DEF TypeInt
    <3>2. handler[r] \notin {"none", "ended"} /\ ctx[r] = "live"
      BY <2>1, <2>3 DEF ShapeOf, Waiting
    <3>. QED  BY <3>1, <3>2
  <2>4. ASSUME pc[r] = "inline"  PROVE handler[r] = "running"
    BY <2>1, <2>4 DEF ShapeOf, Waiting
  <2>. QED  BY <2>2, <2>3, <2>4
<1>. QED  BY <1>1, Invariance, PTL

(* With the timeout disabled the limit bounds the Handlers that run.        *)
THEOREM RunningSafe ==
  ASSUME ~ TimeoutOn
  PROVE  Spec => []RunningWithinLimit
<1>1. IInv => RunningWithinLimit
  <2>. SUFFICES ASSUME IInv, Limited  PROVE RunningWithinLimit
    BY DEF RunningWithinLimit
  <2>. DEFINE running == {r \in Requests : handler[r] = "running"}
  <2>1. running \subseteq Holders
    BY DEF IInv, Shape, ShapeOf, Holders, HoldsSlot
  <2>2. IsFiniteSet(Holders)  BY RequestsFinite, FS_Subset DEF Holders
  <2>3. Cardinality(running) <= Cardinality(Holders)
    BY <2>1, <2>2, FS_Subset
  <2>4. Cardinality(running) \in Nat /\ Cardinality(Holders) \in Nat
    BY CardinalityNat DEF Holders
  <2>. QED
    BY <2>3, <2>4, LimitIsInt DEF IInv, SlotsConserved, RunningWithinLimit
<1>. QED  BY <1>1, Invariance, PTL

-----------------------------------------------------------------------------
(* The chain implements the abstract limiter: it admits only below the      *)
(* limit, sheds only at it, and lets a request in and out at most once.     *)
THEOREM LimiterImplemented ==
  ASSUME Limited
  PROVE  Spec => ImplementsLimiter
<1>. DEFINE phase == [r \in Requests |-> PhaseOf(r)]
<1>1. Init => L!Init
  BY DEF Init, L!Init, PhaseOf
<1>2. IInv /\ [Next]_vars => [L!Next]_phase
  <2>. SUFFICES ASSUME IInv, NEW r \in Requests, Step(r)
                PROVE  L!Next \/ UNCHANGED phase
    BY DEF Next, vars, goroutines, PhaseOf, HoldsSlot
  <2>1. TypeInt /\ Shape /\ ShapeOf(r)  BY DEF IInv, Shape
  <2>2. L!In = Holders
    BY DEF L!In, PhaseOf, Holders, HoldsSlot
  <2>3. L!Cardinality(L!In) = sem /\ sem <= MaxConcurrency
    <3>1. L!Cardinality(Holders) = Cardinality(Holders)
      BY DEF Cardinality, L!Cardinality
    <3>. QED  BY <2>2, <3>1 DEF IInv, SlotsConserved
  <2>4. CASE Acquire(r)
    <3>1. phase[r] = "before" /\ phase' = [phase EXCEPT ![r] = "in"]
      BY <2>1, <2>4 DEF Acquire, Go, TypeInt, PhaseOf, HoldsSlot
    <3>2. L!Enter(r)  BY <2>3, <2>4, <3>1 DEF Acquire, L!Enter
    <3>. QED  BY <3>2 DEF L!Next
  <2>5. CASE Shed(r)
    <3>1. phase[r] = "before" /\ phase' = [phase EXCEPT ![r] = "shed"]
      BY <2>1, <2>5 DEF Shed, Answer, Go, TypeInt, PhaseOf, HoldsSlot
    <3>2. sem = MaxConcurrency
      BY <2>1, <2>3, <2>5, LimitIsInt DEF Shed, TypeInt
    <3>3. L!TurnAway(r)  BY <2>3, <3>1, <3>2 DEF L!TurnAway
    <3>. QED  BY <3>3 DEF L!Next
  <2>6. CASE Release(r)
    <3>1. phase[r] = "in" /\ phase' = [phase EXCEPT ![r] = "out"]
      BY <2>1, <2>6 DEF Release, Go, TypeInt, PhaseOf, HoldsSlot, AfterLimiter,
                        ShapeOf
    <3>2. L!Exit(r)  BY <3>1 DEF L!Exit
    <3>. QED  BY <3>2 DEF L!Next
  <2>7. ASSUME ~ Acquire(r), ~ Shed(r), ~ Release(r)
        PROVE  UNCHANGED phase
    <3>. SUFFICES ASSUME NEW s \in Requests  PROVE PhaseOf(s)' = PhaseOf(s)
      OBVIOUS
    <3>. QED
      BY <2>1, <2>7
         DEF TypeInt, ShapeOf, Waiting, PhaseOf, HoldsSlot, Step, ServerStep,
         HandlerStep, Arrive, ReadFails, Invoke, HandlerReturns, SendResult,
         SelectResult, SelectDone, Park, Deadline, Disconnect, CloseDone,
         WriteHeader, WriteBody, Count, Observe, Leave, Answer, Go, CodeOf,
         Results, AfterWrite, AfterLimiter, metrics
  <2>. QED  BY <2>4, <2>5, <2>6, <2>7
<1>. QED  BY <1>1, <1>2, Invariance, PTL DEF Spec, ImplementsLimiter, L!Spec
(* A step of a request leaves the other requests as they are.               *)
LEMMA OthersUntouched ==
  ASSUME TypeInt, NEW r \in Requests, Step(r), NEW q \in Requests, q # r
  PROVE  UNCHANGED <<pc[q], handler[q], result[q], ctx[q], answer[q]>>
BY DEF TypeInt, Step, ServerStep, HandlerStep, Arrive, Acquire, Shed, ReadFails,
   Invoke, HandlerReturns, SendResult, SelectResult, SelectDone, Park, Deadline,
   Disconnect, CloseDone, WriteHeader, WriteBody, Release, Count, Observe, Leave,
   Answer, Go, Cancelled, metrics

(* The chain keeps the contract of a call for every request: no Handler     *)
(* twice, none for a refused request, no answer but what the Handler        *)
(* returned or, told to stop before, a 504, and never a second answer.      *)
THEOREM CallImplemented == Spec => ImplementsCall
<1>1. Init => \A r \in Requests : Of(r)!Init
  BY DEF Init, Of!Init, CtxDone, Left
<1>2. IInv /\ [Next]_vars
        => [\A r \in Requests : [Of(r)!Next]_(Of(r)!vars)]_vars
  <2>. SUFFICES ASSUME IInv, NEW r \in Requests, Step(r), NEW q \in Requests
                PROVE  [Of(q)!Next]_(Of(q)!vars)
    BY DEF Next
  <2>0. TypeInt /\ Shape /\ ShapeOf(r)  BY DEF IInv, Shape
  <2>1. CASE q # r
    <3>1. UNCHANGED <<pc[q], handler[q], result[q], ctx[q], answer[q]>>
      BY <2>0, <2>1, OthersUntouched
    <3>. QED  BY <3>1 DEF Of!vars, CtxDone, Left
  <2>2. CASE q = r
    <3>. DEFINE Goal == [Of(q)!Next]_(Of(q)!vars)
    <3>. USE <2>0 DEF TypeInt, ShapeOf, Waiting, CtxDone, Left, Go, Answer, Cancelled,
             CodeOf, Of!Masked, Of!vars, metrics, Results
    <3>1. CASE Arrive(r)       BY <3>1 DEF Arrive
    <3>2. CASE Acquire(r)      BY <3>2 DEF Acquire
    <3>3. CASE Shed(r)
      <4>1. Of(r)!Refuse  BY <3>3 DEF Shed, Of!Refuse
      <4>. QED  BY <2>2, <4>1 DEF Of!Next
    <3>4. CASE ReadFails(r)
      <4>1. Of(r)!Refuse  BY <3>4 DEF ReadFails, Of!Refuse
      <4>. QED  BY <2>2, <4>1 DEF Of!Next
    <3>5. CASE Invoke(r)
      <4>1. Of(r)!Start  BY <3>5 DEF Invoke, Of!Start
      <4>. QED  BY <2>2, <4>1 DEF Of!Next
    <3>6. ASSUME NEW res \in Results, HandlerReturns(r, res)  PROVE Goal
      <4>1. Of(r)!Return  BY <3>6 DEF HandlerReturns, Of!Return
      <4>. QED  BY <2>2, <4>1 DEF Of!Next
    <3>7. CASE SendResult(r)
      <4>1. CASE pc[r] = "parked"
        <5>1. Of(r)!Reply  BY <3>7, <4>1 DEF SendResult, Of!Reply
        <5>. QED  BY <2>2, <5>1 DEF Of!Next
      <4>2. CASE pc[r] # "parked"  BY <3>7, <4>2 DEF SendResult
      <4>. QED  BY <4>1, <4>2
    <3>8. CASE SelectResult(r)
      <4>1. Of(r)!Reply  BY <3>8 DEF SelectResult, Of!Reply
      <4>. QED  BY <2>2, <4>1 DEF Of!Next
    <3>9. CASE SelectDone(r)
      <4>1. Of(r)!GiveUp  BY <3>9 DEF SelectDone, Of!GiveUp
      <4>. QED  BY <2>2, <4>1 DEF Of!Next
    <3>10. CASE Park(r)        BY <3>10 DEF Park
    <3>11. CASE Deadline(r) \/ Disconnect(r)
      <4>0. \E why \in {"deadline", "disconnect"} : CloseDone(r, why)
        BY <3>11 DEF Deadline, Disconnect
      <4>1. CASE pc[r] = "parked"
        <5>1. Of(r)!GiveUp  BY <4>0, <4>1 DEF CloseDone, Of!GiveUp
        <5>. QED  BY <2>2, <5>1 DEF Of!Next
      <4>2. CASE pc[r] # "parked"
        <5>1. Of(r)!Tell  BY <4>0, <4>2 DEF CloseDone, Of!Tell
        <5>. QED  BY <2>2, <5>1 DEF Of!Next
      <4>. QED  BY <4>1, <4>2
    <3>12. CASE WriteHeader(r)
      BY <3>12 DEF WriteHeader, AfterWrite, AfterLimiter
    <3>13. CASE WriteBody(r)
      BY <3>13 DEF WriteBody, AfterWrite, AfterLimiter
    <3>14. CASE Release(r)     BY <3>14 DEF Release, AfterLimiter
    <3>15. CASE Count(r)       BY <3>15 DEF Count
    <3>16. CASE Observe(r)     BY <3>16 DEF Observe
    <3>17. CASE Leave(r)
      <4>1. Of(r)!Finish  BY <3>17 DEF Leave, Of!Finish
      <4>. QED  BY <2>2, <4>1 DEF Of!Next
    <3>. QED
      BY <2>2, <3>1, <3>2, <3>3, <3>4, <3>5, <3>6, <3>7, <3>8, <3>9, <3>10, <3>11,
         <3>12, <3>13, <3>14, <3>15, <3>16, <3>17
         DEF Step, ServerStep, HandlerStep
  <2>. QED  BY <2>1, <2>2
<1>. QED  BY <1>1, <1>2, Invariance, PTL DEF Spec, ImplementsCall
=============================================================================
