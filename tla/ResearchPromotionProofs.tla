----------------------- MODULE ResearchPromotionProofs ----------------------
(***************************************************************************)
(* Proofs about ResearchPromotion for every number of threads, events and  *)
(* grants.  The inductive invariant Inv says what every saved and every    *)
(* stamped event has behind it.  The chain check of the apply compares     *)
(* time stamps alone; together they give the order in which the events     *)
(* were saved, as far as the code fixes it: preview and approval in either *)
(* order, then the confirmation, then the impact check.                    *)
(***************************************************************************)
EXTENDS ResearchPromotion, FiniteSetTheorems, SequenceTheorems, TLAPS

\* The events a thread's next event is an answer to are in the stream.
Follows(n, type) ==
    /\ type = "confirmed" => Has(n, "preview") /\ Has(n, "approved")
    /\ type = "impact" => Has(n, "confirmed")

\* An event that carries a receipt was stamped after the receipt was consumed.
Backed(e) ==
    e.trust # 0 => /\ e.trust \in DOMAIN receipts
                   /\ receipts[e.trust].at <= e.at

Told(e) ==
    e.type = "applied" => promotion # NoPromotion /\ e.trust = promotion.trust

\* Of every event of the stream.
EventInv(i) ==
    Backed(events[i]) /\ Told(events[i]) /\ Follows(i - 1, events[i].type)

\* Of a request: the event it is to save is as good as the stream's, what it
\* was allowed for is in the stream, and what it has read is a chain.
ThreadInv(t) ==
    /\ pc[t] = "saving" =>
          /\ Backed(request[t].event)
          /\ Told(request[t].event)
          /\ Follows(Len(events), request[t].event.type)
    /\ request[t].allowed =>
          /\ request[t].op = "confirm" => Follows(Len(events), "confirmed")
          /\ request[t].op = "impact_check" => Follows(Len(events), "impact")
    /\ pc[t] \in {"checking", "recording"} =>
          Chain(events, request[t].read, {}, request[t].trust)
    /\ pc[t] = "stamping" =>
          promotion # NoPromotion /\ request[t].trust = promotion.trust

\* Of the promotion: it names the chain that was read for it.
PromotionInv ==
    promotion # NoPromotion =>
        /\ Chain(events, promotion.read, {}, promotion.trust)
        /\ promotion.chain = {events[i].at : i \in 1 .. promotion.read}

\* Inductive: NextInv.
Inv ==
    /\ TypeOK
    /\ \A i \in DOMAIN events : EventInv(i)
    /\ \A t \in Threads : ThreadInv(t)
    /\ PromotionInv

-----------------------------------------------------------------------------
\* Types.

\* What TypeOK says of the requests, for stores of the given sizes.
Requests(g, r, n) ==
    [op : Operations \cup {"none"}, token : 0 .. g, allowed : BOOLEAN,
     trust : 0 .. r, read : 0 .. n, event : Event \cup {NoEvent}]

\* The stores only grow, so a request stays well typed.
LEMMA RequestsGrow ==
    ASSUME NEW g \in Nat, NEW r \in Nat, NEW n \in Nat,
           NEW g2 \in Nat, NEW r2 \in Nat, NEW n2 \in Nat,
           g <= g2, r <= r2, n <= n2
    PROVE  Requests(g, r, n) \subseteq Requests(g2, r2, n2)
<1>1. 0 .. g \subseteq 0 .. g2 /\ 0 .. r \subseteq 0 .. r2
      /\ 0 .. n \subseteq 0 .. n2
    OBVIOUS
<1>. QED
    BY <1>1, Zenon DEF Requests

\* An idle request is well typed whatever is stored.
LEMMA IdleTypes ==
    ASSUME NEW g \in Nat, NEW r \in Nat, NEW n \in Nat
    PROVE  Idle \in Requests(g, r, n)
BY DEF Idle, Requests

\* A request whose event alone is set.
LEMMA EventSet ==
    ASSUME NEW e, NEW n
    PROVE  [[op |-> "none", token |-> 0, allowed |-> FALSE, trust |-> 0,
             read |-> 0, event |-> n] EXCEPT !.event = e] =
               [op |-> "none", token |-> 0, allowed |-> FALSE, trust |-> 0,
                read |-> 0, event |-> e]
OBVIOUS

\* So is one that is about to save an event.
LEMMA StampedTypes ==
    ASSUME NEW g \in Nat, NEW r \in Nat, NEW n \in Nat, NEW e \in Event
    PROVE  /\ [Idle EXCEPT !.event = e] \in Requests(g, r, n)
           /\ [Idle EXCEPT !.event = e].event = e
           /\ [Idle EXCEPT !.event = e].allowed = FALSE
<1>1. [Idle EXCEPT !.event = e] =
          [op |-> "none", token |-> 0, allowed |-> FALSE, trust |-> 0,
           read |-> 0, event |-> e]
  <2>1. Idle = [op |-> "none", token |-> 0, allowed |-> FALSE, trust |-> 0,
                read |-> 0, event |-> NoEvent]
    BY DEF Idle
  <2>. QED
    BY <2>1, EventSet, Zenon
<1>2. [op |-> "none", token |-> 0, allowed |-> FALSE, trust |-> 0,
       read |-> 0, event |-> e] \in Requests(g, r, n)
    BY DEF Requests
<1>. QED
    BY <1>1, <1>2

\* TypeOK, its part about requests named, and the sizes it gives.
LEMMA Sizes ==
    ASSUME TypeOK
    PROVE  /\ Len(grants) \in Nat /\ Len(receipts) \in Nat /\ Len(events) \in Nat
           /\ request \in [Threads ->
                               Requests(Len(grants), Len(receipts), Len(events))]
           /\ DOMAIN events = 1 .. Len(events)
           /\ DOMAIN receipts = 1 .. Len(receipts)
           /\ DOMAIN grants = 1 .. Len(grants)
BY DEF TypeOK, Requests

\* The empty stores are well typed.
LEMMA InitTypes == Init => TypeOK
<1> SUFFICES ASSUME Init PROVE TypeOK
    OBVIOUS
<1>1. Len(grants) = 0 /\ Len(receipts) = 0 /\ Len(events) = 0
    BY DEF Init
<1>2. Idle \in Requests(Len(grants), Len(receipts), Len(events))
    BY <1>1, IdleTypes
<1>3. request \in [Threads -> Requests(Len(grants), Len(receipts), Len(events))]
    BY <1>2 DEF Init
<1>4. promotion \in [chain : SUBSET Nat, trust : 0 .. Len(receipts),
                     read : 0 .. Len(events)]
    BY <1>1 DEF Init, NoPromotion
<1>5. \A t \in Threads :
          /\ pc[t] = "idle" /\ request[t] = Idle
    BY DEF Init
<1>6. pc \in [Threads -> Places]
    BY DEF Init, Places
<1>7. changes \in 0 .. MaxChanges /\ failures \in 0 .. MaxFailures
    BY ResearchPromotionAssumption DEF Init
<1>8. Len(grants) <= MaxGrants
    BY <1>1, ResearchPromotionAssumption
<1>9. /\ clock \in Nat /\ events \in Seq(Event) /\ grants \in Seq(Nat)
      /\ receipts \in Seq([grant : 1 .. Len(grants), at : 0 .. clock])
      /\ fresh \in BOOLEAN /\ valid \in BOOLEAN
    BY EmptySeq DEF Init
<1>10. \A t \in Threads :
          /\ pc[t] = "idle" => request[t] = Idle
          /\ pc[t] = "saving" => request[t].event \in Event
          /\ pc[t] \notin {"idle", "saving"} => request[t].op \in Operations
    BY <1>5
<1>. QED
    BY <1>3, <1>4, <1>6, <1>7, <1>8, <1>9, <1>10 DEF TypeOK, Requests

\* A step of one thread that changes only what it is doing.
LEMMA ThreadTypes ==
    ASSUME TypeOK, NEW t \in Threads, NEW place \in Places,
           NEW q \in Requests(Len(grants), Len(receipts), Len(events)),
           pc' = [pc EXCEPT ![t] = place],
           request' = [request EXCEPT ![t] = q],
           UNCHANGED <<clock, events, grants, receipts, promotion, fresh,
                       valid, changes, failures>>,
           place = "idle" => q = Idle,
           place = "saving" => q.event \in Event,
           place \notin {"idle", "saving"} => q.op \in Operations
    PROVE  TypeOK'
<1>1. request' \in
          [Threads -> Requests(Len(grants), Len(receipts), Len(events))]
    BY Sizes
<1>2. pc' \in [Threads -> Places]
    BY DEF TypeOK
<1>3. \A u \in Threads :
          /\ pc'[u] = "idle" => request'[u] = Idle
          /\ pc'[u] = "saving" => request'[u].event \in Event
          /\ pc'[u] \notin {"idle", "saving"} => request'[u].op \in Operations
    BY Sizes DEF TypeOK
<1>. QED
    BY <1>1, <1>2, <1>3 DEF TypeOK, Requests

\* The end of a request.
LEMMA FinishTypes ==
    ASSUME TypeOK, NEW t \in Threads, Finish(t),
           UNCHANGED <<clock, events, grants, receipts, promotion, fresh,
                       valid, changes, failures>>
    PROVE  TypeOK'
<1>1. Idle \in Requests(Len(grants), Len(receipts), Len(events))
    BY Sizes, IdleTypes
<1>2. "idle" \in Places
    BY DEF Places
<1>. QED
    BY <1>1, <1>2, ThreadTypes DEF Finish, Goto

\* The event a thread stamps, and what that leaves in its request.
LEMMA StampFacts ==
    ASSUME TypeOK, NEW t \in Threads, NEW type \in EventTypes, Stamp(t, type)
    PROVE  /\ request'[t].event = [type |-> type, at |-> clock,
                                   trust |-> request[t].trust]
           /\ request'[t].event \in Event
           /\ request'[t].allowed = FALSE
           /\ request'[t] \in Requests(Len(grants), Len(receipts), Len(events))
           /\ pc'[t] = "saving"
           /\ \A u \in Threads \ {t} : request'[u] = request[u] /\ pc'[u] = pc[u]
<1> DEFINE e == [type |-> type, at |-> clock, trust |-> request[t].trust]
<1>1. request[t].trust \in Nat
  <2>1. request[t] \in Requests(Len(grants), Len(receipts), Len(events))
    BY Sizes
  <2>. QED
    BY <2>1, Sizes DEF Requests
<1>2. e \in Event
    BY <1>1 DEF Event, TypeOK
<1>3. request' = [request EXCEPT ![t] = [Idle EXCEPT !.event = e]]
    BY DEF Stamp
<1> HIDE DEF e
<1>4. /\ [Idle EXCEPT !.event = e] \in
             Requests(Len(grants), Len(receipts), Len(events))
      /\ [Idle EXCEPT !.event = e].event = e
      /\ [Idle EXCEPT !.event = e].allowed = FALSE
    BY <1>2, Sizes, StampedTypes
<1>5. request \in [Threads -> Requests(Len(grants), Len(receipts), Len(events))]
    BY Sizes
<1>6. request'[t] = [Idle EXCEPT !.event = e]
    BY <1>3, <1>5
<1>7. \A u \in Threads \ {t} : request'[u] = request[u]
    BY <1>3, <1>5
<1>8. pc'[t] = "saving" /\ \A u \in Threads \ {t} : pc'[u] = pc[u]
    BY DEF Stamp, Goto, TypeOK
<1>. QED
    BY <1>2, <1>4, <1>6, <1>7, <1>8 DEF e

\* Stamping an event leaves everything well typed.
LEMMA StampTypes ==
    ASSUME TypeOK, NEW t \in Threads, NEW type \in EventTypes, Stamp(t, type)
    PROVE  TypeOK'
<1> DEFINE R == Requests(Len(grants), Len(receipts), Len(events))
<1>1. request' \in [Threads -> R]
  <2>1. request'[t] \in R
    BY StampFacts
  <2>2. request \in [Threads -> R]
    BY Sizes
  <2>3. \E q : request' = [request EXCEPT ![t] = q]
    BY DEF Stamp
  <2>. QED
    BY <2>1, <2>2, <2>3
<1>2. clock' = clock + 1 /\ clock \in Nat
    BY DEF Stamp, TypeOK
<1>3. receipts \in Seq([grant : 1 .. Len(grants), at : 0 .. clock'])
  <2>1. [grant : 1 .. Len(grants), at : 0 .. clock] \subseteq
            [grant : 1 .. Len(grants), at : 0 .. clock']
    BY <1>2
  <2>2. receipts \in Seq([grant : 1 .. Len(grants), at : 0 .. clock])
    BY DEF TypeOK
  <2>. QED
    BY <2>1, <2>2, SeqMonotonic, Zenon
<1>4. pc' \in [Threads -> Places]
    BY DEF Stamp, Goto, TypeOK, Places
<1>5. \A u \in Threads :
          /\ pc'[u] = "idle" => request'[u] = Idle
          /\ pc'[u] = "saving" => request'[u].event \in Event
          /\ pc'[u] \notin {"idle", "saving"} => request'[u].op \in Operations
    BY StampFacts DEF TypeOK
<1>6. UNCHANGED <<events, grants, receipts, promotion, fresh, valid, changes,
                  failures>>
    BY DEF Stamp
<1>. QED
    BY <1>1, <1>2, <1>3, <1>4, <1>5, <1>6 DEF TypeOK, Requests

\* A stream or a store that is appended to only grows.
LEMMA Appended ==
    ASSUME NEW S, NEW s \in Seq(S), NEW e \in S
    PROVE  /\ Append(s, e) \in Seq(S)
           /\ Len(Append(s, e)) = Len(s) + 1
           /\ \A i \in 1 .. Len(s) : Append(s, e)[i] = s[i]
           /\ Append(s, e)[Len(s) + 1] = e
OBVIOUS

\* A request is the record of its fields.
LEMMA RequestFields ==
    ASSUME NEW g, NEW r, NEW n, NEW q \in Requests(g, r, n)
    PROVE  q = [op |-> q.op, token |-> q.token, allowed |-> q.allowed,
                trust |-> q.trust, read |-> q.read, event |-> q.event]
BY DEF Requests

LEMMA TrustReplaced ==
    ASSUME NEW o, NEW k, NEW a, NEW r, NEW n, NEW e, NEW x
    PROVE  [[op |-> o, token |-> k, allowed |-> a, trust |-> r, read |-> n,
             event |-> e] EXCEPT !.trust = x] =
               [op |-> o, token |-> k, allowed |-> a, trust |-> x, read |-> n,
                event |-> e]
OBVIOUS

LEMMA ReadReplaced ==
    ASSUME NEW o, NEW k, NEW a, NEW r, NEW n, NEW e, NEW x
    PROVE  [[op |-> o, token |-> k, allowed |-> a, trust |-> r, read |-> n,
             event |-> e] EXCEPT !.read = x] =
               [op |-> o, token |-> k, allowed |-> a, trust |-> r, read |-> x,
                event |-> e]
OBVIOUS

\* A request whose receipt is set.
LEMMA TrustSet ==
    ASSUME NEW g, NEW r, NEW n, NEW q \in Requests(g, r, n), NEW x \in Nat
    PROVE  /\ \A y : x \in 0 .. y =>
                  [q EXCEPT !.trust = x] \in Requests(g, y, n)
           /\ [q EXCEPT !.trust = x].op = q.op
           /\ [q EXCEPT !.trust = x].allowed = q.allowed
<1>1. PICK o \in Operations \cup {"none"}, k \in 0 .. g, a \in BOOLEAN,
           v \in 0 .. r, m \in 0 .. n, e \in Event \cup {NoEvent} :
          q = [op |-> o, token |-> k, allowed |-> a, trust |-> v, read |-> m,
               event |-> e]
    BY RequestFields, Zenon DEF Requests
<1>2. [q EXCEPT !.trust = x] =
          [op |-> o, token |-> k, allowed |-> a, trust |-> x, read |-> m,
           event |-> e]
  <2> DEFINE w == [op |-> o, token |-> k, allowed |-> a, trust |-> v,
                   read |-> m, event |-> e]
  <2>1. [w EXCEPT !.trust = x] =
            [op |-> o, token |-> k, allowed |-> a, trust |-> x, read |-> m,
             event |-> e]
    BY TrustReplaced
  <2>2. q = w
    BY <1>1
  <2> HIDE DEF w
  <2>. QED
    BY <2>1, <2>2
<1>3. \A y : x \in 0 .. y =>
          [op |-> o, token |-> k, allowed |-> a, trust |-> x, read |-> m,
           event |-> e] \in Requests(g, y, n)
    BY DEF Requests
<1>4. q.op = o /\ q.allowed = a
    BY <1>1
<1>. QED
    BY <1>2, <1>3, <1>4

\* A request that has read the stream.
LEMMA ReadSet ==
    ASSUME NEW g, NEW r, NEW n, NEW q \in Requests(g, r, n), NEW x \in 0 .. n
    PROVE  /\ [q EXCEPT !.read = x] \in Requests(g, r, n)
           /\ [q EXCEPT !.read = x].op = q.op
           /\ [q EXCEPT !.read = x].allowed = q.allowed
           /\ [q EXCEPT !.read = x].trust = q.trust
           /\ [q EXCEPT !.read = x].read = x
<1>1. PICK o \in Operations \cup {"none"}, k \in 0 .. g, a \in BOOLEAN,
           v \in 0 .. r, m \in 0 .. n, e \in Event \cup {NoEvent} :
          q = [op |-> o, token |-> k, allowed |-> a, trust |-> v, read |-> m,
               event |-> e]
    BY RequestFields, Zenon DEF Requests
<1>2. [q EXCEPT !.read = x] =
          [op |-> o, token |-> k, allowed |-> a, trust |-> v, read |-> x,
           event |-> e]
  <2> DEFINE w == [op |-> o, token |-> k, allowed |-> a, trust |-> v,
                   read |-> m, event |-> e]
  <2>1. [w EXCEPT !.read = x] =
            [op |-> o, token |-> k, allowed |-> a, trust |-> v, read |-> x,
             event |-> e]
    BY ReadReplaced
  <2>2. q = w
    BY <1>1
  <2> HIDE DEF w
  <2>. QED
    BY <2>1, <2>2
<1>3. [op |-> o, token |-> k, allowed |-> a, trust |-> v, read |-> x,
       event |-> e] \in Requests(g, r, n)
    BY DEF Requests
<1>4. q.op = o /\ q.allowed = a /\ q.trust = v
    BY <1>1
<1>. QED
    BY <1>2, <1>3, <1>4

\* Every operation is allowed or not.
LEMMA AllowedBoolean == \A op \in Operations : Allowed(op) \in BOOLEAN
BY DEF Allowed, Operations, Ready, Has, ReviewApproved, NewestIs

-----------------------------------------------------------------------------
\* One step per action.

LEMMA LoadTypes ==
    ASSUME TypeOK, NEW t \in Threads, NEW op \in Operations,
           NEW token \in {0} \cup DOMAIN grants, Load(t, op, token)
    PROVE  TypeOK'
<1> DEFINE q == [op |-> op, token |-> token, allowed |-> Allowed(op),
                 trust |-> 0, read |-> 0, event |-> NoEvent]
           place == IF op \in Trusted THEN "loaded" ELSE "trusted"
<1>1. token \in 0 .. Len(grants) /\ Allowed(op) \in BOOLEAN
    BY Sizes, AllowedBoolean
<1>2. q \in Requests(Len(grants), Len(receipts), Len(events)) /\ q.op = op
    BY <1>1, Sizes DEF Requests
<1>3. place \in Places /\ place \notin {"idle", "saving"}
    BY DEF Places
<1>4. /\ pc' = [pc EXCEPT ![t] = place]
      /\ request' = [request EXCEPT ![t] = q]
      /\ UNCHANGED <<clock, events, grants, receipts, promotion, fresh,
                     valid, changes, failures>>
    BY DEF Load, Goto
<1> HIDE DEF q, place
<1>. QED
    BY <1>2, <1>3, <1>4, ThreadTypes

LEMMA FindReceiptTypes ==
    ASSUME TypeOK, NEW t \in Threads, FindReceipt(t)
    PROVE  TypeOK'
<1>1. PICK r \in {0} \cup DOMAIN receipts :
          request' = [request EXCEPT ![t].trust = r]
    BY Zenon DEF FindReceipt
<1> DEFINE q == [request[t] EXCEPT !.trust = r]
<1>2. /\ request[t] \in Requests(Len(grants), Len(receipts), Len(events))
      /\ r \in Nat /\ r \in 0 .. Len(receipts)
    BY Sizes
<1>3. /\ q \in Requests(Len(grants), Len(receipts), Len(events))
      /\ q.op = request[t].op
    BY <1>2, Sizes, TrustSet
<1>4. q.op \in Operations
    BY <1>3 DEF TypeOK, FindReceipt
<1>5. /\ pc' = [pc EXCEPT ![t] = "trusted"]
      /\ request' = [request EXCEPT ![t] = q]
      /\ UNCHANGED <<clock, events, grants, receipts, promotion, fresh,
                     valid, changes, failures>>
    BY <1>1 DEF FindReceipt, Goto
<1> HIDE DEF q
<1>. QED
    BY <1>3, <1>4, <1>5, ThreadTypes DEF Places

LEMMA ReadStreamTypes ==
    ASSUME TypeOK, NEW t \in Threads, ReadStream(t)
    PROVE  TypeOK'
<1> DEFINE q == [request[t] EXCEPT !.read = Len(events)]
<1>1. request[t] \in Requests(Len(grants), Len(receipts), Len(events))
      /\ Len(events) \in 0 .. Len(events)
    BY Sizes
<1>2. /\ q \in Requests(Len(grants), Len(receipts), Len(events))
      /\ q.op = request[t].op
    BY <1>1, Sizes, ReadSet
<1>3. q.op \in Operations
    BY <1>2 DEF ReadStream, Operations
<1>4. /\ pc' = [pc EXCEPT ![t] = "reading"]
      /\ request' = [request EXCEPT ![t] = q]
      /\ UNCHANGED <<clock, events, grants, receipts, promotion, fresh,
                     valid, changes, failures>>
    BY DEF ReadStream, Goto
<1> HIDE DEF q
<1>. QED
    BY <1>2, <1>3, <1>4, ThreadTypes DEF Places

\* Going on to the next place of the apply, nothing else.
LEMMA GotoTypes ==
    ASSUME TypeOK, NEW t \in Threads, NEW place \in Places,
           place \notin {"idle", "saving"},
           pc[t] \notin {"idle", "saving"}, Goto(t, place),
           UNCHANGED <<clock, events, grants, receipts, promotion, fresh,
                       valid, request, changes, failures>>
    PROVE  TypeOK'
<1>1. request[t] \in Requests(Len(grants), Len(receipts), Len(events))
      /\ request' = [request EXCEPT ![t] = request[t]]
    BY Sizes
<1>2. request[t].op \in Operations
    BY DEF TypeOK
<1>. QED
    BY <1>1, <1>2, ThreadTypes DEF Goto

LEMMA IssueGrantTypes == TypeOK /\ IssueGrant => TypeOK'
<1> SUFFICES ASSUME TypeOK, IssueGrant PROVE TypeOK'
    OBVIOUS
<1>1. PICK ttl \in Lifetimes : grants' = Append(grants, clock + ttl)
    BY DEF IssueGrant
<1>2. clock + ttl \in Nat
    BY ResearchPromotionAssumption DEF TypeOK
<1>3. grants' \in Seq(Nat) /\ Len(grants') = Len(grants) + 1
    BY <1>1, <1>2, Appended DEF TypeOK
<1>4. Len(grants') <= MaxGrants
    BY <1>3, Sizes, ResearchPromotionAssumption DEF IssueGrant
<1>5. receipts \in Seq([grant : 1 .. Len(grants'), at : 0 .. clock])
  <2>1. [grant : 1 .. Len(grants), at : 0 .. clock] \subseteq
            [grant : 1 .. Len(grants'), at : 0 .. clock]
    BY <1>3, Sizes
  <2>2. receipts \in Seq([grant : 1 .. Len(grants), at : 0 .. clock])
    BY DEF TypeOK
  <2>. QED
    BY <2>1, <2>2, SeqMonotonic, Zenon
<1>6. request \in [Threads ->
                       Requests(Len(grants'), Len(receipts), Len(events))]
  <2>1. Requests(Len(grants), Len(receipts), Len(events)) \subseteq
            Requests(Len(grants'), Len(receipts), Len(events))
    <3>1. /\ Len(grants') \in Nat /\ Len(grants) <= Len(grants')
          /\ Len(receipts) <= Len(receipts) /\ Len(events) <= Len(events)
      BY <1>3, Sizes
    <3>. QED
      BY <3>1, Sizes, RequestsGrow, Zenon
  <2>. QED
    BY <2>1, Sizes
<1>7. UNCHANGED <<clock, events, receipts, promotion, fresh, valid, request,
                  pc, changes, failures>>
    BY DEF IssueGrant
<1>. QED
    BY <1>3, <1>4, <1>5, <1>6, <1>7 DEF TypeOK, Requests

LEMMA ConsumeGrantTypes ==
    ASSUME TypeOK, NEW t \in Threads, ConsumeGrant(t)
    PROVE  TypeOK'
<1> DEFINE S == [grant : 1 .. Len(grants), at : 0 .. clock]
           e == [grant |-> request[t].token, at |-> clock]
           q == [request[t] EXCEPT !.trust = Len(receipts')]
<1>1. request[t] \in Requests(Len(grants), Len(receipts), Len(events))
    BY Sizes
<1>2. request[t].token \in 1 .. Len(grants)
    BY <1>1, Sizes DEF ConsumeGrant, Requests
<1>3. e \in S
    BY <1>2 DEF TypeOK
<1>4. receipts' = Append(receipts, e)
    BY DEF ConsumeGrant
<1>5. receipts' \in Seq(S) /\ Len(receipts') = Len(receipts) + 1
  <2>1. receipts \in Seq(S)
    BY DEF TypeOK
  <2> HIDE DEF S, e
  <2>. QED
    BY <1>3, <1>4, <2>1, Appended
<1>6. /\ q \in Requests(Len(grants), Len(receipts'), Len(events))
      /\ q.op = request[t].op
  <2> DEFINE r == Len(receipts')
  <2>1. r \in Nat /\ r \in 0 .. r
    BY <1>5, Sizes
  <2> HIDE DEF r
  <2>2. /\ [request[t] EXCEPT !.trust = r] \in
               Requests(Len(grants), r, Len(events))
        /\ [request[t] EXCEPT !.trust = r].op = request[t].op
    BY <1>1, <2>1, TrustSet
  <2>. QED
    BY <2>2 DEF r
<1>7. q.op \in Operations
    BY <1>6 DEF ConsumeGrant, TypeOK
<1>8. request' = [request EXCEPT ![t] = q]
    BY DEF ConsumeGrant
<1>9. request \in [Threads ->
                       Requests(Len(grants), Len(receipts'), Len(events))]
  <2>1. Requests(Len(grants), Len(receipts), Len(events)) \subseteq
            Requests(Len(grants), Len(receipts'), Len(events))
    <3>1. /\ Len(receipts') \in Nat /\ Len(receipts) <= Len(receipts')
          /\ Len(grants) <= Len(grants) /\ Len(events) <= Len(events)
      BY <1>5, Sizes
    <3>. QED
      BY <3>1, Sizes, RequestsGrow, Zenon
  <2>. QED
    BY <2>1, Sizes
<1> HIDE DEF q
<1>10. request' \in [Threads ->
                         Requests(Len(grants), Len(receipts'), Len(events))]
    BY <1>6, <1>8, <1>9
<1>11. pc' = [pc EXCEPT ![t] = "trusted"] /\ pc' \in [Threads -> Places]
    BY DEF ConsumeGrant, Goto, TypeOK, Places
<1>12. \A u \in Threads :
          /\ pc'[u] = "idle" => request'[u] = Idle
          /\ pc'[u] = "saving" => request'[u].event \in Event
          /\ pc'[u] \notin {"idle", "saving"} => request'[u].op \in Operations
    BY <1>7, <1>8, <1>9, <1>11 DEF TypeOK
<1>13. promotion \in [chain : SUBSET Nat, trust : 0 .. Len(receipts'),
                      read : 0 .. Len(events)]
  <2>1. 0 .. Len(receipts) \subseteq 0 .. Len(receipts')
    BY <1>5, Sizes
  <2>. QED
    BY <2>1, Zenon DEF TypeOK
<1>14. UNCHANGED <<clock, events, grants, promotion, fresh, valid, changes,
                   failures>>
    BY DEF ConsumeGrant
<1>. QED
    BY <1>5, <1>10, <1>11, <1>12, <1>13, <1>14 DEF TypeOK, Requests

LEMMA SaveEventTypes ==
    ASSUME TypeOK, NEW t \in Threads, SaveEvent(t)
    PROVE  TypeOK'
<1>1. request[t].event \in Event
    BY DEF TypeOK, SaveEvent
<1>2. events' \in Seq(Event) /\ Len(events') = Len(events) + 1
    BY <1>1, Appended DEF SaveEvent, TypeOK
<1>3. request \in [Threads ->
                       Requests(Len(grants), Len(receipts), Len(events'))]
  <2>1. Requests(Len(grants), Len(receipts), Len(events)) \subseteq
            Requests(Len(grants), Len(receipts), Len(events'))
    BY <1>2, Sizes, RequestsGrow
  <2>. QED
    BY <2>1, Sizes
<1>4. Idle \in Requests(Len(grants), Len(receipts), Len(events'))
    BY <1>2, Sizes, IdleTypes
<1>5. request' = [request EXCEPT ![t] = Idle] /\ pc' = [pc EXCEPT ![t] = "idle"]
    BY DEF SaveEvent, Finish, Goto
<1>6. request' \in [Threads ->
                        Requests(Len(grants), Len(receipts), Len(events'))]
    BY <1>3, <1>4, <1>5
<1>7. pc' \in [Threads -> Places]
    BY <1>5 DEF TypeOK, Places
<1>8. \A u \in Threads :
          /\ pc'[u] = "idle" => request'[u] = Idle
          /\ pc'[u] = "saving" => request'[u].event \in Event
          /\ pc'[u] \notin {"idle", "saving"} => request'[u].op \in Operations
    BY <1>3, <1>5 DEF TypeOK
<1>9. promotion \in [chain : SUBSET Nat, trust : 0 .. Len(receipts),
                     read : 0 .. Len(events')]
  <2>1. 0 .. Len(events) \subseteq 0 .. Len(events')
    BY <1>2, Sizes
  <2>. QED
    BY <2>1, Zenon DEF TypeOK
<1>10. UNCHANGED <<clock, grants, receipts, promotion, fresh, valid, changes,
                   failures>>
    BY DEF SaveEvent
<1>. QED
    BY <1>2, <1>6, <1>7, <1>8, <1>9, <1>10 DEF TypeOK, Requests

LEMMA SaveFailsTypes ==
    ASSUME TypeOK, NEW t \in Threads, SaveFails(t)
    PROVE  TypeOK'
<1>1. failures' \in 0 .. MaxFailures
    BY ResearchPromotionAssumption DEF SaveFails, TypeOK
<1>2. Idle \in Requests(Len(grants), Len(receipts), Len(events))
    BY Sizes, IdleTypes
<1>3. request' = [request EXCEPT ![t] = Idle] /\ pc' = [pc EXCEPT ![t] = "idle"]
    BY DEF SaveFails, Finish, Goto
<1>4. request' \in [Threads ->
                        Requests(Len(grants), Len(receipts), Len(events))]
    BY <1>2, <1>3, Sizes
<1>5. pc' \in [Threads -> Places]
    BY <1>3 DEF TypeOK, Places
<1>6. \A u \in Threads :
          /\ pc'[u] = "idle" => request'[u] = Idle
          /\ pc'[u] = "saving" => request'[u].event \in Event
          /\ pc'[u] \notin {"idle", "saving"} => request'[u].op \in Operations
    BY <1>3, Sizes DEF TypeOK
<1>7. UNCHANGED <<clock, events, grants, receipts, promotion, fresh, valid,
                  changes>>
    BY DEF SaveFails
<1>. QED
    BY <1>1, <1>4, <1>5, <1>6, <1>7 DEF TypeOK, Requests

LEMMA RecordPromotionTypes ==
    ASSUME TypeOK, NEW t \in Threads, RecordPromotion(t)
    PROVE  TypeOK'
<1>1. request[t] \in Requests(Len(grants), Len(receipts), Len(events))
    BY Sizes
<1>2. request[t].read \in 0 .. Len(events)
      /\ request[t].trust \in 0 .. Len(receipts)
    BY <1>1 DEF Requests
<1>3. \A i \in 1 .. request[t].read : events[i].at \in Nat
  <2> SUFFICES ASSUME NEW i \in 1 .. request[t].read
               PROVE  events[i].at \in Nat
    OBVIOUS
  <2>1. i \in 1 .. Len(events) /\ events \in Seq(Event)
    BY <1>2, Sizes DEF TypeOK
  <2>2. events[i] \in Event
    BY <2>1, ElementOfSeq, Zenon
  <2>. QED
    BY <2>2 DEF Event
<1>4. promotion' \in [chain : SUBSET Nat, trust : 0 .. Len(receipts),
                      read : 0 .. Len(events)]
    BY <1>2, <1>3 DEF RecordPromotion
<1>5. pc' = [pc EXCEPT ![t] = "stamping"] /\ pc' \in [Threads -> Places]
    BY DEF RecordPromotion, Goto, TypeOK, Places
<1>6. \A u \in Threads :
          /\ pc'[u] = "idle" => request[u] = Idle
          /\ pc'[u] = "saving" => request[u].event \in Event
          /\ pc'[u] \notin {"idle", "saving"} => request[u].op \in Operations
    BY <1>5 DEF TypeOK, RecordPromotion
<1>7. UNCHANGED <<clock, events, grants, receipts, fresh, valid, request,
                  changes, failures>>
    BY DEF RecordPromotion
<1>. QED
    BY <1>4, <1>5, <1>6, <1>7 DEF TypeOK

\* Every action of a thread, and of the surroundings.
LEMMA NextTypes == TypeOK /\ [Next]_vars => TypeOK'
<1> SUFFICES ASSUME TypeOK, [Next]_vars PROVE TypeOK'
    OBVIOUS
<1>1. CASE UNCHANGED vars
    BY <1>1 DEF vars, TypeOK
<1>2. CASE IssueGrant
    BY <1>2, IssueGrantTypes
<1>3. CASE CandidateChanges
    BY <1>3, ResearchPromotionAssumption DEF CandidateChanges, TypeOK
<1>4. CASE Validate
    BY <1>4 DEF Validate, TypeOK, Ready
<1>5. ASSUME NEW t \in Threads, NEW op \in Operations,
             NEW token \in {0} \cup DOMAIN grants, Load(t, op, token)
      PROVE  TypeOK'
    BY <1>5, LoadTypes
<1>6. ASSUME NEW t \in Threads, ThreadStep(t) PROVE TypeOK'
  <2>1. CASE ConsumeGrant(t)
    BY <2>1, ConsumeGrantTypes
  <2>2. CASE FindReceipt(t)
    BY <2>2, FindReceiptTypes
  <2>3. CASE Mistrust(t)
    BY <2>3, FinishTypes DEF Mistrust
  <2>4. CASE BuildEvent(t)
    <3>1. \E type \in EventTypes : Stamp(t, type)
      BY <2>4 DEF BuildEvent, EventTypes, Reviews, Lifecycle, Applies
    <3>. QED
      BY <3>1, StampTypes
  <2>5. CASE SaveEvent(t)
    BY <2>5, SaveEventTypes
  <2>6. CASE SaveFails(t)
    BY <2>6, SaveFailsTypes
  <2>7. CASE ReadStream(t)
    BY <2>7, ReadStreamTypes
  <2>8. CASE Stamp(t, "applied") \/ ApplyBlocked(t)
    BY <2>8, StampTypes DEF ApplyBlocked, EventTypes, Applies
  <2>9. CASE VerifyChain(t) /\ ~ApplyBlocked(t)
    BY <2>9, GotoTypes DEF VerifyChain, Places
  <2>10. CASE CheckCandidate(t) /\ ~ApplyBlocked(t)
    BY <2>10, GotoTypes DEF CheckCandidate, Places
  <2>11. CASE RecordPromotion(t)
    BY <2>11, RecordPromotionTypes
  <2>. QED
    BY <1>6, <2>1, <2>2, <2>3, <2>4, <2>5, <2>6, <2>7, <2>8, <2>9, <2>10, <2>11
    DEF ThreadStep, PreflightBlocks, Replay, RecordConflict, ApplySucceeds
<1>. QED
  <2>1. CASE Next
    BY <2>1, <1>2, <1>3, <1>4, <1>5, <1>6 DEF Next
  <2>. QED
    BY <2>1, <1>1

\* Every reachable state is well typed.
THEOREM TypeCorrect == Spec => []TypeOK
<1>1. Init => TypeOK
    BY InitTypes
<1>2. TypeOK /\ [Next]_vars => TypeOK'
    BY NextTypes
<1>. QED
    BY <1>1, <1>2, PTL DEF Spec

-----------------------------------------------------------------------------
\* One grant, one receipt.

\* A receipt is written for a grant that has none.
LEMMA NextSingleUse == TypeOK /\ SingleUse /\ [Next]_vars => SingleUse'
<1> SUFFICES ASSUME TypeOK, SingleUse, [Next]_vars PROVE SingleUse'
    OBVIOUS
<1>1. CASE \E t \in Threads : ConsumeGrant(t)
  <2>1. PICK t \in Threads : ConsumeGrant(t)
    BY <1>1
  <2> DEFINE e == [grant |-> request[t].token, at |-> clock]
             S == [grant : 1 .. Len(grants), at : 0 .. clock]
  <2>2. \A i \in 1 .. Len(receipts) : receipts[i].grant # e.grant
    BY <2>1, Sizes DEF ConsumeGrant, Unused
  <2>3. receipts' = Append(receipts, e) /\ e \in S /\ receipts \in Seq(S)
    <3>1. request[t] \in Requests(Len(grants), Len(receipts), Len(events))
      BY Sizes
    <3>2. request[t].token \in 1 .. Len(grants)
      BY <2>1, <3>1, Sizes DEF ConsumeGrant, Requests
    <3>. QED
      BY <2>1, <3>2 DEF ConsumeGrant, TypeOK
  <2> HIDE DEF e, S
  <2>4. /\ Len(receipts') = Len(receipts) + 1
        /\ DOMAIN receipts' = 1 .. Len(receipts')
        /\ \A i \in 1 .. Len(receipts) : receipts'[i] = receipts[i]
        /\ receipts'[Len(receipts) + 1] = e
    BY <2>3
  <2>. QED
    BY <2>2, <2>4, Sizes DEF SingleUse
<1>2. CASE UNCHANGED receipts
    BY <1>2 DEF SingleUse
<1>. QED
    BY <1>1, <1>2
    DEF Next, vars, ThreadStep, IssueGrant, CandidateChanges, Validate, Load,
        FindReceipt, Mistrust, BuildEvent, Stamp, SaveEvent, SaveFails,
        PreflightBlocks, ReadStream, Replay, VerifyChain, CheckCandidate,
        RecordPromotion, RecordConflict, ApplySucceeds, ApplyBlocked

\* However many requests present a grant at once, it gives one receipt
\* (TrustedLocalConfirmationStore.consume).
THEOREM GrantsAreSingleUse == Spec => []SingleUse
<1>1. Init => TypeOK /\ SingleUse
    BY InitTypes DEF Init, SingleUse
<1>2. (TypeOK /\ SingleUse) /\ [Next]_vars => (TypeOK /\ SingleUse)'
    BY NextTypes, NextSingleUse
<1>. QED
    BY <1>1, <1>2, PTL DEF Spec

-----------------------------------------------------------------------------
\* What a step leaves of the streams.

\* Both streams are appended to, and the first promotion is kept.
Grows ==
    /\ Len(events) <= Len(events')
    /\ \A i \in 1 .. Len(events) : events'[i] = events[i]
    /\ Len(receipts) <= Len(receipts')
    /\ \A i \in 1 .. Len(receipts) : receipts'[i] = receipts[i]
    /\ promotion # NoPromotion => promotion' = promotion

LEMMA NextGrows == TypeOK /\ [Next]_vars => Grows
<1> SUFFICES ASSUME TypeOK, [Next]_vars PROVE Grows
    OBVIOUS
<1>1. CASE \E t \in Threads : ConsumeGrant(t)
    BY <1>1, Sizes DEF ConsumeGrant, Grows, TypeOK
<1>2. CASE \E t \in Threads : SaveEvent(t)
    BY <1>2, Sizes DEF SaveEvent, Grows, TypeOK
<1>3. CASE UNCHANGED <<events, receipts>>
           /\ (promotion # NoPromotion => promotion' = promotion)
    BY <1>3, Sizes DEF Grows
<1>. QED
    BY <1>1, <1>2, <1>3
    DEF Next, vars, ThreadStep, IssueGrant, CandidateChanges, Validate, Load,
        FindReceipt, Mistrust, BuildEvent, Stamp, SaveFails,
        PreflightBlocks, ReadStream, Replay, VerifyChain, CheckCandidate,
        RecordPromotion, RecordConflict, ApplySucceeds, ApplyBlocked

\* A chain depends on the events it was read from alone.
LEMMA ChainKept ==
    ASSUME NEW s, NEW s2, NEW n \in Nat, NEW ignored, NEW trust,
           \A i \in 1 .. n : s2[i] = s[i], Chain(s, n, ignored, trust)
    PROVE  Chain(s2, n, ignored, trust)
<1>1. {i \in 1 .. n : s[i].type \notin ignored} =
      {i \in 1 .. n : s2[i].type \notin ignored}
    OBVIOUS
<1>. QED
    BY <1>1 DEF Chain

\* What was said stays said.
LEMMA FollowsKept ==
    ASSUME TypeOK, Grows, NEW n \in 0 .. Len(events), NEW m \in Nat, n <= m,
           NEW type, Follows(n, type)
    PROVE  Follows(m, type)'
BY Sizes DEF Follows, Has, Grows

\* An event of the stream stays as good as it was.
LEMMA EventKept ==
    ASSUME Inv, TypeOK', Grows, NEW i \in 1 .. Len(events)
    PROVE  EventInv(i)'
<1>1. EventInv(i) /\ events'[i] = events[i]
    BY Sizes DEF Inv, Grows
<1>2. DOMAIN receipts = 1 .. Len(receipts) /\ DOMAIN receipts' = 1 .. Len(receipts')
      /\ Len(receipts) \in Nat /\ Len(receipts') \in Nat
  <2>1. TypeOK
    BY DEF Inv
  <2>2. receipts' \in Seq([grant : 1 .. Len(grants'), at : 0 .. clock'])
    BY DEF TypeOK
  <2>3. DOMAIN receipts' = 1 .. Len(receipts') /\ Len(receipts') \in Nat
    BY <2>2, LenProperties, Zenon
  <2>. QED
    BY <2>1, <2>3, Sizes
<1>3. Backed(events[i])'
    BY <1>1, <1>2 DEF EventInv, Backed, Grows
<1>4. Told(events[i])'
    BY <1>1 DEF EventInv, Told, Grows
<1>5. Follows(i - 1, events[i].type)'
  <2>1. Follows(i - 1, events[i].type)
    BY <1>1 DEF EventInv
  <2>2. \A j \in 1 .. i - 1 : events'[j] = events[j]
    BY Sizes DEF Grows, Inv
  <2>. QED
    BY <1>1, <2>1, <2>2, Zenon DEF Follows, Has
<1>. QED
    BY <1>3, <1>4, <1>5 DEF EventInv

\* A thread that does not move keeps what it knows.
LEMMA ThreadKept ==
    ASSUME Inv, TypeOK', Grows, NEW u \in Threads,
           pc'[u] = pc[u], request'[u] = request[u]
    PROVE  ThreadInv(u)'
<1>1. ThreadInv(u) /\ TypeOK
    BY DEF Inv
<1>2. /\ DOMAIN receipts = 1 .. Len(receipts)
      /\ DOMAIN receipts' = 1 .. Len(receipts')
      /\ Len(receipts) \in Nat /\ Len(receipts') \in Nat
      /\ Len(events) \in Nat /\ Len(events') \in Nat
  <2>1. receipts' \in Seq([grant : 1 .. Len(grants'), at : 0 .. clock'])
        /\ events' \in Seq(Event)
    BY DEF TypeOK
  <2>2. DOMAIN receipts' = 1 .. Len(receipts') /\ Len(receipts') \in Nat
    BY <2>1, LenProperties, Zenon
  <2>3. Len(events') \in Nat
    BY <2>1, LenProperties, Zenon
  <2>. QED
    BY <1>1, <2>2, <2>3, Sizes
<1>3. request[u] \in Requests(Len(grants), Len(receipts), Len(events))
    BY <1>1, Sizes
<1>4. \A i \in 1 .. Len(events) :
          /\ i \in 1 .. Len(events')
          /\ events'[i] = events[i]
    BY <1>2 DEF Grows
<1>5. ASSUME NEW type, Follows(Len(events), type)
      PROVE  Follows(Len(events), type)'
    BY <1>4, <1>5, Zenon DEF Follows, Has
<1>6. pc'[u] = "saving" =>
          /\ Backed(request[u].event)'
          /\ Told(request[u].event)'
          /\ Follows(Len(events), request[u].event.type)'
  <2> SUFFICES ASSUME pc[u] = "saving"
               PROVE  /\ Backed(request[u].event)'
                      /\ Told(request[u].event)'
                      /\ Follows(Len(events), request[u].event.type)'
    BY Zenon
  <2>1. /\ Backed(request[u].event)
        /\ Told(request[u].event)
        /\ Follows(Len(events), request[u].event.type)
    BY <1>1 DEF ThreadInv
  <2>2. Backed(request[u].event)'
    BY <1>2, <2>1 DEF Backed, Grows
  <2>3. Told(request[u].event)'
    BY <2>1 DEF Told, Grows
  <2>4. Follows(Len(events), request[u].event.type)'
    BY <1>4, <2>1, Zenon DEF Follows, Has
  <2>. QED
    BY <2>2, <2>3, <2>4
<1>7. request'[u].allowed =>
          /\ request'[u].op = "confirm" => Follows(Len(events), "confirmed")'
          /\ request'[u].op = "impact_check" => Follows(Len(events), "impact")'
    BY <1>1, <1>5 DEF ThreadInv
<1>8. pc'[u] \in {"checking", "recording"} =>
          Chain(events', request'[u].read, {}, request'[u].trust)
  <2> SUFFICES ASSUME pc[u] \in {"checking", "recording"}
               PROVE  Chain(events', request[u].read, {}, request[u].trust)
    OBVIOUS
  <2>1. Chain(events, request[u].read, {}, request[u].trust)
    BY <1>1 DEF ThreadInv
  <2>2. request[u].read \in Nat
        /\ \A i \in 1 .. request[u].read : events'[i] = events[i]
    BY <1>2, <1>3, <1>4 DEF Requests
  <2>. QED
    BY <2>1, <2>2, ChainKept
<1>9. pc'[u] = "stamping" =>
          promotion' # NoPromotion /\ request'[u].trust = promotion'.trust
    BY <1>1 DEF ThreadInv, Grows
<1>. QED
    BY <1>6, <1>7, <1>8, <1>9 DEF ThreadInv

\* A promotion that was kept still names its chain.
LEMMA PromotionKept ==
    ASSUME Inv, TypeOK', Grows, promotion' = promotion
    PROVE  PromotionInv'
<1> SUFFICES ASSUME promotion # NoPromotion
             PROVE  /\ Chain(events', promotion.read, {}, promotion.trust)
                    /\ promotion.chain =
                           {events'[i].at : i \in 1 .. promotion.read}
    BY DEF PromotionInv
<1>1. /\ Chain(events, promotion.read, {}, promotion.trust)
      /\ promotion.chain = {events[i].at : i \in 1 .. promotion.read}
    BY DEF Inv, PromotionInv
<1>2. promotion.read \in 0 .. Len(events) /\ Len(events) \in Nat
    BY Sizes DEF Inv, TypeOK
<1>3. \A i \in 1 .. promotion.read : events'[i] = events[i]
    BY <1>2 DEF Grows
<1>4. Chain(events', promotion.read, {}, promotion.trust)
  <2>1. promotion.read \in Nat
    BY <1>2
  <2>. QED
    BY <1>1, <1>3, <2>1, ChainKept, Zenon
<1>. QED
    BY <1>1, <1>3, <1>4

\* A step of one thread that saves no event and promotes nothing: what is left
\* to show is that this thread knows what it should.
LEMMA ThreadMoves ==
    ASSUME Inv, TypeOK', Grows, NEW t \in Threads,
           UNCHANGED <<events, promotion>>,
           \A u \in Threads \ {t} : pc'[u] = pc[u] /\ request'[u] = request[u],
           ThreadInv(t)'
    PROVE  Inv'
<1>1. \A i \in DOMAIN events' : EventInv(i)'
  <2>1. DOMAIN events' = 1 .. Len(events)
    BY Sizes DEF Inv
  <2>. QED
    BY <2>1, EventKept
<1>2. \A u \in Threads : ThreadInv(u)'
    BY ThreadKept
<1>3. PromotionInv'
    BY PromotionKept
<1>. QED
    BY <1>1, <1>2, <1>3 DEF Inv

-----------------------------------------------------------------------------
\* The steps of a thread.

\* Stamping an event that is true of the stream.
LEMMA StampInv ==
    ASSUME Inv, TypeOK', Grows, NEW t \in Threads, NEW type \in EventTypes,
           Stamp(t, type), Follows(Len(events), type),
           type = "applied" =>
               promotion # NoPromotion /\ request[t].trust = promotion.trust
    PROVE  Inv'
<1>1. TypeOK
    BY DEF Inv
<1>2. /\ request'[t].event = [type |-> type, at |-> clock,
                              trust |-> request[t].trust]
      /\ request'[t].allowed = FALSE
      /\ pc'[t] = "saving"
      /\ \A u \in Threads \ {t} : request'[u] = request[u] /\ pc'[u] = pc[u]
    BY <1>1, StampFacts
<1>3. UNCHANGED <<events, receipts, promotion>>
    BY DEF Stamp
<1>4. Backed(request'[t].event)
  <2>1. request[t].trust \in 0 .. Len(receipts)
    <3>1. request[t] \in Requests(Len(grants), Len(receipts), Len(events))
      BY <1>1, Sizes
    <3>. QED
      BY <3>1 DEF Requests
  <2>2. ASSUME request[t].trust # 0
        PROVE  /\ request[t].trust \in DOMAIN receipts
               /\ receipts[request[t].trust].at <= clock
    <3>1. request[t].trust \in 1 .. Len(receipts)
          /\ DOMAIN receipts = 1 .. Len(receipts)
      BY <1>1, <2>1, <2>2, Sizes
    <3>2. receipts[request[t].trust] \in
              [grant : 1 .. Len(grants), at : 0 .. clock]
      BY <1>1, <3>1, ElementOfSeq, Zenon DEF TypeOK
    <3>3. clock \in Nat /\ receipts[request[t].trust].at \in 0 .. clock
      BY <1>1, <3>2 DEF TypeOK
    <3>. QED
      BY <3>1, <3>3
  <2>. QED
    BY <1>2, <2>2 DEF Backed
<1>5. Told(request'[t].event)
    BY <1>2 DEF Told
<1>6. Follows(Len(events), request'[t].event.type)
    BY <1>2
<1>7. ThreadInv(t)'
  <2>1. Backed(request[t].event)' /\ Told(request[t].event)'
    BY <1>3, <1>4, <1>5 DEF Backed, Told
  <2>2. Follows(Len(events), request[t].event.type)'
    BY <1>3, <1>6 DEF Follows, Has
  <2>. QED
    BY <1>2, <2>1, <2>2 DEF ThreadInv
<1>. QED
    BY <1>2, <1>3, <1>7, ThreadMoves

\* What the action was loaded with is in the stream.
LEMMA LoadInv ==
    ASSUME Inv, TypeOK', Grows, NEW t \in Threads, NEW op \in Operations,
           NEW token \in {0} \cup DOMAIN grants, Load(t, op, token)
    PROVE  Inv'
<1> DEFINE q == [op |-> op, token |-> token, allowed |-> Allowed(op),
                 trust |-> 0, read |-> 0, event |-> NoEvent]
<1>1. /\ pc'[t] \in {"loaded", "trusted"}
      /\ request'[t] = q
      /\ \A u \in Threads \ {t} : request'[u] = request[u] /\ pc'[u] = pc[u]
      /\ UNCHANGED <<events, promotion>>
    BY Sizes DEF Load, Goto, Inv, TypeOK
<1>2. q.op = op /\ q.allowed = Allowed(op)
    OBVIOUS
<1> HIDE DEF q
<1>3. /\ Allowed("confirm") => Follows(Len(events), "confirmed")
      /\ Allowed("impact_check") => Follows(Len(events), "impact")
    BY DEF Allowed, ReviewApproved, NewestIs, Follows, Has
<1>4. ThreadInv(t)'
  <2>1. request'[t].allowed =>
            /\ request'[t].op = "confirm" => Follows(Len(events), "confirmed")'
            /\ request'[t].op = "impact_check" =>
                   Follows(Len(events), "impact")'
    BY <1>1, <1>2, <1>3 DEF Follows, Has
  <2>. QED
    BY <1>1, <2>1 DEF ThreadInv
<1>. QED
    BY <1>1, <1>4, ThreadMoves

\* Establishing the principal changes nothing of what was loaded.
LEMMA TrustedInv ==
    ASSUME Inv, TypeOK', Grows, NEW t \in Threads,
           ConsumeGrant(t) \/ FindReceipt(t)
    PROVE  Inv'
<1>1. TypeOK /\ ThreadInv(t)
    BY DEF Inv
<1>2. \E x \in Nat : request' = [request EXCEPT ![t].trust = x]
  <2>1. CASE ConsumeGrant(t)
    <3>1. Len(receipts') \in Nat
      BY LenProperties DEF TypeOK
    <3>. QED
      BY <2>1, <3>1, Zenon DEF ConsumeGrant
  <2>2. CASE FindReceipt(t)
    <3>1. {0} \cup DOMAIN receipts \subseteq Nat
      BY <1>1, Sizes
    <3>. QED
      BY <2>2, <3>1, Zenon DEF FindReceipt
  <2>. QED
    BY <2>1, <2>2
<1>3. PICK x \in Nat : request' = [request EXCEPT ![t].trust = x]
    BY <1>2
<1>4. request[t] \in Requests(Len(grants), Len(receipts), Len(events))
    BY <1>1, Sizes
<1> DEFINE q == [request[t] EXCEPT !.trust = x]
<1>5. q.op = request[t].op /\ q.allowed = request[t].allowed
    BY <1>4, TrustSet
<1>6. request' = [request EXCEPT ![t] = q]
    BY <1>3
<1> HIDE DEF q
<1>7. /\ pc'[t] = "trusted" /\ request'[t] = q
      /\ \A u \in Threads \ {t} : request'[u] = request[u] /\ pc'[u] = pc[u]
      /\ UNCHANGED <<events, promotion>>
    BY <1>1, <1>6, Sizes DEF ConsumeGrant, FindReceipt, Goto, TypeOK
<1>8. ThreadInv(t)'
  <2>1. request'[t].allowed =>
            /\ request'[t].op = "confirm" => Follows(Len(events), "confirmed")'
            /\ request'[t].op = "impact_check" =>
                   Follows(Len(events), "impact")'
    BY <1>1, <1>5, <1>7 DEF ThreadInv, Follows, Has
  <2>. QED
    BY <1>7, <2>1 DEF ThreadInv
<1>. QED
    BY <1>7, <1>8, ThreadMoves

\* A request that ends knows nothing.
LEMMA FinishInv ==
    ASSUME Inv, TypeOK', Grows, NEW t \in Threads, Finish(t),
           UNCHANGED <<events, promotion>>
    PROVE  Inv'
<1>1. /\ pc'[t] = "idle" /\ request'[t] = Idle
      /\ \A u \in Threads \ {t} : request'[u] = request[u] /\ pc'[u] = pc[u]
    BY Sizes DEF Finish, Goto, Inv, TypeOK
<1>2. Idle.allowed = FALSE
    BY DEF Idle
<1>3. ThreadInv(t)'
    BY <1>1, <1>2 DEF ThreadInv
<1>. QED
    BY <1>1, <1>3, ThreadMoves

LEMMA ReadStreamInv ==
    ASSUME Inv, TypeOK', Grows, NEW t \in Threads, ReadStream(t)
    PROVE  Inv'
<1>1. TypeOK /\ ThreadInv(t)
    BY DEF Inv
<1> DEFINE q == [request[t] EXCEPT !.read = Len(events)]
<1>2. q.op = request[t].op /\ q.allowed = request[t].allowed
  <2>1. request[t] \in Requests(Len(grants), Len(receipts), Len(events))
        /\ Len(events) \in 0 .. Len(events)
    BY <1>1, Sizes
  <2>. QED
    BY <2>1, ReadSet
<1>3. request' = [request EXCEPT ![t] = q]
    BY DEF ReadStream
<1> HIDE DEF q
<1>4. /\ pc'[t] = "reading" /\ request'[t] = q
      /\ \A u \in Threads \ {t} : request'[u] = request[u] /\ pc'[u] = pc[u]
      /\ UNCHANGED <<events, promotion>>
    BY <1>1, <1>3, Sizes DEF ReadStream, Goto, TypeOK
<1>5. ThreadInv(t)'
  <2>1. request'[t].allowed =>
            /\ request'[t].op = "confirm" => Follows(Len(events), "confirmed")'
            /\ request'[t].op = "impact_check" =>
                   Follows(Len(events), "impact")'
    BY <1>1, <1>2, <1>4 DEF ThreadInv, Follows, Has
  <2>. QED
    BY <1>4, <2>1 DEF ThreadInv
<1>. QED
    BY <1>4, <1>5, ThreadMoves

\* Going on to a place where the chain that was read is known.
LEMMA GotoInv ==
    ASSUME Inv, TypeOK', Grows, NEW t \in Threads,
           NEW place \in {"checking", "recording"}, Goto(t, place),
           UNCHANGED <<events, promotion, request>>,
           Chain(events, request[t].read, {}, request[t].trust)
    PROVE  Inv'
<1>1. TypeOK /\ ThreadInv(t)
    BY DEF Inv
<1>2. /\ pc'[t] = place
      /\ \A u \in Threads \ {t} : request'[u] = request[u] /\ pc'[u] = pc[u]
    BY <1>1 DEF Goto, TypeOK
<1>3. request'[t].allowed =>
          /\ request'[t].op = "confirm" => Follows(Len(events), "confirmed")'
          /\ request'[t].op = "impact_check" =>
                 Follows(Len(events), "impact")'
    BY <1>1 DEF ThreadInv, Follows, Has
<1>4. ThreadInv(t)'
    BY <1>2, <1>3 DEF ThreadInv
<1>. QED
    BY <1>2, <1>4, ThreadMoves

\* A chain carries a receipt.
LEMMA ChainTrusted ==
    ASSUME NEW s, NEW n, NEW ignored, NEW trust, Chain(s, n, ignored, trust)
    PROVE  trust # 0
BY DEF Chain

\* The four events of a chain, in the order of their stamps.
LEMMA ChainEvents ==
    ASSUME NEW s, NEW n, NEW ignored, NEW trust, Chain(s, n, ignored, trust)
    PROVE  \E p, r, c, m \in 1 .. n :
              /\ s[p].type = "preview" /\ s[r].type = "approved"
              /\ s[c].type = "confirmed" /\ s[m].type = "impact"
              /\ s[p].at < s[r].at
<1> DEFINE kept == {i \in 1 .. n : s[i].type \notin ignored}
<1>1. \E p, r, c, m \in kept :
         /\ s[p].type = "preview" /\ s[r].type = "approved"
         /\ s[c].type = "confirmed" /\ s[m].type = "impact"
         /\ s[p].at < s[r].at
    BY Zenon DEF Chain
<1>2. kept \subseteq 1 .. n
    OBVIOUS
<1> HIDE DEF kept
<1>. QED
    BY <1>1, <1>2

LEMMA RecordPromotionInv ==
    ASSUME Inv, TypeOK', Grows, NEW t \in Threads, RecordPromotion(t)
    PROVE  Inv'
<1>1. TypeOK /\ ThreadInv(t)
    BY DEF Inv
<1>2. /\ pc[t] = "recording" /\ promotion = NoPromotion
      /\ promotion' = [chain |-> {events[i].at : i \in 1 .. request[t].read},
                       trust |-> request[t].trust, read |-> request[t].read]
      /\ UNCHANGED <<events, request>>
    BY DEF RecordPromotion
<1>3. Chain(events, request[t].read, {}, request[t].trust)
    BY <1>1, <1>2 DEF ThreadInv
<1>4. promotion' # NoPromotion
  <2>1. promotion'.trust = request[t].trust /\ NoPromotion.trust = 0
    BY <1>2 DEF NoPromotion
  <2>2. request[t].trust # 0
    BY <1>3, ChainTrusted
  <2>. QED
    BY <2>1, <2>2
<1>5. /\ pc'[t] = "stamping"
      /\ \A u \in Threads \ {t} : request'[u] = request[u] /\ pc'[u] = pc[u]
    BY <1>1, <1>2 DEF RecordPromotion, Goto, TypeOK
<1>6. \A i \in DOMAIN events' : EventInv(i)'
  <2>1. DOMAIN events' = 1 .. Len(events)
    BY <1>1, <1>2, Sizes
  <2>. QED
    BY <2>1, EventKept
<1>7. ThreadInv(t)'
  <2>1. request'[t].allowed =>
            /\ request'[t].op = "confirm" => Follows(Len(events), "confirmed")'
            /\ request'[t].op = "impact_check" =>
                   Follows(Len(events), "impact")'
    BY <1>1, <1>2 DEF ThreadInv, Follows, Has
  <2>2. request'[t].trust = promotion'.trust
    BY <1>2
  <2>. QED
    BY <1>4, <1>5, <2>1, <2>2 DEF ThreadInv
<1>8. \A u \in Threads : ThreadInv(u)'
    BY <1>5, <1>7, ThreadKept
<1>9. PromotionInv'
  <2>1. promotion'.read = request[t].read /\ promotion'.trust = request[t].trust
        /\ promotion'.chain = {events[i].at : i \in 1 .. request[t].read}
    BY <1>2
  <2>. QED
    BY <1>2, <1>3, <2>1 DEF PromotionInv
<1>. QED
    BY <1>6, <1>8, <1>9 DEF Inv

\* The event that is saved was as good as the stream's when it was stamped,
\* and the stream has only grown.
LEMMA SaveEventInv ==
    ASSUME Inv, TypeOK', Grows, NEW t \in Threads, SaveEvent(t)
    PROVE  Inv'
<1>1. TypeOK /\ ThreadInv(t)
    BY DEF Inv
<1>2. request[t].event \in Event
    BY <1>1 DEF SaveEvent, TypeOK
<1>3. /\ Len(events') = Len(events) + 1
      /\ DOMAIN events' = 1 .. Len(events) + 1
      /\ \A i \in 1 .. Len(events) : events'[i] = events[i]
      /\ events'[Len(events) + 1] = request[t].event
      /\ Len(events) \in Nat
    BY <1>1, <1>2, Sizes DEF SaveEvent, TypeOK
<1>4. /\ pc[t] = "saving" /\ pc'[t] = "idle" /\ request'[t] = Idle
      /\ \A u \in Threads \ {t} : request'[u] = request[u] /\ pc'[u] = pc[u]
      /\ UNCHANGED <<receipts, promotion>>
    BY <1>1, Sizes DEF SaveEvent, Finish, Goto, TypeOK
<1>5. PICK n \in Nat : n = Len(events)
    BY <1>3
<1>6. \A i \in DOMAIN events' : EventInv(i)'
  <2> SUFFICES ASSUME NEW i \in 1 .. n + 1 PROVE EventInv(i)'
    BY <1>3, <1>5
  <2>1. CASE i \in 1 .. n
    BY <1>5, <2>1, EventKept
  <2>2. CASE i = n + 1
    <3>1. events'[i] = request[t].event
      BY <1>3, <1>5, <2>2
    <3>2. /\ Backed(request[t].event)
          /\ Told(request[t].event)
          /\ Follows(n, request[t].event.type)
      BY <1>1, <1>4, <1>5 DEF ThreadInv
    <3>3. Backed(events[i])'
      BY <1>4, <3>1, <3>2 DEF Backed
    <3>4. Told(events[i])'
      BY <1>4, <3>1, <3>2 DEF Told
    <3>5. Follows(i - 1, events[i].type)'
      <4>1. i - 1 = n
        BY <2>2
      <4>2. \A j \in 1 .. n : events'[j] = events[j]
        BY <1>3, <1>5
      <4>. QED
        BY <3>1, <3>2, <4>1, <4>2, Zenon DEF Follows, Has
    <3>. QED
      BY <3>3, <3>4, <3>5 DEF EventInv
  <2>. QED
    BY <2>1, <2>2
<1>7. ThreadInv(t)'
  <2>1. Idle.allowed = FALSE
    BY DEF Idle
  <2>. QED
    BY <1>4, <2>1 DEF ThreadInv
<1>8. \A u \in Threads : ThreadInv(u)'
    BY <1>4, <1>7, ThreadKept
<1>9. PromotionInv'
    BY <1>4, PromotionKept
<1>. QED
    BY <1>6, <1>8, <1>9 DEF Inv

\* There are four types of event in a chain.
LEMMA FourTypes == Cardinality(ChainTypes) = 4
<1> DEFINE S1 == {} \cup {"preview"}
           S2 == S1 \cup {"approved"}
           S3 == S2 \cup {"confirmed"}
           S4 == S3 \cup {"impact"}
<1>1. IsFiniteSet({}) /\ Cardinality({}) = 0
    BY FS_EmptySet
<1>2. IsFiniteSet(S1) /\ Cardinality(S1) = 1
    BY <1>1, FS_AddElement
<1>3. IsFiniteSet(S2) /\ Cardinality(S2) = 2
  <2>1. "approved" \notin S1
    OBVIOUS
  <2> HIDE DEF S1
  <2>. QED
    BY <1>2, <2>1, FS_AddElement
<1>4. IsFiniteSet(S3) /\ Cardinality(S3) = 3
  <2>1. "confirmed" \notin S2
    OBVIOUS
  <2> HIDE DEF S2
  <2>. QED
    BY <1>3, <2>1, FS_AddElement
<1>5. Cardinality(S4) = 4
  <2>1. "impact" \notin S3
    OBVIOUS
  <2> HIDE DEF S3
  <2>. QED
    BY <1>4, <2>1, FS_AddElement
<1>6. ChainTypes = S4
    BY DEF ChainTypes
<1>. QED
    BY <1>5, <1>6

\* A chain takes four events, and when nothing is ignored it is those.
LEMMA ChainLength ==
    ASSUME NEW s, NEW n \in Nat, NEW ignored, NEW trust,
           Chain(s, n, ignored, trust)
    PROVE  n >= 4 /\ (ignored = {} => n = 4)
<1> DEFINE kept == {i \in 1 .. n : s[i].type \notin ignored}
<1>1. Cardinality(kept) = 4
    BY FourTypes, Zenon DEF Chain
<1>2. kept \in SUBSET (1 .. n)
    OBVIOUS
<1>3. ignored = {} => kept = 1 .. n
    OBVIOUS
<1>4. IsFiniteSet(1 .. n) /\ Cardinality(1 .. n) = IF 1 > n THEN 0 ELSE n - 1 + 1
    BY FS_Interval
<1> HIDE DEF kept
<1>5. Cardinality(kept) <= Cardinality(1 .. n)
    BY <1>2, <1>4, FS_Subset
<1>. QED
    BY <1>1, <1>3, <1>4, <1>5

\* What the chain check makes of a replay: it is told to the principal whose
\* receipt the stored promotion carries, because the approval the promotion
\* rests on is among the events the replay kept.
LEMMA ReplayTrust ==
    ASSUME Inv, NEW n \in 0 .. Len(events), NEW trust,
           promotion # NoPromotion, Chain(events, n, {"applied"}, trust)
    PROVE  trust = promotion.trust
<1>1. TypeOK /\ Chain(events, promotion.read, {}, promotion.trust)
    BY DEF Inv, PromotionInv
<1>2. n \in Nat /\ promotion.read \in Nat
    BY <1>1, Sizes DEF TypeOK
<1>3. promotion.read = 4 /\ n >= 4
    BY <1>1, <1>2, ChainLength
<1>4. PICK r \in 1 .. 4 : /\ events[r].type = "approved"
                          /\ events[r].trust = promotion.trust
    BY <1>1, <1>3 DEF Chain
<1>5. r \in 1 .. n
    BY <1>2, <1>3
<1>. QED
    BY <1>4, <1>5 DEF Chain

\* An event no one waits for follows anything.
LEMMA OthersFollow ==
    \A n, type : type \notin {"confirmed", "impact"} => Follows(n, type)
BY DEF Follows

LEMMA BuildEventInv ==
    ASSUME Inv, TypeOK', Grows, NEW t \in Threads, BuildEvent(t)
    PROVE  Inv'
<1>1. ThreadInv(t)
    BY DEF Inv
<1>2. PICK type \in EventTypes :
          /\ Stamp(t, type)
          /\ type # "applied"
          /\ type = "confirmed" =>
                 request[t].op = "confirm" /\ request[t].allowed
          /\ type = "impact" =>
                 request[t].op = "impact_check" /\ request[t].allowed
    BY DEF BuildEvent, EventTypes, Reviews, Lifecycle, Applies
<1>3. Follows(Len(events), type)
  <2>1. CASE type = "confirmed"
    BY <1>1, <1>2, <2>1 DEF ThreadInv
  <2>2. CASE type = "impact"
    BY <1>1, <1>2, <2>2 DEF ThreadInv
  <2>3. CASE type \notin {"confirmed", "impact"}
    BY <2>3, OthersFollow
  <2>. QED
    BY <2>1, <2>2, <2>3
<1>. QED
    BY <1>2, <1>3, StampInv

LEMMA ApplyBlockedInv ==
    ASSUME Inv, TypeOK', Grows, NEW t \in Threads, ApplyBlocked(t)
    PROVE  Inv'
<1>1. "apply_blocked" \in EventTypes /\ Follows(Len(events), "apply_blocked")
    BY OthersFollow DEF EventTypes, Applies
<1>2. Stamp(t, "apply_blocked")
    BY DEF ApplyBlocked
<1>. QED
    BY <1>1, <1>2, StampInv

LEMMA AppliedInv ==
    ASSUME Inv, TypeOK', Grows, NEW t \in Threads, Stamp(t, "applied"),
           promotion # NoPromotion, request[t].trust = promotion.trust
    PROVE  Inv'
<1>1. "applied" \in EventTypes /\ Follows(Len(events), "applied")
    BY OthersFollow DEF EventTypes, Applies
<1>. QED
    BY <1>1, StampInv

LEMMA ReplayInv ==
    ASSUME Inv, TypeOK', Grows, NEW t \in Threads, Replay(t)
    PROVE  Inv'
<1>1. CASE ApplyBlocked(t)
    BY <1>1, ApplyBlockedInv
<1>2. CASE /\ Stamp(t, "applied")
           /\ Chain(events, request[t].read, {"applied"}, request[t].trust)
  <2>1. request[t].read \in 0 .. Len(events)
    <3>1. request[t] \in Requests(Len(grants), Len(receipts), Len(events))
      BY Sizes DEF Inv
    <3>. QED
      BY <3>1 DEF Requests
  <2>2. request[t].trust = promotion.trust
    BY <1>2, <2>1, ReplayTrust DEF Replay
  <2>. QED
    BY <1>2, <2>2, AppliedInv DEF Replay
<1>. QED
    BY <1>1, <1>2 DEF Replay

\* Every step keeps the invariant.
LEMMA NextInv == Inv /\ [Next]_vars => Inv'
<1> SUFFICES ASSUME Inv, [Next]_vars PROVE Inv'
    OBVIOUS
<1>1. TypeOK' /\ Grows
    BY NextTypes, NextGrows DEF Inv
<1>2. ASSUME UNCHANGED <<events, receipts, promotion, request, pc>>
      PROVE  Inv'
  <2>1. \A i \in DOMAIN events' : EventInv(i)'
    <3>1. DOMAIN events' = 1 .. Len(events)
      BY <1>2, Sizes DEF Inv
    <3>. QED
      BY <1>1, <3>1, EventKept
  <2>2. \A u \in Threads : ThreadInv(u)'
    BY <1>1, <1>2, ThreadKept
  <2>3. PromotionInv'
    BY <1>1, <1>2, PromotionKept
  <2>. QED
    BY <1>1, <2>1, <2>2, <2>3 DEF Inv
<1>3. ASSUME NEW t \in Threads, NEW op \in Operations,
             NEW token \in {0} \cup DOMAIN grants, Load(t, op, token)
      PROVE  Inv'
    BY <1>1, <1>3, LoadInv
<1>4. ASSUME NEW t \in Threads, ThreadStep(t) PROVE Inv'
  <2>1. CASE ConsumeGrant(t) \/ FindReceipt(t)
    BY <1>1, <2>1, TrustedInv
  <2>2. CASE Mistrust(t)
    BY <1>1, <2>2, FinishInv DEF Mistrust
  <2>3. CASE BuildEvent(t)
    BY <1>1, <2>3, BuildEventInv
  <2>4. CASE SaveEvent(t)
    BY <1>1, <2>4, SaveEventInv
  <2>5. CASE SaveFails(t)
    BY <1>1, <2>5, FinishInv DEF SaveFails
  <2>6. CASE ReadStream(t)
    BY <1>1, <2>6, ReadStreamInv
  <2>7. CASE Replay(t)
    BY <1>1, <2>7, ReplayInv
  <2>8. CASE ApplyBlocked(t)
    BY <1>1, <2>8, ApplyBlockedInv
  <2>9. CASE VerifyChain(t) /\ ~ApplyBlocked(t)
    BY <1>1, <2>9, GotoInv DEF VerifyChain
  <2>10. CASE CheckCandidate(t) /\ ~ApplyBlocked(t)
    <3>1. Chain(events, request[t].read, {}, request[t].trust)
      BY <2>10 DEF Inv, ThreadInv, CheckCandidate, ApplyBlocked
    <3>. QED
      BY <1>1, <2>10, <3>1, GotoInv DEF CheckCandidate
  <2>11. CASE RecordPromotion(t)
    BY <1>1, <2>11, RecordPromotionInv
  <2>12. CASE ApplySucceeds(t)
    <3>1. promotion # NoPromotion /\ request[t].trust = promotion.trust
      BY <2>12 DEF Inv, ThreadInv, ApplySucceeds
    <3>. QED
      BY <1>1, <2>12, <3>1, AppliedInv DEF ApplySucceeds
  <2>. QED
    BY <1>4, <2>1, <2>2, <2>3, <2>4, <2>5, <2>6, <2>7, <2>8, <2>9, <2>10,
       <2>11, <2>12
    DEF ThreadStep, PreflightBlocks, RecordConflict
<1>. QED
  <2>1. CASE IssueGrant \/ CandidateChanges \/ Validate \/ UNCHANGED vars
    BY <1>2, <2>1 DEF IssueGrant, CandidateChanges, Validate, vars
  <2>. QED
    BY <1>3, <1>4, <2>1 DEF Next

LEMMA InitInv == Init => Inv
<1> SUFFICES ASSUME Init PROVE Inv
    OBVIOUS
<1>1. TypeOK
    BY InitTypes
<1>2. DOMAIN events = {}
    BY DEF Init
<1>3. \A t \in Threads : ThreadInv(t)
    BY DEF Init, ThreadInv, Idle
<1>4. PromotionInv
    BY DEF Init, PromotionInv
<1>. QED
    BY <1>1, <1>2, <1>3, <1>4 DEF Inv

LEMMA InvHolds == Spec => []Inv
<1>1. Init => Inv
    BY InitInv
<1>2. Inv /\ [Next]_vars => Inv'
    BY NextInv
<1>. QED
    BY <1>1, <1>2, PTL DEF Spec

-----------------------------------------------------------------------------
\* What the invariant says of promotions and of the events that tell them.

\* What the events say of one grant, they say on one receipt.
OneReceiptPerGrant ==
    \A i, j \in DOMAIN events :
        /\ events[i].trust # 0 /\ events[j].trust # 0
        /\ receipts[events[i].trust].grant = receipts[events[j].trust].grant
        => events[i].trust = events[j].trust

\* The chain check compares time stamps; that the confirmation was saved after
\* preview and approval, and the impact check after it, follows from what each
\* had behind it.  Nothing says so of the approval, which looks at no preview.
LEMMA InvWitnessed == Inv /\ promotion # NoPromotion /\ OneReceiptPerGrant =>
                          PromotionIsWitnessed
<1> SUFFICES ASSUME Inv, promotion # NoPromotion, OneReceiptPerGrant
             PROVE  PromotionIsWitnessed
    OBVIOUS
<1>1. /\ TypeOK
      /\ Chain(events, promotion.read, {}, promotion.trust)
      /\ promotion.chain = {events[i].at : i \in 1 .. promotion.read}
    BY DEF Inv, PromotionInv
<1>2. promotion.read = 4 /\ Len(events) >= 4 /\ DOMAIN events = 1 .. Len(events)
  <2>1. promotion.read \in Nat /\ promotion.read <= Len(events)
    BY <1>1, Sizes DEF TypeOK
  <2>. QED
    BY <1>1, <2>1, Sizes, ChainLength
<1>3. promotion.trust # 0
    BY <1>1, ChainTrusted
<1>4. PICK p, r, c, m \in 1 .. 4 :
          /\ events[p].type = "preview" /\ events[r].type = "approved"
          /\ events[c].type = "confirmed" /\ events[m].type = "impact"
          /\ events[p].at < events[r].at
    BY <1>1, <1>2, ChainEvents
<1>5. {p, r, c, m} = 1 .. 4
  <2>1. p # r /\ p # c /\ p # m /\ r # c /\ r # m /\ c # m
    BY <1>4
  <2>. QED
    BY <2>1
<1>6. \A i \in 1 .. 4 : EventInv(i)
    BY <1>2 DEF Inv
<1>7. p < c /\ r < c
  <2>1. Has(c - 1, "preview") /\ Has(c - 1, "approved")
    BY <1>4, <1>6 DEF EventInv, Follows
  <2>2. PICK i, j \in 1 .. c - 1 : /\ events[i].type = "preview"
                                   /\ events[j].type = "approved"
    BY <2>1 DEF Has
  <2>3. i \in {p, r, c, m} /\ j \in {p, r, c, m}
    BY <1>5
  <2>. QED
    BY <1>4, <2>2, <2>3
<1>8. c < m
  <2>1. Has(m - 1, "confirmed")
    BY <1>4, <1>6 DEF EventInv, Follows
  <2>2. PICK i \in 1 .. m - 1 : events[i].type = "confirmed"
    BY <2>1 DEF Has
  <2>3. i \in {p, r, c, m}
    BY <1>5
  <2>. QED
    BY <1>4, <2>2, <2>3
<1>9. c = 3 /\ m = 4 /\ p \in 1 .. 2 /\ r \in 1 .. 2
  <2>1. p # r
    BY <1>4
  <2>. QED
    BY <1>7, <1>8, <2>1
<1>10. \A i \in {r, c, m} : events[i].trust = promotion.trust
    BY <1>1, <1>2, <1>4 DEF Chain
<1>11. receipts[promotion.trust].at <= events[r].at
    BY <1>3, <1>6, <1>10 DEF EventInv, Backed
<1>12. \A i \in 1 .. 4 : events[i].at \in promotion.chain
    BY <1>1, <1>2
<1>. QED
    BY <1>2, <1>3, <1>4, <1>9, <1>10, <1>11, <1>12
    DEF PromotionIsWitnessed, OneReceiptPerGrant

\* A promoted fact has a preview stamped before its approval, both saved before
\* its confirmation, which was saved before its impact check.  Nobody said
\* anything else, all but the preview carry one receipt, and no event of the
\* stream rests on another receipt of its grant (execute_research_fact_promotion,
\* TrustedLocalConfirmationStore.consume).
THEOREM PromotionsAreWitnessed == Spec => []PromotionIsWitnessed
<1>1. Inv /\ SingleUse => OneReceiptPerGrant
    BY DEF Inv, EventInv, Backed, SingleUse, OneReceiptPerGrant
<1>2. Inv /\ SingleUse => PromotionIsWitnessed
    BY <1>1, InvWitnessed DEF PromotionIsWitnessed, OneReceiptPerGrant
<1>. QED
    BY <1>2, InvHolds, GrantsAreSingleUse, PTL

\* What the stream calls applied is promoted, and told to its principal
\* (apply_action and its replay).
THEOREM SuccessesArePromoted == Spec => []SuccessIsPromoted
<1>1. Inv => SuccessIsPromoted
    BY DEF Inv, EventInv, Told, SuccessIsPromoted
<1>. QED
    BY <1>1, InvHolds, PTL

-----------------------------------------------------------------------------
\* The two databases agree again.

\* A request that still owes the stream its success.
Owes(t) ==
    \/ pc[t] = "stamping"
    \/ pc[t] = "saving" /\ request[t].event.type = "applied"

\* Inductive: a promotion is told or someone is about to tell it.
AuditInv ==
    (promotion # NoPromotion /\ failures = 0) =>
        \/ \E i \in DOMAIN events : events[i].type = "applied"
        \/ \E t \in Threads : Owes(t)

LEMMA NextAudit == TypeOK /\ AuditInv /\ [Next]_vars => AuditInv'
<1> SUFFICES ASSUME TypeOK, AuditInv, [Next]_vars,
                    promotion' # NoPromotion, failures' = 0
             PROVE  \/ \E i \in DOMAIN events' : events'[i].type = "applied"
                    \/ \E t \in Threads : Owes(t)'
    BY DEF AuditInv
<1>1. /\ Grows /\ Len(events) \in Nat /\ Len(events') \in Nat
      /\ DOMAIN events = 1 .. Len(events)
      /\ DOMAIN events' = 1 .. Len(events')
  <2>1. TypeOK'
    BY NextTypes
  <2>2. events' \in Seq(Event)
    BY <2>1 DEF TypeOK
  <2>. QED
    BY <2>2, NextGrows, Sizes, LenProperties
<1>2. failures = 0
  <2>1. failures \in Nat
    BY DEF TypeOK
  <2>2. failures' = failures \/ failures' = failures + 1
    BY DEF Next, vars, ThreadStep, IssueGrant, CandidateChanges, Validate,
           Load, ConsumeGrant, FindReceipt, Mistrust, BuildEvent, Stamp,
           SaveEvent, SaveFails, PreflightBlocks, ReadStream, Replay,
           VerifyChain, CheckCandidate, RecordPromotion, RecordConflict,
           ApplySucceeds, ApplyBlocked
  <2>. QED
    BY <2>1, <2>2
<1>3. CASE \E t \in Threads : RecordPromotion(t)
  <2>1. PICK t \in Threads : RecordPromotion(t)
    BY <1>3
  <2>2. pc'[t] = "stamping"
    BY <2>1 DEF RecordPromotion, Goto, TypeOK
  <2>. QED
    BY <2>2 DEF Owes
<1>4. CASE ~ \E t \in Threads : RecordPromotion(t)
  <2>1. promotion # NoPromotion
    BY <1>4
    DEF Next, vars, ThreadStep, IssueGrant, CandidateChanges, Validate,
        Load, ConsumeGrant, FindReceipt, Mistrust, BuildEvent, Stamp,
        SaveEvent, SaveFails, PreflightBlocks, ReadStream, Replay,
        VerifyChain, CheckCandidate, RecordConflict,
        ApplySucceeds, ApplyBlocked
  <2>2. CASE \E i \in DOMAIN events : events[i].type = "applied"
    BY <1>1, <2>2 DEF Grows
  <2>3. CASE \E t \in Threads : Owes(t)
    <3>1. PICK t \in Threads : Owes(t)
      BY <2>3
    <3>2. CASE pc'[t] = pc[t] /\ request'[t] = request[t]
      BY <3>1, <3>2 DEF Owes
    <3>3. CASE ApplySucceeds(t)
      <4>1. pc'[t] = "saving" /\ request'[t].event.type = "applied"
        <5>1. "applied" \in EventTypes /\ Stamp(t, "applied")
          BY <3>3 DEF ApplySucceeds, EventTypes, Applies
        <5>2. /\ pc'[t] = "saving"
              /\ request'[t].event = [type |-> "applied", at |-> clock,
                                      trust |-> request[t].trust]
          BY <5>1, StampFacts
        <5>. QED
          BY <5>2
      <4>. QED
        BY <4>1 DEF Owes
    <3>4. CASE SaveEvent(t)
      <4>1. request[t].event.type = "applied" /\ request[t].event \in Event
        BY <3>1, <3>4 DEF Owes, SaveEvent, TypeOK
      <4>2. /\ Len(events') = Len(events) + 1
            /\ events'[Len(events) + 1] = request[t].event
        BY <3>4, <4>1 DEF SaveEvent, TypeOK
      <4>. QED
        BY <1>1, <4>1, <4>2
    <3>5. CASE SaveFails(t)
      BY <1>2, <3>5 DEF SaveFails
    <3>6. pc[t] \in {"stamping", "saving"}
      BY <3>1 DEF Owes
    <3>7. ASSUME NEW u \in Threads \ {t},
                 \/ \E op \in Operations, token \in {0} \cup DOMAIN grants :
                       Load(u, op, token)
                 \/ ThreadStep(u)
          PROVE  pc'[t] = pc[t] /\ request'[t] = request[t]
      BY <3>7
      DEF TypeOK, ThreadStep, Load, ConsumeGrant, FindReceipt, Mistrust,
          BuildEvent, Stamp, SaveEvent, SaveFails, PreflightBlocks,
          ReadStream, Replay, VerifyChain, CheckCandidate, RecordPromotion,
          RecordConflict, ApplySucceeds, ApplyBlocked, Finish, Goto
    <3>8. CASE IssueGrant \/ CandidateChanges \/ Validate \/ UNCHANGED vars
      BY <3>2, <3>8 DEF IssueGrant, CandidateChanges, Validate, vars
    <3>9. CASE \/ \E op \in Operations, token \in {0} \cup DOMAIN grants :
                     Load(t, op, token)
               \/ ThreadStep(t)
      BY <3>3, <3>4, <3>5, <3>6, <3>9
      DEF ThreadStep, Load, ConsumeGrant, FindReceipt, Mistrust, BuildEvent,
          PreflightBlocks, ReadStream, Replay, VerifyChain, CheckCandidate,
          RecordPromotion, RecordConflict
    <3>. QED
      BY <3>2, <3>7, <3>8, <3>9 DEF Next
  <2>. QED
    BY <1>2, <2>1, <2>2, <2>3 DEF AuditInv
<1>. QED
    BY <1>3, <1>4

\* No promotion stays untold once its request has ended, unless its event
\* could not be saved (the apply, and the receipt it records before).
THEOREM PromotionsAreAudited == Spec => []PromotionIsAudited
<1>1. Init => TypeOK /\ AuditInv
    BY InitTypes DEF Init, AuditInv
<1>2. (TypeOK /\ AuditInv) /\ [Next]_vars => (TypeOK /\ AuditInv)'
    BY NextTypes, NextAudit
<1>3. AuditInv => PromotionIsAudited
    BY DEF AuditInv, Owes, PromotionIsAudited
<1>. QED
    BY <1>1, <1>2, <1>3, PTL DEF Spec

-----------------------------------------------------------------------------
\* What was said and promoted stays.

\* The audit stream and the receipts are only appended to, and the first
\* promotion is kept: no later apply, conflict or replay replaces the receipt
\* or what it names (record_research_fact_promotion_receipt).
THEOREM PromotionsAreFinal == Spec => [][Grows]_vars
<1>1. TypeOK /\ [Next]_vars => [Grows]_vars
    BY NextGrows
<1>. QED
    BY <1>1, TypeCorrect, PTL DEF Spec

=============================================================================
