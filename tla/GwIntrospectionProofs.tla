----------------------- MODULE GwIntrospectionProofs ------------------------
(***************************************************************************)
(* Proofs about GwIntrospection, for any number of callers, items and      *)
(* starts of the gateway.                                                  *)
(***************************************************************************)
EXTENDS GwIntrospection, TLAPS

-----------------------------------------------------------------------------
(***************************************************************************)
(* The inductive invariants.                                               *)
(***************************************************************************)

\* The history of a call that is under way accounts for a sample.
Accounts(call, sample) ==
    IF Listed(call.item, sample) THEN call.seen ELSE call.missed

\* Before its answer is decided, a call has found nothing.
Undecided == {"subscribing", "subscribed", "attaching", "waiting", "looping"}

\* CallInv: a call under way has noticed what is published now and what its
\* subscriber holds; one that has looked without finding the item, or will
\* look into an empty queue, has missed it; and an answer is justified.
CallInv(call, s) ==
    /\ call.at # "idle" =>
          /\ Accounts(call, published)
          /\ s.data # NoSample => Accounts(call, s.data)
    /\ call.at \in Undecided => ~call.hasRegistered /\ s.state \in {"requested", "subscribed"}
    /\ call.at = "subscribing" /\ s.state = "subscribed" /\ s.data = NoSample => call.missed
    /\ call.at = "subscribed" /\ s.data = NoSample => call.missed
    /\ call.at \in {"attaching", "waiting", "looping"} => call.missed
    /\ call.item # NoItem /\ call.at \in {"unsubscribing", "idle"} =>
          IF call.hasRegistered THEN call.seen ELSE call.missed

CallsInv == \A c \in Clients : CallInv(client[c], sub[c])

-----------------------------------------------------------------------------
(***************************************************************************)
(* Types.                                                                  *)
(***************************************************************************)

\* A call with typed fields.
LEMMA ClientRecord ==
    ASSUME NEW a \in Points, NEW i \in Items \cup {NoItem}, NEW w \in BOOLEAN,
           NEW t \in Timeouts \cup {0}, NEW hr \in BOOLEAN, NEW wt \in BOOLEAN,
           NEW f \in BOOLEAN, NEW s \in BOOLEAN, NEW m \in BOOLEAN
    PROVE  [at |-> a, item |-> i, waits |-> w, timeout |-> t, hasRegistered |-> hr,
            waited |-> wt, attachFailed |-> f, seen |-> s, missed |-> m] \in Client
  BY DEF Client

\* The fields of a call.
LEMMA ClientFields ==
    ASSUME NEW call \in Client
    PROVE  /\ call.at \in Points /\ call.item \in Items \cup {NoItem}
           /\ call.timeout \in Timeouts \cup {0} /\ call.waits \in BOOLEAN
           /\ call.hasRegistered \in BOOLEAN /\ call.waited \in BOOLEAN
           /\ call.attachFailed \in BOOLEAN /\ call.seen \in BOOLEAN
           /\ call.missed \in BOOLEAN
  BY DEF Client

\* Taking notice of a sample keeps the types of the calls.
LEMMA NoticedType ==
    ASSUME client \in [Clients -> Client], NEW sample
    PROVE  Noticed(client, sample) \in [Clients -> Client]
  <1> SUFFICES ASSUME NEW c \in Clients
               PROVE  [client[c] EXCEPT !.seen = @ \/ Listed(client[c].item, sample),
                                        !.missed = @ \/ ~Listed(client[c].item, sample)]
                          \in Client
    BY DEF Noticed
  <1> DEFINE s == client[c].seen \/ Listed(client[c].item, sample)
             m == client[c].missed \/ ~Listed(client[c].item, sample)
  <1> s \in BOOLEAN /\ m \in BOOLEAN
    OBVIOUS
  <1> HIDE DEF s, m
  <1>1. client[c] \in Client
    OBVIOUS
  <1> QED
    BY <1>1 DEF Client

\* The initial state has the right types.
LEMMA TypeInit == Init => TypeOK
  <1> SUFFICES ASSUME Init PROVE TypeOK
    OBVIOUS
  <1>1. sub \in [Clients -> Subscriber]
    BY DEF Init, Subscriber, NoSubscriber
  <1> DEFINE no == FALSE
             r == [at |-> "idle", item |-> NoItem, waits |-> no, timeout |-> 0,
                   hasRegistered |-> no, waited |-> no, attachFailed |-> no,
                   seen |-> no, missed |-> no]
  <1>a. client = [c \in Clients |-> r]
    BY DEF Init
  <1>b. no \in BOOLEAN
    OBVIOUS
  <1> HIDE DEF no
  <1>c. r \in Client
    BY <1>b, ClientRecord, ZenonT(40) DEF Points
  <1>2. client \in [Clients -> Client]
    BY <1>a, <1>c
  <1>3. running \in BOOLEAN /\ unpublished \in BOOLEAN
    BY DEF Init
  <1>4. starts \in 1 .. MaxStarts /\ reads \in 0 .. MaxReads
    BY IntrospectionAssumption DEF Init
  <1>5. local \in Samples /\ published \in Samples \cup {NoSample}
    BY DEF Init, Samples
  <1> QED
    BY <1>1, <1>2, <1>3, <1>4, <1>5 DEF TypeOK

\* Every step keeps the types.
LEMMA TypeNext == TypeOK /\ [Next]_vars => TypeOK'
  <1> SUFFICES ASSUME TypeOK, [Next]_vars PROVE TypeOK'
    OBVIOUS
  <1> USE IntrospectionAssumption DEF TypeOK, gatewayVars
  <1>1. ASSUME NEW items \in Samples, ReadPorts(items) PROVE TypeOK'
    BY <1>1 DEF ReadPorts
  <1>2. CASE Publish
    <2>1. client' \in [Clients -> Client]
      BY <1>2, NoticedType DEF Publish
    <2>2. sub' \in [Clients -> Subscriber]
      BY <1>2 DEF Publish, Subscriber
    <2> QED
      BY <1>2, <2>1, <2>2 DEF Publish
  <1>3. CASE PublishFails
    BY <1>3 DEF PublishFails
  <1>4. CASE Stop
    <2>1. client' \in [Clients -> Client]
      BY <1>4, NoticedType DEF Stop
    <2>2. sub' \in [Clients -> Subscriber]
      BY <1>4 DEF Stop, Subscriber
    <2> QED
      BY <1>4, <2>1, <2>2 DEF Stop, Samples
  <1>5. CASE Start
    BY <1>5 DEF Start
  <1>6. ASSUME NEW c \in Clients PROVE Connect(c) \/ Disconnect(c) => TypeOK'
    BY DEF Connect, Disconnect, Subscriber, NoSubscriber
  <1>7. ASSUME NEW c \in Clients, NEW i \in Items, NEW w \in BOOLEAN, NEW t \in Timeouts,
               Call(c, i, w, t)
        PROVE  TypeOK'
    <2> DEFINE no == FALSE
               time == IF w THEN t ELSE 0
               s == Listed(i, published)
               m == ~Listed(i, published)
               r == [at |-> "subscribing", item |-> i, waits |-> w,
                     timeout |-> time, hasRegistered |-> no,
                     waited |-> no, attachFailed |-> no, seen |-> s, missed |-> m]
    <2>1. client' = [client EXCEPT ![c] = r]
      BY <1>7 DEF Call
    <2>2. s \in BOOLEAN /\ m \in BOOLEAN /\ no \in BOOLEAN /\ time \in Timeouts \cup {0}
      BY DEF Listed
    <2> HIDE DEF s, m, no, time
    <2>3. r \in Client
      <3> "subscribing" \in Points /\ i \in Items \cup {NoItem}
        BY DEF Points
      <3> QED
        BY <2>2, ClientRecord, SMT, SMTT(30)
    <2> QED
      BY <1>7, <2>1, <2>3, ZenonT(40) DEF Call, Subscriber
  <1>8. ASSUME NEW c \in Clients, ClientStep(c) \/ TimeIsOver(c) PROVE TypeOK'
    <2> DEFINE b == Registered(c)
    <2>1. client[c] \in Client
      OBVIOUS
    <2>a. b \in BOOLEAN
      <3>1. client[c].hasRegistered \in BOOLEAN
        BY <2>1, ClientFields
      <3> DEFINE x == client[c].item \in sub[c].data
      <3>2. x \in BOOLEAN
        OBVIOUS
      <3>3. b = IF sub[c].data = NoSample THEN client[c].hasRegistered ELSE x
        BY DEF Registered
      <3> HIDE DEF x, b
      <3> QED
        BY <3>1, <3>2, <3>3
    <2> HIDE DEF b
    <2>2. CASE SeesSubscribed(c) \/ WaitAgain(c) \/ TimeIsOver(c) \/ Return(c)
      BY <2>1, <2>2 DEF SeesSubscribed, WaitAgain, TimeIsOver, Return, Client, Points
    <2>3. CASE Unsubscribe(c)
      BY <2>3 DEF Unsubscribe, Subscriber
    <2>4. CASE TakeFirst(c) \/ WakeUp(c)
      BY <2>1, <2>a, <2>4 DEF TakeFirst, WakeUp, b, Client, Points, Subscriber
    <2>5. CASE Attach(c)
      <3>1. PICK left \in BOOLEAN :
               client' = [client EXCEPT ![c].at = IF left THEN "waiting" ELSE "unsubscribing",
                                        ![c].waited = left]
        BY <2>5 DEF Attach, HasTimeLeft
      <3>2. client' \in [Clients -> Client]
        BY <2>1, <3>1 DEF Client, Points
      <3> QED
        BY <2>5, <3>2 DEF Attach
    <2>6. CASE AttachFails(c)
      <3> DEFINE yes == TRUE
      <3>1. yes \in BOOLEAN /\ client' = [client EXCEPT ![c].at = "idle", ![c].attachFailed = yes]
        BY <2>6 DEF AttachFails
      <3> HIDE DEF yes
      <3>2. client' \in [Clients -> Client]
        BY <2>1, <3>1 DEF Client, Points
      <3> QED
        BY <2>6, <3>2 DEF AttachFails, Subscriber
    <2> QED
      BY <1>8, <2>2, <2>3, <2>4, <2>5, <2>6 DEF ClientStep
  <1>9. CASE UNCHANGED vars
    BY <1>9 DEF vars
  <1> QED
    BY <1>1, <1>2, <1>3, <1>4, <1>5, <1>6, <1>7, <1>8, <1>9 DEF Next

\* TypeCorrectness: all variables keep their types.
THEOREM TypeCorrectness == Spec => []TypeOK
  BY TypeInit, TypeNext, PTL DEF Spec

-----------------------------------------------------------------------------
(***************************************************************************)
(* Answers.                                                                *)
(***************************************************************************)

\* A call that takes notice of a sample has noticed it, and forgets nothing.
LEMMA NoticedCall ==
    ASSUME TypeOK, NEW sample, NEW c \in Clients, client' = Noticed(client, sample)
    PROVE  /\ client'[c].at = client[c].at /\ client'[c].item = client[c].item
           /\ client'[c].hasRegistered = client[c].hasRegistered
           /\ client[c].at = "idle" => client'[c] = client[c]
           /\ client[c].at # "idle" => Accounts(client'[c], sample)
           /\ client[c].seen => client'[c].seen
           /\ client[c].missed => client'[c].missed
  <1> DEFINE listed == Listed(client[c].item, sample)
  <1>1. client[c] \in Client
    BY DEF TypeOK
  <1>2. client'[c] = IF client[c].at = "idle" THEN client[c]
                     ELSE [client[c] EXCEPT !.seen = @ \/ listed, !.missed = @ \/ ~listed]
    BY DEF Noticed
  <1>3. Accounts(client'[c], sample) =
            IF Listed(client'[c].item, sample) THEN client'[c].seen ELSE client'[c].missed
    BY DEF Accounts
  <1>4. CASE client[c].at = "idle"
    BY <1>2, <1>4
  <1>5. CASE client[c].at # "idle"
    <2>1. /\ client'[c].seen = (client[c].seen \/ listed)
          /\ client'[c].missed = (client[c].missed \/ ~listed)
          /\ client'[c].at = client[c].at /\ client'[c].item = client[c].item
          /\ client'[c].hasRegistered = client[c].hasRegistered
      BY <1>1, <1>2, <1>5 DEF Client
    <2> QED
      BY <2>1, <1>3, <1>5
  <1> QED
    BY <1>4, <1>5

\* The first state: nobody has called.
LEMMA CallsInit == Init => CallsInv
  BY DEF Init, CallsInv, CallInv, Undecided, NoSubscriber

\* Every step keeps CallsInv.
LEMMA CallsNext == TypeOK /\ CallsInv /\ [Next]_vars => CallsInv'
  <1> SUFFICES ASSUME TypeOK, CallsInv, [Next]_vars, NEW d \in Clients
               PROVE  CallInv(client[d], sub[d])'
    BY DEF CallsInv
  <1>a. CallInv(client[d], sub[d]) /\ client[d] \in Client /\ sub[d] \in Subscriber
    BY DEF CallsInv, TypeOK
  <1>b. client[d].at \in Points
    BY <1>a, ClientFields
  <1>1. CASE (\E items \in Samples : ReadPorts(items)) \/ PublishFails \/ Start
    BY <1>1, <1>a DEF ReadPorts, PublishFails, Start, CallInv, Accounts, Listed
  <1>2. CASE Publish
    <2>1. sub'[d].state = sub[d].state
          /\ sub'[d].data = IF sub[d].state = "subscribed" THEN local ELSE sub[d].data
      BY <1>2, <1>a DEF Publish, TypeOK, Subscriber
    <2>2. published' = local /\ client' = Noticed(client, local)
      BY <1>2 DEF Publish
    <2> QED
      BY <1>a, <2>1, <2>2, NoticedCall DEF CallInv, Accounts, Listed, Undecided
  <1>3. CASE Stop
    <2>1. /\ sub'[d].state # "subscribed" /\ sub'[d].data = sub[d].data
          /\ sub'[d].state \in {"requested", sub[d].state}
      BY <1>3, <1>a DEF Stop, TypeOK, Subscriber
    <2>2. published' = NoSample /\ client' = Noticed(client, NoSample)
      BY <1>3 DEF Stop
    <2> QED
      BY <1>a, <2>1, <2>2, NoticedCall DEF CallInv, Accounts, Listed, Undecided
  <1>4. ASSUME NEW c \in Clients, c # d,
               \/ \E i \in Items, w \in BOOLEAN, t \in Timeouts : Call(c, i, w, t)
               \/ Connect(c) \/ Disconnect(c) \/ ClientStep(c) \/ TimeIsOver(c)
        PROVE  CallInv(client[d], sub[d])'
    <2>1. client'[d] = client[d] /\ sub'[d] = sub[d] /\ published' = published
      BY <1>4 DEF TypeOK, gatewayVars, Call, Connect, Disconnect, ClientStep, TimeIsOver,
            SeesSubscribed, TakeFirst, Attach, AttachFails, WakeUp, WaitAgain, Unsubscribe, Return
    <2> QED
      BY <1>a, <2>1 DEF CallInv
  <1>5. ASSUME NEW i \in Items, NEW w \in BOOLEAN, NEW t \in Timeouts, Call(d, i, w, t)
        PROVE  CallInv(client[d], sub[d])'
    <2>1. /\ client'[d].at = "subscribing" /\ client'[d].item = i
          /\ ~client'[d].hasRegistered
          /\ client'[d].seen <=> Listed(i, published)
          /\ client'[d].missed <=> ~Listed(i, published)
          /\ sub'[d] = [state |-> "requested", data |-> NoSample]
          /\ published' = published
      BY <1>5 DEF Call, TypeOK, gatewayVars
    <2> QED
      BY <2>1 DEF CallInv, Accounts, Listed, Undecided
  <1>6. CASE Connect(d)
    <2>1. /\ client'[d] = client[d] /\ published' = published
          /\ sub'[d].state = "subscribed"
          /\ sub'[d].data = IF published = NoSample THEN sub[d].data ELSE published
      BY <1>6 DEF Connect, TypeOK, gatewayVars
    <2> QED
      BY <1>a, <2>1 DEF CallInv, Accounts, Listed, Undecided
  <1>7. CASE Disconnect(d) \/ Unsubscribe(d)
    <2>1. /\ client'[d] = client[d] /\ published' = published
          /\ sub'[d].state # "subscribed" /\ sub'[d].data \in {NoSample, sub[d].data}
          /\ sub[d].state = "leaving" \/ client[d].at = "unsubscribing"
      BY <1>7, <1>a DEF Disconnect, Unsubscribe, NoSubscriber, TypeOK, gatewayVars, Subscriber
    <2> QED
      BY <1>a, <2>1 DEF CallInv, Undecided
  <1>8. CASE SeesSubscribed(d) \/ WaitAgain(d) \/ TimeIsOver(d) \/ Return(d)
    <2>1. /\ published' = published /\ sub' = sub
          /\ client' = [client EXCEPT ![d].at = client'[d].at]
          /\ \/ client[d].at = "subscribing" /\ sub[d].state = "subscribed"
                /\ client'[d].at = "subscribed"
             \/ client[d].at = "looping" /\ client'[d].at = "waiting"
             \/ client[d].at \in {"looping", "waiting"} /\ client'[d].at = "unsubscribing"
             \/ client[d].at = "unsubscribing" /\ client'[d].at = "idle"
      BY <1>8, <1>a DEF SeesSubscribed, WaitAgain, TimeIsOver, Return, TypeOK, gatewayVars, Client
    <2>2. /\ client'[d].item = client[d].item /\ client'[d].seen = client[d].seen
          /\ client'[d].missed = client[d].missed
          /\ client'[d].hasRegistered = client[d].hasRegistered
      BY <2>1, <1>a DEF TypeOK, Client
    <2> QED
      BY <1>a, <2>1, <2>2 DEF CallInv, Accounts, Undecided
  <1>9. CASE TakeFirst(d) \/ WakeUp(d)
    <2>1. /\ published' = published /\ sub'[d].data = NoSample
          /\ sub'[d].state = sub[d].state
          /\ client'[d].hasRegistered = Registered(d)
          /\ client'[d].item = client[d].item /\ client'[d].seen = client[d].seen
          /\ client'[d].missed = client[d].missed
          /\ \/ client[d].at = "subscribed"
             \/ client[d].at = "waiting" /\ sub[d].data # NoSample
          /\ client'[d].at \in {"attaching", "unsubscribing", "looping"}
          /\ client'[d].at # "unsubscribing" => ~Registered(d)
      BY <1>9, <1>a DEF TakeFirst, WakeUp, TypeOK, gatewayVars, Client, Subscriber
    <2>2. Registered(d) => client[d].seen
      BY <1>a, <2>1 DEF Registered, CallInv, Undecided, Accounts, Listed
    <2>3. ~Registered(d) => client[d].missed
      BY <1>a, <2>1 DEF Registered, CallInv, Undecided, Accounts, Listed
    <2>4. Accounts(client[d], published)
      BY <1>a, <2>1 DEF CallInv
    <2> QED
      BY <1>a, <2>1, <2>2, <2>3, <2>4 DEF CallInv, Accounts, Undecided
  <1>10. CASE Attach(d) \/ AttachFails(d)
    <2>1. /\ published' = published /\ sub'[d].data \in {sub[d].data, NoSample}
          /\ client'[d].hasRegistered = client[d].hasRegistered
          /\ client'[d].item = client[d].item /\ client'[d].seen = client[d].seen
          /\ client'[d].missed = client[d].missed
          /\ client[d].at = "attaching"
          /\ client'[d].at \in {"waiting", "unsubscribing", "idle"}
          /\ client'[d].at = "waiting" => sub'[d].state = sub[d].state
      <3>1. CASE Attach(d)
        <4>1. PICK left \in BOOLEAN :
                 client' = [client EXCEPT ![d].at = IF left THEN "waiting" ELSE "unsubscribing",
                                          ![d].waited = left]
          BY <3>1 DEF Attach, HasTimeLeft
        <4> QED
          BY <3>1, <4>1, <1>a DEF Attach, TypeOK, gatewayVars, Client
      <3>2. CASE AttachFails(d)
        BY <3>2, <1>a DEF AttachFails, TypeOK, gatewayVars, Client, Subscriber
      <3> QED
        BY <1>10, <3>1, <3>2
    <2> QED
      BY <1>a, <2>1 DEF CallInv, Accounts, Undecided
  <1>11. CASE UNCHANGED vars
    BY <1>11, <1>a DEF vars, gatewayVars, CallInv, Accounts, Listed
  <1> QED
    BY <1>1, <1>2, <1>3, <1>4, <1>5, <1>6, <1>7, <1>8, <1>9, <1>10, <1>11
       DEF Next, ClientStep

\* AnswersAreJustified: every answer of the introspection API was right at
\* some moment of the call, for any number of callers, changes and restarts.
THEOREM AnswersAreJustified == Spec => []AnswerJustified
  <1>1. CallsInv => AnswerJustified
    BY DEF CallsInv, CallInv, AnswerJustified
  <1> QED
    BY <1>1, TypeInit, TypeNext, CallsInit, CallsNext, PTL DEF Spec
=============================================================================
