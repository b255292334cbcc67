--------------------------- MODULE GwIntrospection --------------------------
(***************************************************************************)
(* The introspection API: the gateway publishes which publishers and which *)
(* subscriber services of the device it has registered, and applications   *)
(* ask whether an item is among them (hasGwRegistered and                  *)
(* hasServiceRegistered) or wait until it is (waitForGwRegistration and    *)
(* waitForServiceRegistration).                                            *)
(*                                                                         *)
(* The two functions of each kind differ only in the part of the sample    *)
(* that they search: an item is a publisher or a service.  External: RouDi *)
(* connects and disconnects subscribers some time after they ask for it,   *)
(* and only while the gateway offers the service; with the connection      *)
(* comes the last sample.  A queue holds one sample, the newest.           *)
(***************************************************************************)
EXTENDS Integers, FiniteSets

CONSTANTS
    Clients,        \* threads of applications that call the API
    Items,          \* publishers and services
    Timeouts,       \* arguments of the wait functions, in nanoseconds
    Width,          \* bits of a number of nanoseconds
    MaxReads,       \* bound: changes that the gateway reads from RouDi
    MaxStarts,      \* bound: starts of the gateway
    NoSample, NoItem

ASSUME IntrospectionAssumption ==
    /\ Width \in Nat \ {0} /\ Timeouts \subseteq 0 .. 2^Width - 1
    /\ MaxReads \in Nat /\ MaxStarts \in Nat \ {0}
    /\ NoItem \notin Items

VARIABLES
    running,        \* the gateway runs and offers IntrospectionGwService
    starts, reads,  \* numbers of starts and of changes read so far
    local,          \* m_localState
    unpublished,    \* waitsetLoop has read a change and not yet published it
    published,      \* the last sample of m_gwIntrospectionPublisher
    client,         \* the calls
    sub             \* the subscribers of the calls

gatewayVars == <<running, starts, reads, local, unpublished, published>>
vars == <<gatewayVars, client, sub>>

-----------------------------------------------------------------------------
Samples == SUBSET Items

\* subscribing and unsubscribing: the loops that spin on getSubscriptionState.
Points == {"idle", "subscribing", "subscribed", "attaching", "waiting", "looping",
           "unsubscribing"}

\* seen, missed: history, the item was, or was not, in the last sample at some
\* moment of the call.  waited: history, the call has entered timedWait.
Client == [at : Points, item : Items \cup {NoItem}, waits : BOOLEAN, timeout : Timeouts \cup {0},
           hasRegistered : BOOLEAN, waited : BOOLEAN, attachFailed : BOOLEAN,
           seen : BOOLEAN, missed : BOOLEAN]

Subscriber == [state : {"none", "requested", "subscribed", "leaving"},
               data : Samples \cup {NoSample}]

NoSubscriber == [state |-> "none", data |-> NoSample]

Listed(item, sample) == sample # NoSample /\ item \in sample

\* History: the calls take notice of what is published now.
Noticed(calls, sample) ==
    [c \in Clients |->
        IF calls[c].at = "idle" THEN calls[c]
        ELSE [calls[c] EXCEPT !.seen = @ \/ Listed(calls[c].item, sample),
                              !.missed = @ \/ ~Listed(calls[c].item, sample)]]

\* std::chrono::nanoseconds{timeout.toNanoseconds()}: an unsigned number
\* becomes a signed one.
ToSigned(t) == IF t < 2^(Width - 1) THEN t ELSE t - 2^Width

\* The clock of std::chrono::steady_clock, a signed number of nanoseconds.
Times == 0 .. 2^(Width - 1) - 1

\* end = now + timeout, and now < end.  An overflow of the sum is undefined.
HasTimeLeft(now, timeout) ==
    {left \in BOOLEAN : LET end == now + ToSigned(timeout)
                        IN  end < 2^(Width - 1) => (left <=> now < end)}

Init ==
    /\ running = TRUE /\ starts = 1 /\ reads = 0
    /\ local = {} /\ unpublished = FALSE /\ published = NoSample
    /\ client = [c \in Clients |->
          [at |-> "idle", item |-> NoItem, waits |-> FALSE, timeout |-> 0,
           hasRegistered |-> FALSE, waited |-> FALSE, attachFailed |-> FALSE,
           seen |-> FALSE, missed |-> FALSE]]
    /\ sub = [c \in Clients |-> NoSubscriber]

-----------------------------------------------------------------------------
(***************************************************************************)
(* The gateway and RouDi.                                                  *)
(***************************************************************************)

\* readPortSubscriber
ReadPorts(items) ==
    /\ running /\ ~unpublished /\ reads < MaxReads
    /\ reads' = reads + 1
    /\ local' = items
    /\ unpublished' = TRUE
    /\ UNCHANGED <<running, starts, published, client, sub>>

\* waitsetLoop publishes the local state.
Publish ==
    /\ unpublished
    /\ published' = local
    /\ unpublished' = FALSE
    /\ sub' = [c \in Clients |-> IF sub[c].state = "subscribed"
                                 THEN [sub[c] EXCEPT !.data = local] ELSE sub[c]]
    /\ client' = Noticed(client, local)
    /\ UNCHANGED <<running, starts, reads, local>>

\* loan has failed: the sample is left out, until the next change.
PublishFails ==
    /\ unpublished
    /\ unpublished' = FALSE
    /\ UNCHANGED <<running, starts, reads, local, published, client, sub>>

\* The gateway ends, and its subscribers wait for another one.
Stop ==
    /\ running
    /\ running' = FALSE
    /\ local' = {} /\ unpublished' = FALSE /\ published' = NoSample
    /\ sub' = [c \in Clients |-> IF sub[c].state = "subscribed"
                                 THEN [sub[c] EXCEPT !.state = "requested"] ELSE sub[c]]
    /\ client' = Noticed(client, NoSample)
    /\ UNCHANGED <<starts, reads>>

Start ==
    /\ ~running /\ starts < MaxStarts
    /\ running' = TRUE
    /\ starts' = starts + 1
    /\ UNCHANGED <<reads, local, unpublished, published, client, sub>>

\* RouDi connects a subscriber to the gateway's publisher.
Connect(c) ==
    /\ running /\ sub[c].state = "requested"
    /\ sub' = [sub EXCEPT ![c] = [state |-> "subscribed",
                                  data |-> IF published = NoSample THEN @.data ELSE published]]
    /\ UNCHANGED <<gatewayVars, client>>

\* RouDi disconnects one that has unsubscribed.
Disconnect(c) ==
    /\ sub[c].state = "leaving"
    /\ sub' = [sub EXCEPT ![c] = NoSubscriber]
    /\ UNCHANGED <<gatewayVars, client>>

-----------------------------------------------------------------------------
(***************************************************************************)
(* The functions of the API.                                               *)
(***************************************************************************)

\* A call begins with a new subscriber (the port of an earlier one that was
\* left to RouDi is another).
Call(c, item, waits, timeout) ==
    /\ client[c].at = "idle"
    /\ client' = [client EXCEPT ![c] =
          [at |-> "subscribing", item |-> item, waits |-> waits,
           timeout |-> IF waits THEN timeout ELSE 0,
           hasRegistered |-> FALSE, waited |-> FALSE, attachFailed |-> FALSE,
           seen |-> Listed(item, published), missed |-> ~Listed(item, published)]]
    /\ sub' = [sub EXCEPT ![c] = [state |-> "requested", data |-> NoSample]]
    /\ UNCHANGED gatewayVars

\* Mutant: the loop ends with the first sample.
SeesSample(c) ==
    /\ client[c].at = "subscribing" /\ sub[c].data # NoSample
    /\ client' = [client EXCEPT ![c].at = "subscribed"]
    /\ UNCHANGED <<gatewayVars, sub>>

\* Mutant: the loop ends as soon as the subscriber has asked, before RouDi has
\* connected it.
SeesSubscribedEarly(c) ==
    /\ client[c].at = "subscribing" /\ sub[c].state \in {"requested", "subscribed"}
    /\ client' = [client EXCEPT ![c].at = "subscribed"]
    /\ UNCHANGED <<gatewayVars, sub>>

\* The first loop ends.
SeesSubscribed(c) ==
    /\ client[c].at = "subscribing" /\ sub[c].state = "subscribed"
    /\ client' = [client EXCEPT ![c].at = "subscribed"]
    /\ UNCHANGED <<gatewayVars, sub>>

\* take with takeLambda: hasRegistered becomes what the sample says.
Registered(c) ==
    IF sub[c].data = NoSample THEN client[c].hasRegistered
    ELSE client[c].item \in sub[c].data

TakeFirst(c) ==
    /\ client[c].at = "subscribed"
    /\ client' = [client EXCEPT ![c].hasRegistered = Registered(c),
                                ![c].at = IF client[c].waits /\ ~Registered(c)
                                          THEN "attaching" ELSE "unsubscribing"]
    /\ sub' = [sub EXCEPT ![c].data = NoSample]
    /\ UNCHANGED gatewayVars

\* Mutant: the attachment drops what is queued, as one to the event would.
AttachToEvent(c) ==
    /\ client[c].at = "attaching"
    /\ \E now \in Times : \E left \in HasTimeLeft(now, client[c].timeout) :
          client' = [client EXCEPT ![c].at = IF left THEN "waiting" ELSE "unsubscribing",
                                   ![c].waited = left]
    /\ sub' = [sub EXCEPT ![c].data = NoSample]
    /\ UNCHANGED gatewayVars

\* attachState, and the computation of the end of the wait.
Attach(c) ==
    /\ client[c].at = "attaching"
    /\ \E now \in Times : \E left \in HasTimeLeft(now, client[c].timeout) :
          client' = [client EXCEPT ![c].at = IF left THEN "waiting" ELSE "unsubscribing",
                                   ![c].waited = left]
    /\ UNCHANGED <<gatewayVars, sub>>

\* attachState fails: false is returned at once, and the destructor of the
\* subscriber unsubscribes without waiting for it.
AttachFails(c) ==
    /\ client[c].at = "attaching"
    /\ client' = [client EXCEPT ![c].at = "idle", ![c].attachFailed = TRUE]
    /\ sub' = [sub EXCEPT ![c].state = "leaving", ![c].data = NoSample]
    /\ UNCHANGED gatewayVars

\* timedWait is notified of the state HAS_DATA, and the sample is taken.
WakeUp(c) ==
    /\ client[c].at = "waiting" /\ sub[c].data # NoSample
    /\ client' = [client EXCEPT ![c].hasRegistered = Registered(c),
                                ![c].at = IF Registered(c) THEN "unsubscribing" ELSE "looping"]
    /\ sub' = [sub EXCEPT ![c].data = NoSample]
    /\ UNCHANGED gatewayVars

\* The condition of the loop: there is time left, or there is none.
WaitAgain(c) ==
    /\ client[c].at = "looping"
    /\ client' = [client EXCEPT ![c].at = "waiting"]
    /\ UNCHANGED <<gatewayVars, sub>>

TimeIsOver(c) ==
    /\ \/ client[c].at = "looping"
       \/ client[c].at = "waiting" /\ sub[c].data = NoSample
    /\ client' = [client EXCEPT ![c].at = "unsubscribing"]
    /\ UNCHANGED <<gatewayVars, sub>>

\* unsubscribe, followed by the last loop.
Unsubscribe(c) ==
    /\ client[c].at = "unsubscribing" /\ sub[c].state \in {"requested", "subscribed"}
    /\ sub' = [sub EXCEPT ![c].state = "leaving"]
    /\ UNCHANGED <<gatewayVars, client>>

Return(c) ==
    /\ client[c].at = "unsubscribing" /\ sub[c].state = "none"
    /\ client' = [client EXCEPT ![c].at = "idle"]
    /\ UNCHANGED <<gatewayVars, sub>>

-----------------------------------------------------------------------------
ClientStep(c) ==
    \/ SeesSubscribed(c) \/ TakeFirst(c) \/ Attach(c) \/ AttachFails(c) \/ WakeUp(c)
    \/ WaitAgain(c) \/ Unsubscribe(c) \/ Return(c)

Next ==
    \/ \E items \in Samples : ReadPorts(items)
    \/ Publish \/ PublishFails \/ Stop \/ Start
    \/ \E c \in Clients :
          \/ \E i \in Items, w \in BOOLEAN, t \in Timeouts : Call(c, i, w, t)
          \/ Connect(c) \/ Disconnect(c) \/ ClientStep(c) \/ TimeIsOver(c)

Spec == Init /\ [][Next]_vars

\* RouDi serves subscribers and the threads of the callers run.  Nothing is
\* assumed of timeouts, which may be longer than any run.
Fairness ==
    \A c \in Clients : WF_vars(Connect(c)) /\ WF_vars(Disconnect(c)) /\ WF_vars(ClientStep(c))

FairSpec == Spec /\ Fairness

-----------------------------------------------------------------------------
TypeOK ==
    /\ running \in BOOLEAN /\ unpublished \in BOOLEAN
    /\ starts \in 1 .. MaxStarts /\ reads \in 0 .. MaxReads
    /\ local \in Samples /\ published \in Samples \cup {NoSample}
    /\ client \in [Clients -> Client]
    /\ sub \in [Clients -> Subscriber]

\* AnswerJustified: whatever the gateway publishes during a call, and even if
\* it stops and starts again, the answer of the call was right at some moment
\* of it: true means that the gateway had registered the item, false that it
\* had not.
AnswerJustified ==
    \A c \in Clients :
        client[c].item # NoItem /\ client[c].at \in {"unsubscribing", "idle"} =>
            IF client[c].hasRegistered THEN client[c].seen ELSE client[c].missed

\* WaitsForRegistration: "make it possible to wait for the gateway registration":
\* with the default timeout, Duration::max(), the wait functions answer false
\* only after they have waited.  Not so in MCIntrospection: the number of
\* nanoseconds saturates, and becomes -1 as a signed number.
WaitsForRegistration ==
    \A c \in Clients :
        (/\ client[c].waits /\ client[c].at \in {"unsubscribing", "idle"}
         /\ ~client[c].hasRegistered /\ ~client[c].attachFailed
         /\ client[c].timeout = 2^Width - 1)
            => client[c].waited

\* Answered: "make it possible to wait for the gateway registration": a call for
\* an item that the gateway has registered for good returns, without help of
\* the timeout: no publication is missed between the first look, the attachment
\* to the waitset and the wait.
Answered ==
    \A c \in Clients, i \in Items :
        (client[c].at # "idle" /\ client[c].item = i /\ [](running /\ Listed(i, published)))
            ~> client[c].at = "idle"

\* Returns: when the gateway runs from some time on, and time passes, every
\* call returns, although the gateway stopped and started again at any moment
\* of it, has published nothing, or no sample could be loaned.
Returns ==
    \A c \in Clients :
        <>[]running /\ SF_vars(TimeIsOver(c)) => (client[c].at # "idle" ~> client[c].at = "idle")
=============================================================================
