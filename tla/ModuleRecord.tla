---------------------------- MODULE ModuleRecord ----------------------------
(***************************************************************************)
(* The per-module containers of src/src/broker/module.c, all used on the   *)
(* broker thread: the list of pending rmmod requests (zlist p->rmmod), the *)
(* single pending insmod request (p->insmod), and the subscription list    *)
(* (zlist p->subs) consulted by module_event_cast().                       *)
(*                                                                         *)
(* A czmq zlist is a sequence: zlist_push() puts an item at the head,      *)
(* zlist_pop() takes it from the head, zlist_first()/zlist_next() iterate  *)
(* from the head.  A topic is a sequence over a small alphabet so that     *)
(* strstarts() is a prefix test on it.  The copy and allocation failures  *)
(* of the push and subscribe functions leave the containers unchanged and *)
(* are not modelled.                                                       *)
(***************************************************************************)
EXTENDS Naturals, Sequences, SequencesExt, FiniteSets

CONSTANTS
    Msgs,      \* admin request messages (model values)
    Topics,    \* topic strings, as sequences of characters
    MaxOps,    \* bound on subscribe/unsubscribe/event_cast calls
    NoMsg      \* NULL

ASSUME /\ NoMsg \notin Msgs
       /\ Topics \subseteq Seq(STRING) \/ Topics \subseteq Seq(Nat)
       /\ MaxOps \in Nat

VARIABLES
    rmmod,        \* p->rmmod, head first
    insmod,       \* p->insmod
    subs,         \* p->subs, head first
    subCount,     \* per topic: subscribe calls not yet undone by unsubscribe
    lastCast,     \* topic, outcome and subCount of the last module_event_cast()
    ops           \* calls made so far, bounded by MaxOps

vars == <<rmmod, insmod, subs, subCount, lastCast, ops>>

NoCast == [topic |-> <<>>, delivered |-> FALSE, counts |-> [s \in Topics |-> 0]]

Init ==
    /\ rmmod = <<>>
    /\ insmod = NoMsg
    /\ subs = <<>>
    /\ subCount = [s \in Topics |-> 0]
    /\ lastCast = NoCast
    /\ ops = 0

-----------------------------------------------------------------------------
\* strstarts(topic, s)
StrStarts(topic, s) ==
    /\ Len(s) <= Len(topic)
    /\ SubSeq(topic, 1, Len(s)) = s

\* Mutant: only the head of the list is compared.
MatchSubHeadOnly(list, topic) ==
    list # <<>> /\ StrStarts(topic, Head(list))

\* match_sub(): walk the list from the head until a prefix of topic is found.
RECURSIVE MatchSub(_, _)
MatchSub(list, topic) ==
    IF list = <<>> THEN FALSE
    ELSE StrStarts(topic, Head(list)) \/ MatchSub(Tail(list), topic)

-----------------------------------------------------------------------------
\* module_push_rmmod(): a copy of msg is pushed on the list.
PushRmmod(m) ==
    /\ ops < MaxOps
    /\ ops' = ops + 1
    /\ rmmod' = <<m>> \o rmmod
    /\ UNCHANGED <<insmod, subs, subCount, lastCast>>

\* module_pop_rmmod(): zlist_pop() of a non-empty list.
PopRmmod ==
    /\ rmmod # <<>>
    /\ rmmod' = Tail(rmmod)
    /\ UNCHANGED <<insmod, subs, subCount, lastCast, ops>>

\* module_push_insmod(): "there can be only one": a prior request is
\* destroyed and replaced.
PushInsmod(m) ==
    /\ insmod' = m
    /\ UNCHANGED <<rmmod, subs, subCount, lastCast, ops>>

\* module_pop_insmod(): take the request and leave NULL.
PopInsmod ==
    /\ insmod # NoMsg
    /\ insmod' = NoMsg
    /\ UNCHANGED <<rmmod, subs, subCount, lastCast, ops>>

\* module_subscribe(): a copy of topic is pushed on the list.
Subscribe(s) ==
    /\ ops < MaxOps
    /\ ops' = ops + 1
    /\ subs' = <<s>> \o subs
    /\ subCount' = [subCount EXCEPT ![s] = @ + 1]
    /\ UNCHANGED <<rmmod, insmod, lastCast>>

\* Mutant: every entry equal to topic is removed.
UnsubscribeAll(s) ==
    /\ ops < MaxOps
    /\ ops' = ops + 1
    /\ subs' = SelectSeq(subs, LAMBDA x : x # s)
    /\ subCount' = [subCount EXCEPT ![s] = IF @ > 0 THEN @ - 1 ELSE 0]
    /\ UNCHANGED <<rmmod, insmod, lastCast>>

\* module_unsubscribe(): the first entry equal to topic is removed; a topic
\* that is not subscribed leaves the list unchanged.
Unsubscribe(s) ==
    /\ ops < MaxOps
    /\ ops' = ops + 1
    /\ subs' = RemoveFirst(subs, s)
    /\ subCount' = [subCount EXCEPT ![s] = IF @ > 0 THEN @ - 1 ELSE 0]
    /\ UNCHANGED <<rmmod, insmod, lastCast>>

\* module_event_cast(): the event is sent to the module iff match_sub().
EventCast(topic) ==
    /\ ops < MaxOps
    /\ ops' = ops + 1
    /\ lastCast' = [topic |-> topic, delivered |-> MatchSub(subs, topic),
                    counts |-> subCount]
    /\ UNCHANGED <<rmmod, insmod, subs, subCount>>

Next ==
    \/ \E m \in Msgs : PushRmmod(m)
    \/ PopRmmod
    \/ \E m \in Msgs : PushInsmod(m)
    \/ PopInsmod
    \/ \E s \in Topics : Subscribe(s) \/ Unsubscribe(s) \/ EventCast(s)

Spec == Init /\ [][Next]_vars

-----------------------------------------------------------------------------
TypeOK ==
    /\ rmmod \in Seq(Msgs)
    /\ insmod \in Msgs \cup {NoMsg}
    /\ subs \in Seq(Topics)
    /\ subCount \in [Topics -> 0..MaxOps]
    /\ lastCast.delivered \in BOOLEAN
    /\ ops \in 0..MaxOps

\* Spec 4.5: an event is delivered iff some subscribed topic is a prefix of
\* its topic, where subscriptions are reference counted: a topic stays
\* subscribed while it was subscribed more times than unsubscribed.
\* Relates the list kept by module_subscribe()/module_unsubscribe() and
\* scanned by match_sub() to the history of calls.
EventCastMatchesSubscriptions ==
    lastCast # NoCast =>
        (lastCast.delivered <=>
            \E s \in Topics : lastCast.counts[s] > 0
                             /\ StrStarts(lastCast.topic, s))

=============================================================================
