----------------------------- MODULE MCExamples -----------------------------
(* The examples for model checking: a subscribing program, a publishing    *)
(* one, the counter two threads share, or a store with messages whose      *)
(* buffers differ in length, so that the encoding key lines up differently *)
(* with each.  One of them runs; the others stay in an initial state of    *)
(* their own.                                                              *)
EXTENDS Persistence, Subscriber, Publisher, Counter

MCEncodeKey == <<1, 0>>
MCMessages == { << <<0>>, <<1>> >>, << <<1, 0>>, <<>>, <<1>> >> }

VARIABLE example

AtRest(e) ==
    /\ e # "store" => store = "memory"
    /\ e # "subscriber" => prog = sync_consume
    /\ e # "publisher" => publisher = async_publish

ExamplesInit ==
    /\ Init /\ SubscriberInit /\ PublisherInit /\ CounterInit
    /\ example \in {"store", "subscriber", "publisher", "counter"}
    /\ AtRest(example)

StoreNext ==
    /\ example = "store" /\ Next
    /\ UNCHANGED <<example, subscriberVars, publisherVars, counterVars>>
SubscribeNext ==
    /\ example = "subscriber" /\ SubscriberNext
    /\ UNCHANGED <<example, vars, publisherVars, counterVars>>
PublishNext ==
    /\ example = "publisher" /\ PublisherNext
    /\ UNCHANGED <<example, vars, subscriberVars, counterVars>>
CountNext ==
    /\ example = "counter" /\ CounterNext
    /\ UNCHANGED <<example, vars, subscriberVars, publisherVars>>

ExamplesSpec ==
    /\ ExamplesInit
    /\ [][StoreNext \/ SubscribeNext \/ PublishNext \/ CountNext]_<<example, vars,
           subscriberVars, publisherVars, counterVars>>
    /\ Fairness /\ PublisherFairness /\ CounterFairness
=============================================================================
