----------------------------- MODULE PriceFeed -----------------------------
(***************************************************************************)
(* What the TWAP oracle promises, without a ring buffer or an accumulator: *)
(* a log of samples that only grows, and a published price that is the     *)
(* time-weighted mean of the ticks of the last WindowLength samples,       *)
(* carried on to the present.                                              *)
(***************************************************************************)
EXTENDS Integers, Sequences

CONSTANTS
    WindowLength,   \* samples a mean is taken over
    Interval,       \* least time between two samples
    MaxTail,        \* most time since the last sample a mean may be carried on for
    Reach,          \* how far one sample may be from the one before
    Tick, InitialPrice,
    to_price(_),
    NONE

VARIABLES
    now,         \* the time
    live,        \* the tick last reported and since when, or NONE
    log,         \* every sample: the tick that held until a time
    published    \* price and time of the last publication, or NONE

vars == <<now, live, log, published>>

Abs(x) == IF x < 0 THEN -x ELSE x
Last == log[Len(log)]

\* The tick nearest to t that one sample can reach from another.
Follow(from, t) ==
    CHOOSE x \in (from - Reach)..(from + Reach) :
        \A y \in (from - Reach)..(from + Reach) : Abs(x - t) <= Abs(y - t)

First == IF Len(log) > WindowLength THEN Len(log) - WindowLength + 1 ELSE 1

\* Tick times duration, summed over the samples after the first of the window.
Body ==
    LET upto[i \in First..Len(log)] ==
            IF i = First THEN 0
            ELSE upto[i - 1] + log[i].tick * (log[i].at - log[i - 1].at)
    IN  upto[Len(log)]

\* Since the last sample the last tick held until another was reported.
SinceLast ==
    LET since == IF live.since < Last.at THEN Last.at ELSE live.since
    IN  Last.tick * (since - Last.at) + Follow(Last.tick, live.tick) * (now - since)

Mean == (Body + SinceLast) \div (now - log[First].at)

Init == now = 0 /\ live = NONE /\ log = <<>> /\ published = NONE

Advance == now' = now + 1 /\ UNCHANGED <<live, log, published>>

Report == /\ \E t \in Tick : live' = [tick |-> t, since |-> now]
          /\ UNCHANGED <<now, log, published>>

Open == /\ log = <<>>
        /\ \E t \in Tick : log' = <<[at |-> now, tick |-> t]>>
        /\ UNCHANGED <<now, live, published>>

Sample == /\ log # <<>> /\ live # NONE
          /\ now - Last.at >= Interval
          /\ log' = Append(log, [at |-> now, tick |-> Follow(Last.tick, live.tick)])
          /\ UNCHANGED <<now, live, published>>

Seed == /\ published = NONE
        /\ \E p \in InitialPrice : published' = [price |-> p, timestamp |-> now]
        /\ UNCHANGED <<now, live, log>>

Publish == /\ Len(log) >= 2 /\ live # NONE /\ published # NONE
           /\ now - Last.at <= MaxTail
           /\ published' = [price |-> to_price(Mean), timestamp |-> now]
           /\ UNCHANGED <<now, live, log>>

Next == Advance \/ Report \/ Open \/ Sample \/ Seed \/ Publish

Spec == Init /\ [][Next]_vars
=============================================================================
