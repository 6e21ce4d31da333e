----------------------------- MODULE EgressQueue -----------------------------
(***************************************************************************)
(* The ordered queue of client-bound responses of one connection           *)
(* (proxy/egress.rs), as operators on the sequence of its slots.  A slot   *)
(* also names the request it was reserved for, which the code does not     *)
(* keep: the properties compare it with what is put into the slot.         *)
(***************************************************************************)
EXTENDS Integers, Sequences, FiniteSetsExt

\* The owner of a query the proxy injects.
Nobody == 0

OriginSlot(r) == [kind |-> "Origin", of |-> r, buf |-> <<>>, sealed |-> FALSE, serving |-> FALSE]

Unsealed(slots) == {i \in DOMAIN slots : slots[i].kind = "Origin" /\ ~slots[i].sealed}

origin_all_sealed(slots) == Unsealed(slots) = {}

oldest_unsealed_origin(slots) == Min(Unsealed(slots))

origin_open(slots, r) == Append(slots, OriginSlot(r))

origin_append(slots, msg) ==
    LET opened == IF origin_all_sealed(slots) THEN origin_open(slots, msg.of) ELSE slots
    IN  [opened EXCEPT ![oldest_unsealed_origin(opened)].buf = Append(@, msg)]

Delivered(slot) == slot.kind = "Origin" /\ slot.sealed /\ slot.buf = <<>>

prune_done(slots) ==
    LET left == {i \in DOMAIN slots : ~Delivered(slots[i])}
    IN  IF left = {} THEN <<>> ELSE SubSeq(slots, Min(left), Len(slots))

origin_seal(slots) ==
    prune_done(IF origin_all_sealed(slots) THEN slots
               ELSE [slots EXCEPT ![oldest_unsealed_origin(slots)].sealed = TRUE])

synth_push(slots, r, msgs) ==
    IF msgs = <<>> THEN slots
    ELSE Append(slots, [OriginSlot(r) EXCEPT !.kind = "Synth", !.buf = msgs])

\* A cache slot holds the message to dispatch.
cache_push(slots, r, msg) == Append(slots, [OriginSlot(r) EXCEPT !.kind = "Cache", !.buf = <<msg>>])

HeadIs(slots, kind) == slots # <<>> /\ Head(slots).kind = kind

has_writable(slots) ==
    HeadIs(slots, "Synth") \/ (HeadIs(slots, "Origin") /\ Head(slots).buf # <<>>)

\* All of the head slot's bytes are written.
advance(slots) ==
    IF Head(slots).kind = "Synth" \/ Head(slots).sealed THEN Tail(slots)
    ELSE [slots EXCEPT ![1].buf = <<>>]

\* The head is a cache slot whose message has not been taken.
cache_ready(slots) == HeadIs(slots, "Cache") /\ ~Head(slots).serving

cache_dispatch(slots) == [slots EXCEPT ![1].serving = TRUE]

cache_to_origin(slots) ==
    IF HeadIs(slots, "Cache") THEN [slots EXCEPT ![1] = OriginSlot(@.of)] ELSE slots

cache_done(slots) == Tail(slots)
=============================================================================
