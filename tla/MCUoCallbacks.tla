----------------------------- MODULE MCUoCallbacks -----------------------------
(* A table of two slots that three call-backs compete for: hand-overs of a slot *)
(* happen, and so do full tables.                                               *)
EXTENDS UoCallbacks, TLC

CONSTANTS c1, c2, c3

PinFlags   == [evt |-> {"pin_change"}, fmt |-> {"raw", "json"}, tgt |-> {}]
PinRaw     == [evt |-> {"pin_change"}, fmt |-> {"raw"}, tgt |-> {}]
ErrorFlags == [evt |-> {"gen_app_error_message"}, fmt |-> {"json"}, tgt |-> {"websocket"}]

MCCallbacks == {c1, c2, c3}

MCOffers == (c1 :> {PinFlags, ErrorFlags}) @@ (c2 :> {PinRaw}) @@ (c3 :> {ErrorFlags})
================================================================================
