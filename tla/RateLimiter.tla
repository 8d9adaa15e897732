------------------------------ MODULE RateLimiter ------------------------------
(***************************************************************************)
(* One channel of twin/setpoint_interface.py.                              *)
(***************************************************************************)
EXTENDS Integers

CONSTANT MaxStep   \* max_rate * dt

ASSUME LimiterAssumption == MaxStep \in Nat \ {0}

Clip(v, lo, hi) == IF v < lo THEN lo ELSE IF v > hi THEN hi ELSE v

RateLimit_FullStep(cur, req) == IF req > cur THEN cur + MaxStep ELSE IF req < cur THEN cur - MaxStep ELSE cur

\* What the channel holds after a tick that asks for req.
RateLimit(cur, req) == cur + Clip(req - cur, -MaxStep, MaxStep)
================================================================================
