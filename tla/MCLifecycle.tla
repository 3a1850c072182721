------------------------------ MODULE MCLifecycle -----------------------------
(***************************************************************************)
(* A small instance of Lifecycle for TLC.                                  *)
(***************************************************************************)
EXTENDS Lifecycle, TLC

CONSTANTS i1, i2

MCSeedStock == << 1, 1 >>

Env(databaseURL, secret, seed) == [databaseURL |-> databaseURL, secret |-> secret, seed |-> seed]

(* Two processes that serve, one of which may not seed or be misconfigured. *)
MCEnvironments ==
    i1 :> {Env("set", "strong", "malformed")} @@
    i2 :> {Env("set", "strong", "unset"), Env("set", "strong", "false"),
           Env("set", "weak", "true"), Env("unset", "strong", "true")}

=============================================================================
