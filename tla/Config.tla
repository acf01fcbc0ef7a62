------------------------------- MODULE Config -------------------------------
(***************************************************************************)
(* The settings of a run and the layers they come from: defaults, the      *)
(* top-level keys of a config file, one of its profiles, the environment   *)
(* and the flags (internal/config/config.go, options.resolve in            *)
(* cmd/soroprobe/root.go, and what serve adds in commands.go).  Pure       *)
(* operators: CommandLine has the steps that read the file.                *)
(*                                                                         *)
(* The passphrase, the source account, the two log settings and the        *)
(* SoroVault URL take the path of rpcURL: set as strings, then checked.    *)
(***************************************************************************)
EXTENDS Health

CONSTANT MinTokenLength   \* MinAPITokenLength

Texts == {"rpcURL", "tlsCert", "tlsKey", "addr"}
Scalars == Texts \cup {"warn", "critical", "timeout", "cacheTTL", "rate", "burst",
                       "baseFee", "token"}

(* What a value may be.  An RPC URL is empty, has an http scheme or lacks  *)
(* one; the token is its length, and a duration may be negative.           *)
Domain(s) ==
    CASE s = "rpcURL" -> {"", "http", "bare"}
      [] s \in {"tlsCert", "tlsKey", "addr"} -> {"", "one", "other"}
      [] s \in {"timeout", "cacheTTL", "baseFee"} -> Int
      [] OTHER -> Nat

Sides == {"warn", "critical"}

(* The two halves of each kind's thresholds, as they are set one by one by *)
(* a variable or a flag.                                                   *)
Halves == Kinds \X Sides

NoOverrides == [k \in Kinds |-> [warn |-> Unset, critical |-> Unset]]

(* A Config: the scalars and the ThresholdOverrides.                       *)
IsConfig(cfg) ==
    /\ DOMAIN cfg = {"scalars", "overrides"}
    /\ DOMAIN cfg.scalars = Scalars
    /\ \A s \in Scalars : cfg.scalars[s] \in Domain(s)
    /\ cfg.overrides \in ThresholdOverrides

(* One layer of a file, top-level or profile: pointers, so that a value is *)
(* there or absent whatever it is.  thresholds is a sequence of at most    *)
(* one ThresholdOverrides; in a broken one a duration does not parse.      *)
NoLayer == [set |-> [s \in {} |-> 0], thresholds |-> <<>>, broken |-> FALSE]

(* The environment and the flags set scalars and halves.                   *)
NoSettings == [set |-> [s \in {} |-> 0], halves |-> [h \in {} |-> 0]]

Override(base, set) ==
    [s \in Scalars |-> IF s \in DOMAIN set THEN set[s] ELSE base[s]]

OverrideHalves(base, halves) ==
    [k \in Kinds |->
        [warn     |-> IF <<k, "warn">> \in DOMAIN halves
                      THEN halves[<<k, "warn">>] ELSE base[k].warn,
         critical |-> IF <<k, "critical">> \in DOMAIN halves
                      THEN halves[<<k, "critical">>] ELSE base[k].critical]]

Only(set, keys) == [s \in DOMAIN set \cap keys |-> set[s]]

(* Slip: a key of the file that is zero or empty counts as absent.         *)
ApplyNonZeroValues(cfg, layer) ==
    LET given == {s \in DOMAIN layer.set \ {"token"} :
                     IF s \in Texts THEN layer.set[s] # "" ELSE layer.set[s] # 0}
    IN  [scalars   |-> Override(cfg.scalars, Only(layer.set, given)),
         overrides |-> IF layer.thresholds = <<>> THEN cfg.overrides ELSE layer.thresholds[1]]

(* applyValues: the token of a file is read and never applied, and the     *)
(* thresholds of a layer replace those of the one below as a whole.        *)
ApplyValues(cfg, layer) ==
    [scalars   |-> Override(cfg.scalars, Only(layer.set, Scalars \ {"token"})),
     overrides |-> IF layer.thresholds = <<>> THEN cfg.overrides ELSE layer.thresholds[1]]

(* lookup: a variable that is set to nothing counts as not set.            *)
Present(env) ==
    {s \in DOMAIN env.set : /\ s \in Texts => env.set[s] # ""
                            /\ s = "token" => env.set[s] # 0}

(* applyEnv, applyThresholdOverrideEnv.                                    *)
ApplyEnv(cfg, env) ==
    [scalars   |-> Override(cfg.scalars, Only(env.set, Present(env))),
     overrides |-> OverrideHalves(cfg.overrides, env.halves)]

(* The flags that resolve looks at, each if it was given.                  *)
FlagScalars == {"rpcURL", "warn", "critical", "timeout", "baseFee", "token"}

ApplyFlags(cfg, flags) ==
    [scalars   |-> Override(cfg.scalars, Only(flags.set, FlagScalars)),
     overrides |-> OverrideHalves(cfg.overrides, flags.halves)]

(* The flags of serve alone, applied after Validate: an address or a TLS   *)
(* file that is given empty is not applied, a cache TTL is, whatever it is.*)
ServeScalars == {"addr", "tlsCert", "tlsKey", "cacheTTL"}

ServeGiven(flags) ==
    {s \in DOMAIN flags.set \cap {"addr", "tlsCert", "tlsKey"} : flags.set[s] # ""}
        \cup (DOMAIN flags.set \cap {"cacheTTL"})

ApplyServeFlags(cfg, flags) ==
    [cfg EXCEPT !.scalars = Override(@, Only(flags.set, ServeGiven(flags)))]

TLSPaired(cfg) == (cfg.scalars.tlsCert = "") <=> (cfg.scalars.tlsKey = "")

GlobalThresholds(cfg) ==
    [warn |-> cfg.scalars.warn, critical |-> cfg.scalars.critical]

ThresholdsOrdered(cfg) ==
    \A k \in Kinds :
        LET t == ResolveThresholds(k, GlobalThresholds(cfg), cfg.overrides)
        IN  t.critical <= t.warn

(* Slip: the pair of each kind is compared only where it is overridden as  *)
(* a whole.                                                                *)
ValidatePairsOnly(cfg) ==
    LET v == cfg.scalars
    IN  /\ TLSPaired(cfg)
        /\ v.rate > 0 /\ v.burst > 0
        /\ v.rpcURL = "http"
        /\ v.timeout > 0
        /\ v.critical <= v.warn
        /\ v.cacheTTL >= 0
        /\ \A k \in Kinds : cfg.overrides[k].critical # Unset =>
              cfg.overrides[k].critical <= OrElse(cfg.overrides[k].warn, cfg.overrides[k].critical)
        /\ v.token = 0 \/ v.token >= MinTokenLength

(* Config.Validate.                                                        *)
Validate(cfg) ==
    LET v == cfg.scalars
    IN  /\ TLSPaired(cfg)
        /\ v.rate > 0 /\ v.burst > 0
        /\ v.rpcURL = "http"
        /\ v.timeout > 0
        /\ v.critical <= v.warn
        /\ v.cacheTTL >= 0
        /\ ThresholdsOrdered(cfg)
        /\ v.token = 0 \/ v.token >= MinTokenLength

(* An empty token stands for none.                                         *)
ASSUME TokenAssumption == MinTokenLength \in Nat \ {0}
=============================================================================
