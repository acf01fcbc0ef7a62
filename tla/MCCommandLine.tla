--------------------------- MODULE MCCommandLine ---------------------------
(***************************************************************************)
(* Every command with all its files, errors and flags under plain          *)
(* settings; a few commands under all combinations of a few layers; and    *)
(* one with each of the arguments and answers.  Thresholds are 1 to 3      *)
(* ledgers, a token has at least two characters, and a word 4 bits.        *)
(***************************************************************************)
EXTENDS CommandLine

MCDefault ==
    [scalars |-> [s \in Scalars |->
        CASE s = "rpcURL" -> "http"
          [] s = "addr" -> "one"
          [] s \in {"tlsCert", "tlsKey"} -> ""
          [] s = "warn" -> 3
          [] s \in {"token", "cacheTTL"} -> 0
          [] OTHER -> 1],
     overrides |-> NoOverrides]

Set(s, v) == [x \in {s} |-> v]
Layer(set) == [NoLayer EXCEPT !.set = set]
Halve(k, side, v) == [x \in {<<k, side>>} |-> v]

Digits(int, frac, neg, scale) ==
    [form |-> "number", lit |-> [int |-> int, frac |-> frac, neg |-> neg, scale |-> scale]]
Word(text, class, length) ==
    [form |-> "word", text |-> text, class |-> class, length |-> length]
Typed(t, body) == [prefix |-> t, body |-> body]

PlainSpec == Typed("u32", Digits(<<1>>, <<>>, FALSE, NoScale))

(* Numbers around the limits of each width, scaled and not.                *)
Numbers ==
    {Digits(<<1>>, <<>>, FALSE, NoScale), Digits(<<>>, <<>>, FALSE, 2)} \cup
    {Digits(int, frac, neg, scale) :
        int \in {<<0>>, <<1>>, <<2, 1>>, <<1, 1, 2, 1>>}, frac \in {<<>>, <<1, 2>>},
        neg \in BOOLEAN, scale \in {NoScale, 0, 2, 3, 4}}

Words == {Word("true", "name", 4), Word("null", "name", 4), Word("G", "address", 9),
          Word("token", "name", 5), Word("a name", "other", 6)}

Specs ==
    {Typed(t, b) : t \in DOMAIN IntTypes, b \in Numbers}
        \cup {Typed(t, b) : t \in {"none", "bool", "void", "symbol", "address", "string"},
                            b \in Words \cup {PlainSpec.body}}
        \cup {Typed("none", b) : b \in Numbers}
        \cup {[prefix |-> "vec", items |-> <<PlainSpec, PlainSpec>>],
              [prefix |-> "map", pairs |-> <<<<PlainSpec, PlainSpec>>, <<PlainSpec, PlainSpec>>>>]}

(* Maps of two entries, with keys of several types that read alike.        *)
Keys == {IntVal("u32", 1), IntVal("u64", 1), IntVal("i128", 1), IntVal("i32", -1),
         [type |-> "symbol", text |-> Name("token")], [type |-> "symbol", text |-> Decimal(1)]}
MCReturns ==
    {Void, [type |-> "vec", items |-> <<IntVal("i128", -1), Void>>]}
        \cup {[type |-> "map", pairs |-> <<<<k, IntVal("u32", 1)>>, <<l, IntVal("u32", 2)>>>>] :
                 k \in Keys, l \in Keys}

Paths == {"soroprobe.json", "soroprobe.yaml", "soroprobe.yml", "other.json", "input", "report"}
NoDisk == [p \in Paths |-> Absent]

PlainInv ==
    [command |-> "check", form |-> "single", args |-> "right", config |-> "", profile |-> "",
     flags |-> NoSettings, report |-> "", quiet |-> FALSE, json |-> FALSE, format |-> "text",
     durability |-> "persistent", gates |-> "none", input |-> "", spec |-> PlainSpec]

PlainEnv == [set |-> NoSettings.set, halves |-> NoSettings.halves, broken |-> FALSE,
             config |-> "", profile |-> ""]

Scene(i, e, d) == [inv |-> i, env |-> e, disk |-> d]

(* The commands, with the files they read and write and their own errors.  *)
Inputs == {Absent, Broken, Empty, Input}
Invocations ==
    {[PlainInv EXCEPT !.command = c, !.form = f, !.report = r, !.input = i, !.quiet = q,
                      !.json = j, !.gates = g, !.args = a] :
        c \in Commands, f \in {"single", "file"}, r \in {"", "report", "input"},
        i \in {"", "input"}, q \in BOOLEAN, j \in BOOLEAN,
        g \in {"none", "good", "wrong"}, a \in {"right", "wrong"}}

(* What the flags of each command allow.                                   *)
Allowed(i) ==
    /\ i.form = "file" => i.command \in {"simulate", "check"} /\ i.input # ""
    /\ i.command \in {"serve", "version"} => i.input = "" /\ i.report = ""
    /\ i.quiet => i.command = "check"
    /\ i.gates # "none" => i.command = "simulate" /\ i.form = "single"
    /\ i.args = "wrong" => i.report = "" /\ i.input = "" /\ ~i.quiet /\ ~i.json

CommandScenes ==
    {Scene(i, PlainEnv, [NoDisk EXCEPT !["input"] = d]) :
        i \in {j \in Invocations : Allowed(j)}, d \in Inputs}
    \cup {Scene([PlainInv EXCEPT !.command = c, !.format = "unknown"], PlainEnv, NoDisk) :
            c \in {"inspect", "check"}}
    \cup {Scene([PlainInv EXCEPT !.command = c, !.durability = "unknown"], PlainEnv, NoDisk) :
            c \in {"inspect", "check"}}

(* Layers of a file, of the environment and of the flags.                  *)
FileLayers ==
    {NoLayer, Layer(Set("critical", 2)), Layer(Set("token", 1)), Layer(Set("rate", 0)),
     Layer(Set("baseFee", 0)), [NoLayer EXCEPT !.broken = TRUE],
     [NoLayer EXCEPT !.thresholds = <<[NoOverrides EXCEPT !["data"].warn = 1]>>],
     [NoLayer EXCEPT !.thresholds = <<[NoOverrides EXCEPT !["code"].critical = 2]>>]}

ProfileLayers ==
    {NoLayer, Layer(Set("critical", 1)), Layer(Set("baseFee", 2)),
     [NoLayer EXCEPT !.broken = TRUE],
     [NoLayer EXCEPT !.thresholds = <<[NoOverrides EXCEPT !["code"].warn = 2]>>]}

EnvLayers ==
    {PlainEnv, [PlainEnv EXCEPT !.broken = TRUE], [PlainEnv EXCEPT !.profile = "p"]}
        \cup {[PlainEnv EXCEPT !.set = s] :
                 s \in {Set("rpcURL", ""), Set("rpcURL", "bare"), Set("token", 0),
                        Set("token", 1), Set("tlsKey", "one"), Set("baseFee", 2),
                        Set("critical", 3), Set("cacheTTL", -1)}}
        \cup {[PlainEnv EXCEPT !.halves = h] :
                 h \in {Halve("data", "critical", 2), Halve("data", "warn", 2)}}

FlagLayers ==
    {NoSettings, [NoSettings EXCEPT !.set = Set("warn", 1)],
     [NoSettings EXCEPT !.set = Set("critical", 0)],
     [NoSettings EXCEPT !.set = Set("timeout", 0)], [NoSettings EXCEPT !.set = Set("baseFee", 1)],
     [NoSettings EXCEPT !.halves = Halve("data", "critical", 3)]}

ServeLayers ==
    {[NoSettings EXCEPT !.set = s] :
        s \in {Set("token", 0), Set("token", 2), Set("addr", ""), Set("addr", "other"),
               Set("tlsCert", "one"), Set("cacheTTL", -1)}}

Invokes ==
    {[PlainInv EXCEPT !.command = "inspect", !.flags = f, !.profile = p] :
        f \in FlagLayers, p \in {"", "p"}}
    \cup {[PlainInv EXCEPT !.command = "serve", !.flags = f] : f \in ServeLayers}

LayerScenes ==
    {Scene(i, e, [NoDisk EXCEPT !["soroprobe.json"] = ConfigFile(t, [n \in {"p"} |-> p])]) :
        i \in Invokes, e \in EnvLayers, t \in FileLayers, p \in ProfileLayers}

(* Where the config file is looked for.                                    *)
Look == {Absent, Broken, Empty, ConfigFile(Layer(Set("baseFee", 2)), [n \in {} |-> NoLayer])}
LookUpScenes ==
    {Scene([PlainInv EXCEPT !.command = c, !.config = g, !.profile = p],
           [PlainEnv EXCEPT !.config = e],
           [NoDisk EXCEPT !["soroprobe.json"] = d, !["soroprobe.yaml"] = y,
                          !["other.json"] = o]) :
        c \in {"check", "version"}, g \in {"", "other.json"}, p \in {"", "p"},
        e \in {"", "other.json"}, d \in Look, y \in Look, o \in Look}

Asking(s) == [PlainInv EXCEPT !.command = "simulate", !.spec = s]
MCValues(i) == IF i = Asking(PlainSpec) THEN MCReturns ELSE {Void}

SpecScenes ==
    {Scene(Asking(s), PlainEnv, NoDisk) : s \in Specs}

MCScenarios == CommandScenes \cup LayerScenes \cup LookUpScenes \cup SpecScenes
=============================================================================
