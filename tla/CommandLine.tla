---------------------------- MODULE CommandLine ----------------------------
(***************************************************************************)
(* One run of soroprobe (cmd/soroprobe): the settings are put together     *)
(* from their layers, the command takes its steps in the order of its      *)
(* RunE, and what was deferred runs before main chooses the exit code.     *)
(*                                                                         *)
(* The probes are those of the other modules and end here in one step with *)
(* one of their outcomes.  A path holds what its reader makes of it.       *)
(* Other processes may remove a config file between the look-up and the    *)
(* read; of other changes to the file system none matters.                 *)
(***************************************************************************)
EXTENDS Config, ScVal

CONSTANTS
    Default,    \* Default() of the configuration
    Scenarios,  \* [inv, env, disk]: an invocation, the environment and the
                \* file system it meets
    Values(_)   \* what the contract of an invocation may return or store

Commands == {"simulate", "inspect", "check", "serve", "version"}
Candidates == <<"soroprobe.json", "soroprobe.yaml", "soroprobe.yml">>

(* Contents of a path.  Anything but a config file is good or not, and     *)
(* "old" stands for the contents a report replaces.                        *)
Absent == [is |-> "absent"]
Broken == [is |-> "broken"]
Empty == [is |-> "empty"]
Input == [is |-> "input"]
Result == [is |-> "result"]
Partial == [is |-> "partial"]
ConfigFile(top, profiles) == [is |-> "config", top |-> top, profiles |-> profiles]

NoFile == [top |-> NoLayer, profile |-> NoLayer]

(* Only simulate and check have a form for a file, serve and version write *)
(* and read none, a report can be where the file system has a place, and   *)
(* serve has flags for settings that no other command has.  Literals are   *)
(* digits, and a map is a list of its entries.                             *)
IsList(s) == s \in Seq(ToSet(s))

ASSUME ScenarioAssumption ==
    \A s \in Scenarios :
        /\ s.inv.command \in Commands /\ s.inv.form \in {"single", "file"}
        /\ s.inv.form = "file" => s.inv.command \in {"simulate", "check"}
        /\ s.inv.command \in {"serve", "version"} => s.inv.report = "" /\ s.inv.input = ""
        /\ s.inv.report # "" => s.inv.report \in DOMAIN s.disk
        /\ DOMAIN s.inv.flags.set \subseteq
              (IF s.inv.command = "serve" THEN FlagScalars \cup ServeScalars ELSE FlagScalars)
        /\ s.inv.spec.prefix = "map" => IsList(s.inv.spec.pairs)
        /\ s.inv.spec.prefix \notin {"map", "vec"} /\ s.inv.spec.body.form = "number" =>
              s.inv.spec.body.lit \in Literals
        /\ \A v \in Values(s.inv) : v.type = "map" => IsList(v.pairs)

(* How a run can end: nil, a checkFailedError or any other error.          *)
Errors == {"none", "failed", "error"}

VARIABLES
    inv,        \* the arguments and flags
    env,        \* the environment
    disk,       \* disk[p]: what the file at path p holds
    todo,       \* the steps the command has still to take
    path,       \* the config file that was chosen, "" for none
    cfg,        \* the settings so far
    err,        \* the error the command is about to return
    report,     \* the report file: "none", "open" or "closed"
    client,     \* the RPC client: "none", "open", "closed" or "abandoned"
    hung,       \* requests of abandoned checks are still in flight
    cancelled,  \* the context of main is done
    outcome,    \* how the probe ended, "none" before
    printed,    \* the result was printed
    exit,       \* the exit code, -1 before
    file,       \* history: the layers of the config file that were read
    read,       \* history: what the key, batch or baseline file held when read
    sent,       \* history: the value that the argument became
    returned,   \* history: the value in the answer
    shown       \* the document that the result has for it

settings == <<path, cfg, file>>
probe == <<outcome, sent, returned, shown, hung>>

vars == <<inv, env, disk, todo, settings, err, report, client, cancelled, probe,
          printed, exit, read>>
-----------------------------------------------------------------------------
(* The steps of a RunE, up to its last return.                             *)
Work(i) ==
    CASE i.command = "simulate" /\ i.form = "single" ->
            <<"report", "input", "gates", "prober", "run", "write", "print", "verdict">>
      [] i.command = "simulate" /\ i.form = "file" ->
            <<"report", "input", "prober", "run", "write", "print", "verdict">>
      [] i.command = "inspect" ->
            <<"format", "durability", "report", "input", "prober", "run", "write", "print",
              "verdict">>
      [] i.command = "check" /\ i.form = "single" ->
            <<"quiet", "format", "report", "durability", "input", "prober", "run", "write",
              "print", "verdict">>
      [] i.command = "check" /\ i.form = "file" ->
            <<"quiet", "format", "report", "input", "prober", "run", "write", "print",
              "verdict">>
      [] i.command = "serve" -> <<"serveFlags", "prober", "run", "verdict">>
      [] i.command = "version" -> <<"print">>

(* version has a PersistentPreRunE of its own, which resolves nothing.     *)
Resolve(i) == IF i.command = "version" THEN <<>> ELSE <<"locate", "load", "env", "flags">>

Init ==
    /\ \E s \in Scenarios : inv = s.inv /\ env = s.env /\ disk = s.disk
    /\ todo = <<"args">> \o Resolve(inv) \o Work(inv)
    /\ path = "" /\ cfg = Default /\ file = NoFile
    /\ err = "none" /\ report = "none" /\ client = "none"
    /\ hung = FALSE /\ cancelled = FALSE
    /\ outcome = "none" /\ printed = FALSE /\ exit = -1
    /\ read = Absent /\ sent = Refused /\ returned = Refused /\ shown = Unsupported

At(step) == todo # <<>> /\ Head(todo) = step
Continue == todo' = Tail(todo) /\ UNCHANGED err
Fail(e) == todo' = <<>> /\ err' = e

(* A step that only goes on or fails.                                      *)
Guarded(step, refused) ==
    /\ At(step)
    /\ IF refused THEN Fail("error") ELSE Continue
    /\ UNCHANGED <<inv, env, disk, settings, report, client, cancelled, probe, printed,
                   exit, read>>

(* Flags are parsed and the arguments counted by cobra, before the hooks.  *)
CheckArgs == Guarded("args", inv.args = "wrong")
CheckQuiet == Guarded("quiet", inv.quiet /\ (inv.json \/ inv.report # ""))
SelectFormat == Guarded("format", inv.format = "unknown")
ParseDurability == Guarded("durability", inv.durability = "unknown")

(* --max-increase needs a baseline and --max-spread several runs; both are *)
(* percentages.                                                            *)
ParseGates == Guarded("gates", inv.gates = "wrong")
-----------------------------------------------------------------------------
(* Settings *)

Profile == IF inv.profile # "" THEN inv.profile ELSE env.profile
NamedConfig == IF inv.config # "" THEN inv.config ELSE env.config
Explicit == NamedConfig # ""
Found == SelectSeq(Candidates, LAMBDA c : disk[c] # Absent)

(* LoadWithProfile up to the read: the flag, then SOROPROBE_CONFIG, then   *)
(* the first candidate that Stat finds.                                    *)
Locate ==
    /\ At("locate")
    /\ path' = IF Explicit THEN NamedConfig ELSE IF Found = <<>> THEN "" ELSE Found[1]
    /\ IF path' = "" /\ Profile # "" THEN Fail("error") ELSE Continue
    /\ UNCHANGED <<inv, env, disk, cfg, file, report, client, cancelled, probe, printed,
                   exit, read>>

(* Another process removes the file that was found.                        *)
RemoveConfig ==
    /\ At("load")
    /\ path # "" /\ disk[path] # Absent
    /\ disk' = [disk EXCEPT ![path] = Absent]
    /\ UNCHANGED <<inv, env, todo, settings, err, report, client, cancelled, probe,
                   printed, exit, read>>

ProfileOf(content) == IF Profile = "" THEN NoLayer ELSE content.profiles[Profile]

(* unmarshalConfigFile takes an empty file for one that sets nothing.      *)
ContentAt(p) == IF disk[p] = Empty THEN ConfigFile(NoLayer, [n \in {} |-> NoLayer]) ELSE disk[p]

(* applyFileWithProfile: a file that is gone counts as not found unless it *)
(* was named, and a value that does not parse fails only where it is       *)
(* applied.                                                                *)
Load ==
    /\ At("load")
    /\ IF path = "" \/ (disk[path] = Absent /\ ~Explicit /\ Profile = "")
       THEN Continue /\ UNCHANGED <<cfg, file>>
       ELSE LET content == ContentAt(path)
            IN  IF \/ content.is # "config"
                   \/ Profile # "" /\ Profile \notin DOMAIN content.profiles
                   \/ content.top.broken \/ ProfileOf(content).broken
                THEN Fail("error") /\ UNCHANGED <<cfg, file>>
                ELSE /\ Continue
                     /\ cfg' = ApplyValues(ApplyValues(cfg, content.top), ProfileOf(content))
                     /\ file' = [top |-> content.top, profile |-> ProfileOf(content)]
    /\ UNCHANGED <<inv, env, disk, path, report, client, cancelled, probe, printed, exit,
                   read>>

(* applyEnv; one variable that does not parse fails the command.           *)
LoadEnv ==
    /\ At("env")
    /\ IF env.broken THEN Fail("error") /\ UNCHANGED cfg
                     ELSE Continue /\ cfg' = ApplyEnv(cfg, env)
    /\ UNCHANGED <<inv, env, disk, path, file, report, client, cancelled, probe, printed,
                   exit, read>>

(* The end of resolve: the flags, then Validate.                           *)
SetFlags ==
    /\ At("flags")
    /\ cfg' = ApplyFlags(cfg, inv.flags)
    /\ IF Validate(cfg') THEN Continue ELSE Fail("error")
    /\ UNCHANGED <<inv, env, disk, path, file, report, client, cancelled, probe, printed,
                   exit, read>>

(* The RunE of serve up to its prober.                                     *)
SetServeFlags ==
    /\ At("serveFlags")
    /\ cfg' = ApplyServeFlags(cfg, inv.flags)
    /\ IF TLSPaired(cfg') THEN Continue ELSE Fail("error")
    /\ UNCHANGED <<inv, env, disk, path, file, report, client, cancelled, probe, printed,
                   exit, read>>
-----------------------------------------------------------------------------
(* The work *)

(* openReport: os.Create truncates what the path held.                     *)
OpenReport ==
    /\ At("report")
    /\ \/ /\ inv.report = ""
          /\ Continue
          /\ UNCHANGED <<disk, report>>
       \/ /\ inv.report # ""
          /\ Continue
          /\ disk' = [disk EXCEPT ![inv.report] = Empty]
          /\ report' = "open"
       \/ /\ inv.report # ""
          /\ Fail("error")
          /\ UNCHANGED <<disk, report>>
    /\ UNCHANGED <<inv, env, settings, client, cancelled, probe, printed, exit, read>>

Keyed == inv.command \in {"inspect", "check"} /\ inv.form = "single"

(* mergeKeys, readBaseline, readBatch, readSimulateBatch.  A key file may  *)
(* hold no keys, and every key it holds must encode.                       *)
ReadInput ==
    /\ At("input")
    /\ IF inv.input = "" THEN Continue /\ UNCHANGED read
       ELSE /\ read' = disk[inv.input]
            /\ IF \/ read' \notin (IF Keyed THEN {Input, Empty} ELSE {Input})
                  \/ Keyed /\ read' = Input /\ Encode(inv.spec) = Refused
               THEN Fail("error") ELSE Continue
    /\ UNCHANGED <<inv, env, disk, settings, report, client, cancelled, probe, printed,
                   exit>>

(* newLiveProber: the client, the interface source and the prober.  A      *)
(* failure closes the client again.                                        *)
BuildProber ==
    /\ At("prober")
    /\ \/ Continue /\ client' = "open"
       \/ Fail("error") /\ UNCHANGED client
    /\ UNCHANGED <<inv, env, disk, settings, report, cancelled, probe, printed, exit, read>>

(* A verdict only where the command has one: an inspection has none, and   *)
(* a simulation one only if it is gated.                                   *)
Verdicts ==
    CASE inv.command = "check" -> {"pass", "fail"}
      [] inv.command = "simulate" /\ inv.form = "single" /\ inv.gates = "good" ->
            {"pass", "fail"}
      [] OTHER -> {"pass"}

(* Calls of a batch that could not be run do not end it.                   *)
Outcomes ==
    LET calls == IF inv.form = "file" THEN {"incomplete"} ELSE {}
    IN  {"error"} \cup calls
            \cup (IF Encode(inv.spec) = Refused /\ inv.command # "serve" THEN {} ELSE Verdicts)

(* The probe of the command.  A serving one ends when the context is done  *)
(* or the listener fails.                                                  *)
RunProbe ==
    /\ At("run")
    /\ \E o \in Outcomes, h \in BOOLEAN :
        /\ inv.command = "serve" /\ o # "error" => cancelled
        /\ outcome' = o
        /\ hung' = h
        /\ IF o = "error" \/ inv.command = "serve"
           THEN UNCHANGED <<sent, returned, shown>>
           ELSE /\ sent' = Encode(inv.spec)
                /\ returned' \in Values(inv) \cup ({sent'} \ {Refused})
                /\ shown' = Decode(returned')
                /\ shown' # Unsupported
        /\ IF o = "error" THEN Fail("error") ELSE Continue
    /\ client = "open"
    /\ UNCHANGED <<inv, env, disk, settings, report, client, cancelled, printed, exit, read>>

WriteReport ==
    /\ At("write")
    /\ \/ report = "none" /\ Continue /\ UNCHANGED disk
       \/ report = "open" /\ Continue /\ disk' = [disk EXCEPT ![inv.report] = Result]
       \/ report = "open" /\ Fail("error") /\ disk' = [disk EXCEPT ![inv.report] = Partial]
    /\ UNCHANGED <<inv, env, settings, report, client, cancelled, probe, printed, exit, read>>

(* emitSingleCheckOutput and its like; nothing is printed with --quiet.    *)
PrintResult ==
    /\ At("print")
    /\ \/ inv.quiet /\ Continue /\ UNCHANGED printed
       \/ ~inv.quiet /\ Continue /\ printed' = TRUE
       \/ ~inv.quiet /\ Fail("error") /\ UNCHANGED printed
    /\ UNCHANGED <<inv, env, disk, settings, report, client, cancelled, probe, exit, read>>

(* Slip: a failed check is looked for first.                               *)
JudgeFailuresOnly ==
    /\ At("verdict")
    /\ IF outcome \in {"fail", "incomplete"} THEN Fail("failed") ELSE Continue
    /\ UNCHANGED <<inv, env, disk, settings, report, client, cancelled, probe, printed,
                   exit, read>>

(* A batch with calls that could not be run has no verdict.                *)
Judge ==
    /\ At("verdict")
    /\ CASE outcome = "incomplete" -> Fail("error")
         [] outcome = "fail" -> Fail("failed")
         [] OTHER -> Continue
    /\ UNCHANGED <<inv, env, disk, settings, report, client, cancelled, probe, printed,
                   exit, read>>
-----------------------------------------------------------------------------
(* The end *)

(* cleanup: the client is closed in a goroutine, which waits for what is   *)
(* in flight.                                                              *)
CloseClient ==
    /\ todo = <<>> /\ client = "open"
    /\ ~hung
    /\ client' = "closed"
    /\ UNCHANGED <<inv, env, disk, todo, settings, err, report, cancelled, probe, printed,
                   exit, read>>

(* Slip: the grace period is waited for only where nothing is in flight.   *)
AbandonIdleClient ==
    /\ todo = <<>> /\ client = "open" /\ ~hung
    /\ client' = "abandoned"
    /\ UNCHANGED <<inv, env, disk, todo, settings, err, report, cancelled, probe, printed,
                   exit, read>>

(* closeGrace passes first.                                                *)
AbandonClient ==
    /\ todo = <<>> /\ client = "open"
    /\ client' = "abandoned"
    /\ UNCHANGED <<inv, env, disk, todo, settings, err, report, cancelled, probe, printed,
                   exit, read>>

(* The report is closed after the client.  errors.Join keeps both errors,  *)
(* and main finds a checkFailedError among them.                           *)
CloseReport ==
    /\ todo = <<>> /\ client # "open" /\ report = "open"
    /\ report' = "closed"
    /\ \/ UNCHANGED err
       \/ err' = IF err = "none" THEN "error" ELSE err
    /\ UNCHANGED <<inv, env, disk, todo, settings, client, cancelled, probe, printed, exit,
                   read>>

(* main.                                                                   *)
Exit ==
    /\ todo = <<>> /\ client # "open" /\ report # "open"
    /\ exit = -1
    /\ exit' = CASE err = "none" -> 0 [] err = "failed" -> 1 [] err = "error" -> 2
    /\ UNCHANGED <<inv, env, disk, todo, settings, err, report, client, cancelled, probe,
                   printed, read>>

(* SIGINT or SIGTERM.                                                      *)
Interrupt ==
    /\ ~cancelled /\ exit = -1
    /\ cancelled' = TRUE
    /\ UNCHANGED <<inv, env, disk, todo, settings, err, report, client, probe, printed,
                   exit, read>>

Prepare ==
    \/ CheckArgs \/ Locate \/ Load \/ LoadEnv \/ SetFlags \/ SetServeFlags \/ CheckQuiet
    \/ SelectFormat \/ ParseDurability \/ ParseGates \/ OpenReport \/ ReadInput
    \/ BuildProber

Finish ==
    \/ WriteReport \/ PrintResult \/ Judge \/ CloseClient \/ CloseReport \/ Exit

Next == Prepare \/ RunProbe \/ Finish \/ AbandonClient \/ RemoveConfig \/ Interrupt

(* The probe of a command ends, that of serve once it is cancelled; a      *)
(* client that waits for a request may do so for ever, its grace period    *)
(* does not.                                                               *)
Fairness ==
    /\ WF_vars(Prepare)
    /\ WF_vars(RunProbe /\ (inv.command # "serve" \/ cancelled))
    /\ WF_vars(Finish)
    /\ WF_vars(AbandonClient)

Spec == Init /\ [][Next]_vars /\ Fairness
-----------------------------------------------------------------------------
(* The layers that name a scalar, lowest first, and whether one speaks for *)
(* it: no file does for the token, a variable that is empty is not set,    *)
(* and neither are empty flags of serve.                                   *)
Layers == <<file.top.set, file.profile.set, env.set, inv.flags.set>>

Speaks(i, s) ==
    /\ s \in DOMAIN Layers[i]
    /\ s = "token" => i > 2
    /\ s \in Texts /\ (i = 3 \/ (i = 4 /\ s # "rpcURL")) => Layers[i][s] # ""
    /\ s = "token" /\ i = 3 => Layers[i][s] # 0

FileOverrides ==
    CASE file.profile.thresholds # <<>> -> file.profile.thresholds[1]
      [] file.profile.thresholds = <<>> /\ file.top.thresholds # <<>> ->
            file.top.thresholds[1]
      [] OTHER -> Default.overrides

(* Each setting that a command works with is the one of the highest layer  *)
(* that gives it, whatever the value is, also zero, and whatever the       *)
(* command is and the file system does meanwhile (config.go:214-216,       *)
(* root.go:96-97); a half of a kind's thresholds on its own, those of the  *)
(* file as a whole.                                                        *)
SettledByHighestLayer ==
    client # "none" =>
        /\ \A s \in Scalars :
              \/ \E i \in 1 .. 4 :
                    /\ Speaks(i, s) /\ \A j \in i + 1 .. 4 : ~Speaks(j, s)
                    /\ cfg.scalars[s] = Layers[i][s]
              \/ /\ \A i \in 1 .. 4 : ~Speaks(i, s)
                 /\ cfg.scalars[s] = Default.scalars[s]
        /\ \A k \in Kinds, side \in Sides :
              cfg.overrides[k][side] =
                  IF <<k, side>> \in DOMAIN inv.flags.halves THEN inv.flags.halves[<<k, side>>]
                  ELSE IF <<k, side>> \in DOMAIN env.halves THEN env.halves[<<k, side>>]
                  ELSE FileOverrides[k][side]

(* No command talks to the network with settings that another part takes   *)
(* for excluded, whichever layers they come from: a critical threshold     *)
(* above its warning, once the halves have fallen back on the global ones, *)
(* a limiter that admits nothing, requests without a deadline, a short     *)
(* token or half of a TLS pair (config.go:519-571, commands.go:751-765).   *)
EffectiveIsUsable ==
    client # "none" =>
        /\ \A k \in Kinds :
              LET t == ResolveThresholds(k, GlobalThresholds(cfg), cfg.overrides)
              IN  t.critical <= t.warn
        /\ cfg.scalars.rate > 0 /\ cfg.scalars.burst > 0
        /\ cfg.scalars.rpcURL = "http" /\ cfg.scalars.timeout > 0
        /\ cfg.scalars.token = 0 \/ cfg.scalars.token >= MinTokenLength
        /\ cfg.scalars.tlsCert = "" <=> cfg.scalars.tlsKey = ""

(* The result reached everyone who was to have it.                         *)
Delivered ==
    /\ inv.command # "serve" /\ inv.report # "" => disk[inv.report] = Result
    /\ inv.command # "serve" /\ ~inv.quiet => printed

(* The exit code alone is the answer (commands.go:384-386, main.go:25-46): *)
(* 0 and 1 are verdicts of a probe that ran to its end and that was        *)
(* written and printed as it was asked to be, and such a failure is not    *)
(* turned into a 2 by what goes wrong after it.  Nor are they verdicts on  *)
(* less than was asked: --report truncates its file before the others are  *)
(* read (report.go:15-16, commands.go:113, 444), and a file that is both   *)
(* is then no baseline and no batch.                                       *)
ExitTellsVerdict ==
    /\ exit = 0 /\ inv.command # "version" => outcome = "pass" /\ Delivered
    /\ exit = 1 => outcome = "fail" /\ Delivered
    /\ exit = 2 => ~(outcome = "fail" /\ Delivered)
    /\ exit \in {0, 1} /\ ~Keyed /\ inv.input # "" => read = Input

(* A number that was sent is the one its text stands for, sign, scale and  *)
(* all, in every width it fits, and comes back as that number.             *)
AmountsAreExact ==
    sent.type \in DOMAIN IntTypes =>
        LET lit == inv.spec.body.lit
            exact == FromDigits(lit.int \o lit.frac)
                        * Pow(Base, IF lit.scale = NoScale THEN 0 ELSE lit.scale)
            n == CASE DecodeLeaf(sent).json = "number" -> DecodeLeaf(sent).number
                   [] DecodeLeaf(sent).json = "string" -> DecodeLeaf(sent).text.decimal
        IN  n * Pow(Base, Len(lit.frac)) = (IF lit.neg THEN -exact ELSE exact)

Listed(doc) == IF doc.json = "object" THEN doc.members ELSE ToSet(doc.pairs)

(* Every entry of a map that a contract returned is in the document, under *)
(* its own key and with its own value, unless another of its keys reads    *)
(* the same.                                                               *)
EntriesAreKept ==
    returned.type = "map" =>
        LET entry(i) == <<DecodeLeaf(returned.pairs[i][1]), DecodeLeaf(returned.pairs[i][2])>>
        IN  \A i \in DOMAIN returned.pairs :
                \E j \in DOMAIN returned.pairs :
                    entry(j)[1] = entry(i)[1] /\ entry(j) \in Listed(shown)

(* No amount changes its value and no map its entries on the way to the    *)
(* contract and back, at any width, sign or scale and with keys of mixed   *)
(* types (encode.go:247-256, 362-379, decode.go:156-158, 234-246).         *)
NothingIsMangled == AmountsAreExact /\ EntriesAreKept

(* Every command ends, a serving one when it is told to, also while the    *)
(* requests of abandoned checks keep the client from closing               *)
(* (root.go:242-247).                                                      *)
CommandEnds == (inv.command # "serve" \/ cancelled) ~> (exit # -1)
=============================================================================
