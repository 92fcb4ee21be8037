------------------------------- MODULE Config -------------------------------
(* How minieap comes by its configuration, run after run: the defaults, the   *)
(* file, the command line, then the same for the plugins, and the save that   *)
(* rewrites the file for the next run.  A run may be killed between any two   *)
(* steps.                                                                     *)
EXTENDS RjOptions

CONSTANTS
    Paths,        \* where a configuration file may be; DEFAULT_CONFFILE is one
    Files,        \* the files a user may have written: [Paths -> lines or NoFile]
    Argvs,        \* the command lines
    Environ,      \* the password in the environment, a text or None
    Plugins,      \* the plugins that are linked in
    Impls,        \* the drivers that are linked in, in order
    MaxRuns       \* bound: the runs of a behaviour

DefaultConffile == <<200>>
Rjv3            == <<206>>
NoFile          == <<[key |-> "no file", value |-> <<>>]>>

ASSUME ConfigAssumption ==
    /\ DefaultConffile \in Paths /\ Files \subseteq [Paths -> Lines]
    /\ \A words \in Argvs : words \in Seq(Words)
    /\ Environ \in Maybe(Texts) /\ Plugins \subseteq Texts
    /\ Impls \in Seq(Texts) /\ Len(Impls) > 0
    /\ MaxRuns \in Nat

VARIABLES
    files,    \* the files; they outlive the run
    runs,     \* the number of runs started
    pc,       \* what the run does next; "off": there is none
    argv,     \* its command line
    path,     \* PROG_CONFIG.conffile
    conf,     \* g_conf_list: the options read from the file, or to be written
    cfg,      \* EAP_CONFIG, PROXY_CONFIG and PROG_CONFIG
    active,   \* g_active_packet_plugin_list
    impl,     \* g_selected_impl
    priv,     \* the options of rjv3
    before,   \* history: the files when the run started
    refused,  \* history: the run ended because its options were refused
    saved     \* history: what the last complete save of path wrote, or None

vars == <<files, runs, pc, argv, path, conf, cfg, active, impl, priv, before, refused, saved>>
run  == <<argv, path, conf, cfg, active, impl, priv>>

\* The configuration a run has when it goes on to the network.
Current == [path |-> path, cfg |-> cfg, active |-> active, impl |-> impl, priv |-> priv]

Steps == {"file", "cmdline", "select", "plugins", "save", "write", "running"}

\* EAP_CONFIG, PROXY_CONFIG and PROG_CONFIG; the path is a variable.
PROG_CONFIG ==
    [text : [TextOptions -> Maybe(Texts)], num : [NumOptions -> Int],
     modules : Seq(Texts), restart_on_logoff : BOOLEAN, logoff_before_start : BOOLEAN,
     save_now : BOOLEAN, kill_type : KILL_TYPE, proxy_on : BOOLEAN,
     environ : Maybe(Texts)]

RJV3_PRIV ==
    [text : [RjTextOptions -> Maybe(Texts)], num : [RjNumOptions -> Int],
     props : Seq(RjProps), mods : Seq(RjProps)]
-----------------------------------------------------------------------------
Off(outcome) == pc' = "off" /\ refused' = outcome

Init ==
    /\ files \in Files /\ before = files
    /\ runs = 0 /\ pc = "off" /\ refused = FALSE /\ saved = None
    /\ argv = <<>> /\ path = DefaultConffile /\ conf = <<>>
    /\ cfg = load_default_params(None) /\ active = <<>> /\ impl = None /\ priv = NewPriv

\* The last --conf-file counts; as the last word it has no argument.
ConfFiles(words) == {i \in DOMAIN words : words[i] = Long("conf-file")}
parse_cmdline_conf_file(words) ==
    LET at == CHOOSE i \in ConfFiles(words) : \A j \in ConfFiles(words) : j <= i
    IN  IF ConfFiles(words) = {} THEN Some(DefaultConffile)
        ELSE IF Len(words) \in ConfFiles(words) THEN None
        ELSE Some(TextOf(words[at + 1]))

\* Every file that a command line names is one of Paths.
ASSUME PathAssumption == \A words \in Argvs : parse_cmdline_conf_file(words) \in Maybe(Paths)

Start ==
    /\ pc = "off" /\ runs < MaxRuns
    /\ runs' = runs + 1 /\ before' = files
    /\ \E words \in Argvs :
        LET p == parse_cmdline_conf_file(words) IN
        /\ argv' = words
        /\ cfg' = load_default_params(Environ)
        /\ conf' = <<>> /\ active' = <<>> /\ impl' = None /\ priv' = NewPriv
        /\ path' = IF p = None THEN path ELSE p[1]
        /\ IF p = None THEN Off(TRUE) ELSE pc' = "file" /\ refused' = FALSE
    /\ UNCHANGED <<files, saved>>

\* A file that cannot be opened leaves the configuration as it is.  help ends the
\* program from within.
ParseConfigFile ==
    LET pairs == IF files[path] = NoFile THEN <<>> ELSE conf_parser_parse_now(files[path]) IN
    /\ pc = "file"
    /\ conf' = pairs
    /\ cfg' = parse_config_file(cfg, pairs)
    /\ IF \E i \in DOMAIN parser_traverser(pairs) : parser_traverser(pairs)[i].key = "help"
       THEN Off(FALSE)
       ELSE pc' = "cmdline" /\ UNCHANGED refused
    /\ UNCHANGED <<files, runs, argv, path, active, impl, priv, before, saved>>

\* Mutant: the file is read after the command line.
ParseCmdlineOpts_first ==
    LET got == parse_cmdline_opts(cfg, argv) IN
    /\ pc = "cmdline"
    /\ cfg' = parse_config_file(got.cfg, conf)
    /\ IF got.ok /\ validate_params(cfg') THEN pc' = "select" /\ UNCHANGED refused ELSE Off(TRUE)
    /\ UNCHANGED <<files, runs, argv, path, conf, active, impl, priv, before, saved>>

ParseCmdlineOpts ==
    LET got == parse_cmdline_opts(cfg, argv) IN
    /\ pc = "cmdline"
    /\ cfg' = got.cfg
    /\ IF got.help THEN Off(FALSE)
       ELSE IF got.ok /\ validate_params(got.cfg) THEN pc' = "select" /\ UNCHANGED refused
       ELSE Off(TRUE)
    /\ UNCHANGED <<files, runs, argv, path, conf, active, impl, priv, before, saved>>

\* Where getopt_long answers ':' to an argument that an option does not take, the
\* program ends at the first of them, if it comes so far.
ParseArgumentOfNone ==
    /\ pc = "cmdline"
    /\ \E i \in DOMAIN argv :
        LET got == parse_cmdline_opts(cfg, SubSeq(argv, 1, i - 1)) IN
        /\ TakesNone(argv[i], MainArguments(argv))
        /\ \A j \in 1..(i - 1) : ~TakesNone(argv[j], MainArguments(argv))
        /\ got.ok /\ ~got.help
        /\ cfg' = got.cfg
    /\ Off(TRUE)
    /\ UNCHANGED <<files, runs, argv, path, conf, active, impl, priv, before, saved>>

\* A plugin that is not there is passed over, a driver that is not ends the run.
\* No name selects the first driver.
select_packet_plugin(names) == Select(names, Plugins)
select_if_impl(name) ==
    IF name = None THEN Some(Impls[1])
    ELSE IF name[1] \in ToSet(Impls) THEN name ELSE None

SelectImplementations ==
    /\ pc = "select"
    /\ active' = select_packet_plugin(cfg.modules)
    /\ impl' = select_if_impl(cfg.text["if-impl"])
    /\ IF impl' = None THEN Off(TRUE) ELSE pc' = "plugins" /\ UNCHANGED refused
    /\ UNCHANGED <<files, runs, argv, path, conf, cfg, priv, before, saved>>

\* Every hook is called once for each time a plugin is selected; rjv3 alone has
\* hooks, and one set of options.
packet_plugin_load_default_params(p) ==
    IF Rjv3 \in ToSet(active) THEN rjv3_load_default_params(p) ELSE p
packet_plugin_process_config_file(p) ==
    FoldLeft(LAMBDA q, name : IF name = Rjv3 THEN rjv3_process_config_file(q, conf) ELSE q,
             p, active)
packet_plugin_process_cmdline_opts(p) ==
    FoldLeft(LAMBDA acc, name : IF name = Rjv3 /\ acc.ok
                                THEN rjv3_process_cmdline_opts(acc.priv, argv) ELSE acc,
             [ok |-> TRUE, priv |-> p], active)

InitPluginConfig ==
    LET got == packet_plugin_process_cmdline_opts(
                  packet_plugin_process_config_file(packet_plugin_load_default_params(priv)))
    IN  /\ pc = "plugins"
        /\ priv' = got.priv
        /\ IF got.ok THEN pc' = "save" /\ UNCHANGED refused ELSE Off(TRUE)
        /\ UNCHANGED <<files, runs, argv, path, conf, cfg, active, impl, before, saved>>

packet_plugin_save_config(list) ==
    FoldLeft(LAMBDA l, name : IF name = Rjv3 THEN rjv3_save_config(l, priv) ELSE l, list, active)

\* Mutant: the file is opened before the plugins have read their options.
OpenToSave_early ==
    /\ pc = "plugins" /\ cfg.save_now /\ files[path] # <<>>
    /\ files' = [files EXCEPT ![path] = <<>>]
    /\ UNCHANGED <<runs, pc, run, before, refused, saved>>

\* Opening the file empties it.  When it cannot be opened nobody looks at the answer.
OpenToSave ==
    /\ pc = "save" /\ cfg.save_now
    /\ conf' = packet_plugin_save_config(save_config_file(cfg, active, impl[1]))
    /\ files' = [files EXCEPT ![path] = <<>>]
    /\ saved' = IF saved # None /\ saved[1].path = path THEN None ELSE saved
    /\ pc' = "write"
    /\ UNCHANGED <<runs, argv, path, cfg, active, impl, priv, before, refused>>

NotSaved ==
    /\ pc = "save"
    /\ conf' = <<>>
    /\ pc' = "running"
    /\ UNCHANGED <<files, runs, argv, path, cfg, active, impl, priv, before, refused, saved>>

\* The lines are in a buffer until fclose.
conf_parser_save_file ==
    /\ pc = "write"
    /\ files' = [files EXCEPT ![path] = conf]
    /\ saved' = Some(Current)
    /\ conf' = <<>>
    /\ pc' = "running"
    /\ UNCHANGED <<runs, argv, path, cfg, active, impl, priv, before, refused>>

\* A running program ends; any step may be its last.
End ==
    /\ pc # "off"
    /\ Off(FALSE)
    /\ UNCHANGED <<files, runs, run, before, saved>>

Next ==
    \/ Start
    \/ ParseConfigFile \/ ParseCmdlineOpts \/ ParseArgumentOfNone
    \/ SelectImplementations \/ InitPluginConfig
    \/ OpenToSave \/ NotSaved \/ conf_parser_save_file
    \/ End

Spec == Init /\ [][Next]_vars
-----------------------------------------------------------------------------
(* What the options ask for *)

\* The options of the command line, the program's and rjv3's, and those of the file.
Given   == getopt_long(argv, MainArguments(argv)).opts
RjGiven == getopt_long(argv, RjArguments(argv)).opts
Read ==
    IF before[path] = NoFile THEN <<>>
    ELSE parser_traverser(conf_parser_parse_now(before[path]))

\* What a list of options says of some of them, in order.
Values(opts, names) ==
    LET of == Select(opts, [key : names, value : Maybe(Texts)])
    IN  [i \in DOMAIN of |-> IF of[i].value = None THEN <<>> ELSE of[i].value[1]]

LastOf(values, default) == IF values = <<>> THEN default ELSE Some(values[Len(values)])

Gives(o, opts) == Values(opts, {o}) # <<>>

\* What an option is to be: the last value of the command line, else of the file.
Wanted(o, given, read) == LastOf(Values(given, {o}), LastOf(Values(read, {o}), None))

\* The same where an option without a value is told from one with an empty value.
LastValue(o, opts) ==
    LET of == Select(opts, [key : {o}, value : Maybe(Texts)])
    IN  IF of = <<>> THEN None ELSE <<of[Len(of)].value>>

WantedValue(o, given, read) ==
    IF LastValue(o, given) = None THEN LastValue(o, read) ELSE LastValue(o, given)

NumberOf(o, text) ==
    CASE o \in {"daemonize", "dhcp-type"} -> CMod(atoi(text), 4)
      [] o = "eap-bcast-addr" -> CMod(atoi(text), 2)
      [] OTHER -> atoi(text)

AsNumber(o, wanted, default) == IF wanted = None THEN default ELSE NumberOf(o, wanted[1])
AsText(wanted, default, max) == IF wanted = None THEN default ELSE Some(Cut(wanted[1], max))

AsKillType(wanted, default) ==
    IF wanted = None THEN default
    ELSE IF wanted[1] = None THEN "KILL_ONLY" ELSE "KILL_AND_START"
AsFlag(wanted, default) ==
    IF wanted = None THEN default ELSE wanted[1] = None \/ atoi(wanted[1][1]) # 0

\* The values that the help and the manual give (config.c:102, rjv3.c:102-109,
\* minieap.1:60, 132, 138).
Documented(o) == IF o = "eap-bcast-addr" THEN 0..1 ELSE 0..3

\* A negative argument is the one way to another number.
AsDocumented(o, n, wanted) == n \in Documented(o) \/ (wanted # None /\ atoi(wanted[1]) < 0)
-----------------------------------------------------------------------------
(* Type correctness *)

\* The texts fit their buffers.
ConfigFits(c) ==
    /\ c \in PROG_CONFIG
    /\ \A o \in TextOptions : c.text[o] # None => Len(c.text[o][1]) <= MaxLen(o)

PrivFits(p) ==
    /\ p \in RJV3_PRIV
    /\ \A o \in RjTextOptions : p.text[o] # None => Len(p.text[o][1]) <= RjMaxLen(o)

\* The numbers that choose among a few ways choose one that there is, unless the
\* argument was negative.
NumbersInRange ==
    pc = "running" =>
        /\ AsDocumented("daemonize", cfg.num["daemonize"], Wanted("daemonize", Given, Read))
        /\ Rjv3 \in ToSet(active) => \A o \in {"dhcp-type", "eap-bcast-addr"} :
                AsDocumented(o, priv.num[o], Wanted(o, RjGiven, Read))

\* Every variable has its type, every text fits its buffer, and the numbers that have
\* documented values have one of these, except for a negative argument.
TypeOK ==
    /\ files \in [Paths -> Lines] /\ before \in [Paths -> Lines]
    /\ pc \in Steps \cup {"off"} /\ runs \in 0..MaxRuns /\ refused \in BOOLEAN
    /\ argv \in Seq(Words) /\ path \in Paths /\ conf \in Lines
    /\ ConfigFits(cfg) /\ PrivFits(priv)
    /\ active \in Seq(Plugins) /\ impl \in Maybe(ToSet(Impls))
    /\ (saved # None => saved[1].path \in Paths)
    /\ NumbersInRange
-----------------------------------------------------------------------------
(* Properties *)

\* "--daemonize, -b <0-3>" (config.c:102), "--eap-bcast-addr, -a <0-1>" and
\* "--dhcp-type, -d <0-3>" (rjv3.c:102, 105): the numbers are of these.  Refuted: of a
\* negative argument % leaves a negative remainder, which is none of the ways.
NumbersAsDocumented ==
    pc = "running" => /\ cfg.num["daemonize"] \in Documented("daemonize")
                      /\ \A o \in {"dhcp-type", "eap-bcast-addr"} : priv.num[o] \in Documented(o)

\* "Override values in config file with cmdline" (minieap.c:29, 56): every option
\* that has one value has the last one of the command line, else the last one of the
\* file, else the default.  An option that has no default to go back to once it is
\* given (no-auto-reauth, save) counts when either gives it.  password-env is no
\* value of its own and is left out, and so is the password where password-env has a
\* say: on a command line that names it, and in a file that does when the command
\* line has no password (EnvironmentWins).
CmdlineWins ==
    LET default == load_default_params(None)
        rj      == rjv3_load_default_params(NewPriv)
        given   == Given
        rjgiven == RjGiven
        read    == Read
        secret  == /\ ~Gives("password-env", given)
                   /\ Gives("password", given) \/ ~Gives("password-env", read)
    IN  pc = "running" =>
        /\ \A o \in NumOptions : cfg.num[o] = AsNumber(o, Wanted(o, given, read), default.num[o])
        /\ \A o \in TextOptions : (o = "password" => secret) =>
                cfg.text[o] = AsText(Wanted(o, given, read), default.text[o], MaxLen(o))
        /\ cfg.kill_type = AsKillType(WantedValue("kill", given, read), "KILL_NONE")
        /\ cfg.logoff_before_start = AsFlag(WantedValue("logoff-first", given, read), FALSE)
        /\ (cfg.restart_on_logoff <=> Wanted("no-auto-reauth", given, read) = None)
        /\ (cfg.save_now <=> Wanted("save", given, read) # None)
        /\ Rjv3 \in ToSet(active) =>
            /\ \A o \in RjNumOptions : priv.num[o] = AsNumber(o, Wanted(o, rjgiven, read), rj.num[o])
            /\ \A o \in RjTextOptions :
                    priv.text[o] = AsText(Wanted(o, rjgiven, read), rj.text[o], RjMaxLen(o))

\* "--password-env <...>: the password is read from the given environment variable"
\* (config.c:94): also when the file has a password.  Refuted: a file that names the
\* variable too has used it up (config.c:144), and the password of the file stays.
EnvironmentWins ==
    (pc = "running" /\ Environ # None /\ Gives("password-env", Given) /\ ~Gives("password", Given))
    => cfg.text["password"] = AsText(Environ, None, MaxLen("password"))

\* The properties and the replacements a list of values says.
Props(values) == FoldLeft(LAMBDA p, v : append_rj_cmdline_opt(p, v).priv, NewPriv, values)
Times(n, list) == FlattenSeq([i \in 1..n |-> list])

\* The options that may come several times: modules of the command line replace those
\* of the file (config.c:115), properties of both are kept (rjv3.c:114), those of the
\* file first, once for every time the plugin is selected.
RepeatablesAsAsked ==
    LET given   == Values(Given, ModuleOptions)
        modules == IF given # <<>> THEN given ELSE Values(Read, ModuleOptions)
        file    == Props(Values(Read, {"rj-option"}))
        asked   == Props(Values(RjGiven, {"rj-option"}))
        n       == Len(Select(active, {Rjv3}))
    IN  pc = "running" =>
        /\ active = Select(modules, Plugins)
        /\ priv.props = Times(n, file.props) \o Times(n, asked.props)
        /\ priv.mods  = Times(n, file.mods) \o Times(n, asked.mods)

\* A configuration a file can hold: automatic restart is off (any no-auto-reauth
\* turns it off), no number is negative, every value fits in a line and neither is
\* empty nor ends in a blank, and rjv3 with properties is selected once.
Storable(s) ==
    LET fits(o, t) == RTRIM(t) = t /\ Len(o) + 1 + Len(t) < MAX_LINE_LEN
        kept(o, v) == v # None => fits(o, v[1]) /\ (v[1] # <<>> \/ o = "dhcp-script")
    IN  /\ ~s.cfg.restart_on_logoff
        /\ \A o \in NumOptions : s.cfg.num[o] >= 0
        /\ \A o \in RjNumOptions : s.priv.num[o] >= 0
        /\ \A o \in TextOptions : kept(o, s.cfg.text[o])
        /\ \A o \in RjTextOptions : kept(o, s.priv.text[o])
        /\ \A prop \in ToSet(s.priv.props) : fits("rj-option", rjv3_save_one_prop(prop, FALSE))
        /\ \A prop \in ToSet(s.priv.mods) : fits("rj-option", rjv3_save_one_prop(prop, TRUE))
        /\ \/ Len(Select(s.active, {Rjv3})) <= 1
           \/ s.priv.props = <<>> /\ s.priv.mods = <<>>

\* What a save is to keep.  kill is of one run only.
Kept(s) == [s EXCEPT !.cfg = [text |-> [o \in TextOptions \ {"if-impl"} |-> s.cfg.text[o]],
                              num |-> s.cfg.num, proxy_on |-> s.cfg.proxy_on,
                              restart_on_logoff |-> s.cfg.restart_on_logoff,
                              logoff_before_start |-> s.cfg.logoff_before_start]]

\* A run that only names the file was started after a complete save of it.
Reloaded == /\ pc = "running" /\ saved # None /\ saved[1].path = path
            /\ Given = <<>> /\ RjGiven = <<>>

\* A saved configuration that a file can hold is the configuration of the next run
\* that is given nothing else: all that save_config_file writes is read back as it was.
ReloadsAsSaved == Reloaded /\ Storable(saved[1]) => Kept(Current) = Kept(saved[1])

\* "--save, -w: saves the parameters used for this authentication" (config.c:92):
\* then the next run has them.  Refuted: no-auto-reauth=0 is written for a
\* configuration that restarts and read as one that does not.
SavedConfigReloads == Reloaded => Kept(Current) = Kept(saved[1])

\* A run whose options are refused leaves every file as it found it, also where the
\* plugins refuse what the program let pass.
RefusedKeepsFiles == refused => files = before
=============================================================================
