------------------------------ MODULE Options ------------------------------
(* The options of minieap: the words of a command line, the lines of the      *)
(* configuration file, what each option does to the configuration, and what   *)
(* is written when it is saved.                                               *)
(*                                                                            *)
(* A text is a sequence of characters, a character a number: a hexadecimal    *)
(* digit is its own value, the others are the constants below.  A value that  *)
(* may be missing is a sequence of at most one text (NULL is <<>>).           *)
EXTENDS Lists

Blank == 32
Dash  == 45
Colon == 58
R     == 114

None    == <<>>
Some(t) == <<t>>

Texts == Seq(Nat)
Maybe(S) == {<<>>} \cup [1..1 -> S]

Cut(text, n)   == SubSeq(text, 1, IF Len(text) < n THEN Len(text) ELSE n)
IsDigit(c)     == c \in 0..9
\* The C remainder: it has the sign of the dividend.
CMod(n, m)     == IF n >= 0 THEN n % m ELSE -((-n) % m)
-----------------------------------------------------------------------------
(* Texts and numbers *)

\* The C library's: a sign, then digits up to the first other character.
atoi(text) ==
    LET minus  == text # <<>> /\ text[1] = Dash
        digits == IF minus THEN Tail(text) ELSE text
        stop   == SelectInSeq(digits, LAMBDA c : ~IsDigit(c))
        n      == FoldLeft(LAMBDA v, d : 10 * v + d, 0,
                           IF stop = 0 THEN digits ELSE SubSeq(digits, 1, stop - 1))
    IN  IF minus THEN -n ELSE n

\* The digits are written over the sign.
my_itoa(val) ==
    LET n == IF val < 0 THEN -val ELSE val
        digits[m \in 0..n] == IF m < 10 THEN <<m>> ELSE Append(digits[m \div 10], m % 10)
    IN  digits[n]

\* The byte of the two digits at position at, or of the single last one.
char2hex(text, at) == IF at = Len(text) THEN text[at] ELSE (16 * text[at] + text[at + 1]) % 256

hex2char(byte) == <<byte \div 16, byte % 16>>

\* Blanks are trimmed from the end of a line.
RTRIM(text) == Cut(text, SelectLastInSeq(text, LAMBDA c : c # Blank))

\* strtok: what stands between delimiters, never empty.
Tokens(text) ==
    LET step(acc, c) == IF c = Colon THEN Append(acc, <<>>)
                                     ELSE [acc EXCEPT ![Len(acc)] = Append(@, c)]
        parts == FoldLeft(step, <<<<>>>>, text)
    IN  Select(parts, ToSet(parts) \ {<<>>})
-----------------------------------------------------------------------------
(* The lines of the configuration file *)

MAX_LINE_LEN == 100

\* A value that is NULL makes no line.
conf_parser_add_value(list, key, value) ==
    IF value = None THEN list ELSE Append(list, [key |-> key, value |-> value[1]])

\* fgets reads MAX_LINE_LEN - 1 characters of a line, what is left is a line of
\* its own.  It has no key (a text here holds no '=') and is dropped like the
\* line with key NoKey; a comment has key Comment.
NoKey   == ""
Comment == "#"
conf_parser_parse_now(file) ==
    LET left(line) == MAX_LINE_LEN - 1 - Len(line.key) - 1
        room(line) == IF left(line) \in Nat THEN left(line) ELSE 0
        pairs      == Select(file, {line \in ToSet(file) : line.key \notin {NoKey, Comment}})
    IN  [i \in DOMAIN pairs |-> [pairs[i] EXCEPT !.value = RTRIM(Cut(@, room(pairs[i])))]]

\* The options of the file; those without a value are refused.
parser_traverser(conf) ==
    LET pairs == Select(conf, {pair \in ToSet(conf) : pair.value # <<>>})
    IN  [i \in DOMAIN pairs |-> [key |-> pairs[i].key, value |-> Some(pairs[i].value)]]
-----------------------------------------------------------------------------
(* The words of the command line, and getopt_long of the C library *)

\* A word is an option --name or -n (form "long" or "short") with an argument
\* glued to it (--name=text) or None, or a text.
Long(name)         == [form |-> "long", name |-> name, glued |-> None]
Short(name)        == [form |-> "short", name |-> name, glued |-> None]
LongGlued(name, t) == [form |-> "long", name |-> name, glued |-> Some(t)]
Word(t)            == [form |-> "text", name |-> "", glued |-> Some(t)]

\* An option taken for an argument starts with a dash.
TextOf(word) == IF word.form = "text" THEN word.glued[1] ELSE <<Dash>>

\* arguments[word] is what the tables say of an option: "none", "required",
\* "optional" (glued or nothing) or "unknown".  The answer: the options in order,
\* each [key, value], and whether the last one misses its argument.  An option with
\* an argument that it does not take is answered '?', which nobody acts on.
getopt_long(argv, arguments) ==
    LET option(w, value) == [key |-> w.name, value |-> value]
        read(acc, w) ==
            IF acc.owner # <<>>
            THEN [opts |-> Append(acc.opts, option(acc.owner[1], Some(TextOf(w)))), owner |-> <<>>]
            ELSE IF w.form = "text" \/ arguments[w] = "unknown" THEN acc
            ELSE IF arguments[w] = "none" /\ w.glued # None THEN acc
            ELSE IF arguments[w] = "required" /\ w.glued = None THEN [acc EXCEPT !.owner = <<w>>]
            ELSE [acc EXCEPT !.opts = Append(@, option(w, w.glued))]
        end == FoldLeft(read, [opts |-> <<>>, owner |-> <<>>], argv)
    IN  [opts |-> end.opts, missing |-> end.owner # <<>>]

\* Some C libraries answer it ':', like an argument that is missing.
TakesNone(word, arguments) == word.form # "text" /\ arguments[word] = "none" /\ word.glued # None
-----------------------------------------------------------------------------
(* config.c: the options of the program *)

KILL_TYPE   == {"KILL_NONE", "KILL_ONLY", "KILL_AND_START"}

TextOptions  == {"username", "password", "nic", "if-impl", "proxy-lan-iface", "pid-file", "log-file"}
NumOptions   == {"daemonize", "max-fail", "max-retries", "wait-after-fail", "stage-timeout",
                 "auth-round"}
ModuleOptions == {"module", "pkt-plugin"}

\* The longest value that is kept: USERNAME_MAX_LEN, IFNAMSIZ, MAX_PATH, ...
MaxLen(name) == CASE name \in {"username", "password"} -> 64
                  [] name \in {"nic", "if-impl", "proxy-lan-iface"} -> 16
                  [] OTHER -> 260

\* Paths and names that are never looked into are texts of one character.
Pidfile == <<201>>
Logfile == <<202>>

load_default_params(environ) ==
    [text |-> [o \in TextOptions |-> CASE o = "pid-file" -> Some(Pidfile)
                                       [] o = "log-file" -> Some(Logfile)
                                       [] OTHER -> None],
     num  |-> [o \in NumOptions |-> CASE o = "daemonize" -> 0
                                      [] o \in {"max-fail", "max-retries"} -> 3
                                      [] o = "wait-after-fail" -> 30
                                      [] o = "stage-timeout" -> 5
                                      [] o = "auth-round" -> 1],
     modules |-> <<>>, restart_on_logoff |-> TRUE, logoff_before_start |-> FALSE,
     save_now |-> FALSE, kill_type |-> "KILL_NONE", proxy_on |-> FALSE,
     environ |-> environ]

\* Mutant: any number is a way to run in the background.
DaemonType_any(arg) == atoi(arg)

\* One of the four ways, unless the number is negative.
DaemonType(arg) == CMod(atoi(arg), 4)

\* A text is kept up to its longest; a number replaces the one there is.
COPY_N_ARG_TO(c, name, text) == [c EXCEPT !.text[name] = Some(Cut(text, MaxLen(name)))]
SetNumber(c, name, n)        == [c EXCEPT !.num[name] = n]

\* What one option does to the configuration.  A password taken from the
\* environment is removed from there.  The values of no-auto-reauth are not read.
parse_one_opt(c, opt) ==
    LET arg == IF opt.value = None THEN <<>> ELSE opt.value[1]
    IN  CASE opt.key = "proxy-lan-iface" -> [COPY_N_ARG_TO(c, opt.key, arg) EXCEPT !.proxy_on = TRUE]
          [] opt.key \in TextOptions \ {"proxy-lan-iface"} -> COPY_N_ARG_TO(c, opt.key, arg)
          [] opt.key = "password-env" ->
                IF c.environ = None THEN c
                ELSE [COPY_N_ARG_TO(c, "password", c.environ[1]) EXCEPT !.environ = None]
          [] opt.key = "daemonize" -> SetNumber(c, "daemonize", DaemonType(arg))
          [] opt.key \in NumOptions \ {"daemonize"} -> SetNumber(c, opt.key, atoi(arg))
          [] opt.key \in ModuleOptions -> [c EXCEPT !.modules = Append(@, arg)]
          [] opt.key = "save" -> [c EXCEPT !.save_now = TRUE]
          [] opt.key = "no-auto-reauth" -> [c EXCEPT !.restart_on_logoff = FALSE]
          [] opt.key = "logoff-first" ->
                [c EXCEPT !.logoff_before_start = (opt.value = None \/ atoi(arg) # 0)]
          [] opt.key = "kill" ->
                [c EXCEPT !.kill_type = IF opt.value = None THEN "KILL_ONLY" ELSE "KILL_AND_START"]
          [] OTHER -> c

\* longOpts, and shortOpts "-:hk::wu:p:n:t:r:l:x:b:c:z:j:": the short form of
\* no-auto-reauth takes an argument, and -c (dhcp-script of rjv3) is let by with its.
MainArgument(word) ==
    CASE word.name \in {"help", "save", "logoff-first"} -> "none"
      [] word.name = "no-auto-reauth" -> IF word.form = "short" THEN "required" ELSE "none"
      [] word.name = "kill" -> "optional"
      [] word.name \in TextOptions \cup NumOptions \cup ModuleOptions \cup {"password-env"} -> "required"
      [] word.name = "dhcp-script" /\ word.form = "short" -> "required"
      [] OTHER -> "unknown"

MainArguments(argv) == [word \in ToSet(argv) |-> MainArgument(word)]

\* Mutant: the modules of the file are not given up.
parse_cmdline_opts_adding(c, argv) ==
    LET got == getopt_long(argv, MainArguments(argv))
    IN  [cfg  |-> FoldLeft(parse_one_opt, c, got.opts),
         help |-> \E i \in DOMAIN got.opts : got.opts[i].key = "help",
         ok   |-> ~got.missing]

\* The first module of the command line gives up those of the file.
parse_cmdline_opts(c, argv) ==
    LET got == getopt_long(argv, MainArguments(argv))
        one(acc, opt) ==
            IF opt.key \in ModuleOptions /\ ~acc.reset
            THEN [cfg |-> parse_one_opt([acc.cfg EXCEPT !.modules = <<>>], opt), reset |-> TRUE]
            ELSE [acc EXCEPT !.cfg = parse_one_opt(@, opt)]
    IN  [cfg  |-> FoldLeft(one, [cfg |-> c, reset |-> FALSE], got.opts).cfg,
         help |-> \E i \in DOMAIN got.opts : got.opts[i].key = "help",
         ok   |-> ~got.missing]

parse_config_file(c, conf) == FoldLeft(parse_one_opt, c, parser_traverser(conf))

\* A proxy needs its second interface, which is there whenever proxy_on is; else
\* an account is needed; the interface always.
validate_params(c) ==
    /\ ~c.proxy_on => c.text["username"] # None /\ c.text["password"] # None
    /\ c.proxy_on  => c.text["proxy-lan-iface"] # None
    /\ c.text["nic"] # None
=============================================================================
