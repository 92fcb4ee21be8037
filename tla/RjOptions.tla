----------------------------- MODULE RjOptions -----------------------------
(* The options of the rjv3 plugin, and all that a save writes.                *)
EXTENDS Options

MAX_PROP_LEN == 200

RjTextOptions == {"service", "version-str", "dhcp-script", "fake-dns1", "fake-dns2", "fake-serial"}
RjNumOptions  == {"heartbeat", "eap-bcast-addr", "dhcp-type", "max-dhcp-count"}

RjMaxLen(name) == CASE name = "service" -> 32
                    [] name \in {"version-str", "fake-serial"} -> MAX_PROP_LEN
                    [] name = "dhcp-script" -> 260
                    [] OTHER -> 46

Internet == <<203>>
Version  == <<204>>

\* A property of the user's; no digits are longer than MAX_PROP_LEN.
RjProps == {prop \in [type : Nat, content : Texts] : 2 * Len(prop.content) <= MAX_PROP_LEN}

\* rjv3_priv as far as options reach.  The lists of properties are not reset.
rjv3_load_default_params(p) ==
    [p EXCEPT !.text["service"] = Some(Internet), !.text["version-str"] = Some(Version),
              !.text["dhcp-script"] = Some(<<>>),
              !.num = [o \in RjNumOptions |-> CASE o = "heartbeat" -> 60
                                                [] o = "eap-bcast-addr" -> 0
                                                [] o = "dhcp-type" -> 2
                                                [] o = "max-dhcp-count" -> 3]]

NewPriv == [text |-> [o \in RjTextOptions |-> None], num |-> [o \in RjNumOptions |-> 0],
            props |-> <<>>, mods |-> <<>>]

\* <type>:<value>[:r], both hexadecimal: the type is one byte, an odd last digit
\* of the value is a byte.
append_rj_cmdline_opt(p, arg) ==
    LET part == Tokens(arg)
        digits == Cut(part[2], MAX_PROP_LEN)
        prop == [type |-> char2hex(Cut(part[1], 2), 1),
                 content |-> [i \in 1..((Len(digits) + 1) \div 2) |-> char2hex(part[2], 2 * i - 1)]]
    IN  IF Len(part) < 2 THEN [ok |-> FALSE, priv |-> p]
        ELSE IF Len(part) > 2 /\ part[3][1] = R
        THEN [ok |-> TRUE, priv |-> [p EXCEPT !.mods = Append(@, prop)]]
        ELSE [ok |-> TRUE, priv |-> [p EXCEPT !.props = Append(@, prop)]]

rjv3_parse_one_opt(p, opt) ==
    LET arg == opt.value[1]
        done(q) == [ok |-> TRUE, priv |-> q]
        number == CASE opt.key = "eap-bcast-addr" -> CMod(atoi(arg), 2)
                    [] opt.key = "dhcp-type" -> CMod(atoi(arg), 4)
                    [] OTHER -> atoi(arg)
    IN  CASE opt.key = "rj-option" -> append_rj_cmdline_opt(p, arg)
          [] opt.key \in RjNumOptions -> done([p EXCEPT !.num[opt.key] = number])
          [] opt.key \in RjTextOptions ->
                done([p EXCEPT !.text[opt.key] = Some(Cut(arg, RjMaxLen(opt.key)))])
          [] OTHER -> done(p)

\* An option of the file that is malformed is skipped.
rjv3_process_config_file(p, conf) ==
    FoldLeft(LAMBDA q, pair : rjv3_parse_one_opt(q, pair).priv, p, parser_traverser(conf))

RjArgument(word) ==
    IF word.name \in RjTextOptions \cup RjNumOptions \cup {"rj-option"} THEN "required" ELSE "unknown"

RjArguments(argv) == [word \in ToSet(argv) |-> RjArgument(word)]

\* On the command line it ends the program, and so does a missing argument.
rjv3_process_cmdline_opts(p, argv) ==
    LET got == getopt_long(argv, RjArguments(argv))
        one(acc, opt) == IF acc.ok THEN rjv3_parse_one_opt(acc.priv, opt) ELSE acc
        end == FoldLeft(one, [ok |-> TRUE, priv |-> p], got.opts)
    IN  [end EXCEPT !.ok = @ /\ ~got.missing]
-----------------------------------------------------------------------------
(* Saving *)

\* Mutant: the mark of a replacement is forgotten.
rjv3_save_one_prop_unmarked(prop, is_mod) ==
    hex2char(prop.type) \o <<Colon>>
        \o FlattenSeq([i \in DOMAIN prop.content |-> hex2char(prop.content[i])])

rjv3_save_one_prop(prop, is_mod) ==
    hex2char(prop.type) \o <<Colon>>
        \o FlattenSeq([i \in DOMAIN prop.content |-> hex2char(prop.content[i])])
        \o (IF is_mod THEN <<Colon, R>> ELSE <<>>)

AddAll(list, key, values) ==
    FoldLeft(LAMBDA l, v : conf_parser_add_value(l, key, Some(v)), list, values)
AddEach(list, pairs) ==
    FoldLeft(LAMBDA l, pair : conf_parser_add_value(l, pair[1], pair[2]), list, pairs)

rjv3_save_config(list, p) ==
    LET num(o)  == <<o, Some(my_itoa(p.num[o]))>>
        text(o) == <<o, p.text[o]>>
        saved(props, is_mod) == [i \in DOMAIN props |-> rjv3_save_one_prop(props[i], is_mod)]
        numbers == AddEach(list, <<num("heartbeat"), num("eap-bcast-addr"), num("dhcp-type")>>)
        props   == AddAll(AddAll(numbers, "rj-option", saved(p.props, FALSE)),
                          "rj-option", saved(p.mods, TRUE))
    IN  AddEach(props, <<text("service"), text("version-str"), text("dhcp-script"),
                         text("fake-dns1"), text("fake-dns2"), text("fake-serial"),
                         num("max-dhcp-count")>>)

Zero == <<0>>
One  == <<1>>

\* The options before the plugins', with the plugins that are active and the
\* driver that is selected.  kill and save are not saved.  no-auto-reauth is
\* written in both cases.
save_config_file(c, active, impl) ==
    LET num(o)   == <<o, Some(my_itoa(c.num[o]))>>
        text(o)  == <<o, c.text[o]>>
        flag(o, on) == <<o, Some(IF on THEN One ELSE Zero)>>
        account  == AddEach(<<>>, <<text("username"), text("password"), text("nic")>>)
        modules  == AddAll(account, "module", active)
    IN  AddEach(modules,
            <<num("daemonize"), <<"if-impl", Some(impl)>>, num("max-fail"), num("max-retries"),
              flag("no-auto-reauth", ~c.restart_on_logoff),
              flag("logoff-first", c.logoff_before_start), num("wait-after-fail"),
              num("stage-timeout"), text("proxy-lan-iface"), num("auth-round"),
              text("pid-file"), text("log-file")>>)
-----------------------------------------------------------------------------
(* What files and command lines are made of *)

\* Any name; those the program writes are listed since the proof system knows of
\* no text that it is a STRING.
Names == STRING \cup TextOptions \cup NumOptions \cup ModuleOptions \cup RjTextOptions
            \cup RjNumOptions \cup {"no-auto-reauth", "logoff-first", "rj-option"}

Lines == Seq([key : Names, value : Texts])

\* A word is a text, or an option.
Words == [form : {"long", "short"}, name : Names, glued : Maybe(Texts)]
            \cup [form : {"text"}, name : Names, glued : [1..1 -> Texts]]
=============================================================================
