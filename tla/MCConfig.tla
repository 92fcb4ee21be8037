------------------------------ MODULE MCConfig ------------------------------
(* Command lines and files small enough to run every sequence of three runs.  *)
EXTENDS Config

me == <<97>>      \* a user name
en0 == <<101, 110>>
en1 == <<101, 111>>
secret == <<115>>
hidden == <<116>>   \* the password in the environment variable
Variable == <<80>>
Other == <<199>>  \* another configuration file
Printer == <<207>>
Libpcap == <<208>>
Bpf     == <<209>>

\* A property 6f:0102, its replacement, and one too long for a line of the file.
Prop == <<6, 15, Colon, 0, 1, 0, 2>>
Mod  == <<6, 15, Colon, 0, 3, Colon, R>>
LongMod == <<6, 15, Colon>> \o [i \in 1..90 |-> 1] \o <<Colon, R>>
BadProp == <<6, 15>>

MCPaths   == {DefaultConffile, Other}
MCPlugins == {Rjv3, Printer}
MCImpls   == <<Libpcap, Bpf>>
MCEnviron == Some(hidden)

line(k, v) == [key |-> k, value |-> v]
account == <<line("username", me), line("password", secret), line("nic", en0)>>

\* The sample of the repository, an empty one, one with options of every kind.
MCFiles ==
    LET rich == <<line("password-env", Variable)>> \o account
                 \o <<line(Comment, <<1>>), line("module", Rjv3), line(NoKey, <<1>>),
                             line("rj-option", Prop), line("rj-option", BadProp),
                             line("max-fail", <<7>>), line("heartbeat", <<3, 0>>),
                             line("service", <<9, Blank>>), line("log-file", <<>>)>>
    IN  {[p \in MCPaths |-> IF p = Other THEN NoFile ELSE f] :
            f \in {<<>>, Append(account, line("module", Rjv3)), rich}}

o(name, text) == <<Long(name), Word(text)>>
Save == <<Long("save")>>
Account == o("username", me) \o <<Long("password-env"), Word(Variable)>> \o o("nic", en1)

MCArgvs ==
    { <<>>, Save, <<Long("help")>>, <<Long("username")>>,
      o("conf-file", Other), <<Long("conf-file")>>,
      o("conf-file", Other) \o Account \o Save,
      Account \o Save \o o("module", Printer) \o o("module", Rjv3) \o o("rj-option", Mod),
      Save \o <<Long("no-auto-reauth")>> \o o("rj-option", Mod) \o o("max-fail", <<1, 0>>),
      Save \o <<Short("no-auto-reauth"), Long("save")>> \o o("wait-after-fail", <<Dash, 5>>),
      Save \o <<Long("no-auto-reauth"), Short("dhcp-script"), Word(<<8>>)>> \o o("service", <<7, 7>>),
      Save \o <<Long("no-auto-reauth")>> \o o("rj-option", LongMod),
      Save \o o("module", Rjv3) \o o("module", Rjv3) \o o("rj-option", Prop),
      Save \o o("password", <<6>>) \o <<LongGlued("no-auto-reauth", <<0>>)>>, <<LongGlued("save", <<1>>), Long("help")>>,
      Save \o o("rj-option", BadProp), Save \o o("if-impl", <<1>>),
      Save \o o("password", <<5, Blank>>) \o o("if-impl", Bpf) \o o("daemonize", <<7>>),
      <<Short("kill"), LongGlued("kill", <<1>>), Long("logoff-first")>> \o o("dhcp-type", <<Dash, 1>>),
      o("proxy-lan-iface", en1) \o o("eap-bcast-addr", <<3>>) \o Save }
=============================================================================
