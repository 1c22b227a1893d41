---------------------------- MODULE MCConfigFile ----------------------------
(***************************************************************************)
(* Some of the options of cfg_reader.cpp, one of every kind, for TLC.      *)
(***************************************************************************)
EXTENDS ConfigGrammar

Opt(t, list, nodefault, default) ==
  [type |-> t, list |-> list, nodefault |-> nodefault, default |-> default]

Section == Opt("SEC", FALSE, FALSE, <<>>)

MCOpts ==
  [root |-> [daemon |-> Section, db |-> Section, sip |-> Section, prometheus |-> Section],
   daemon |-> [listen |-> Opt("STR", TRUE, TRUE, <<>>), log_level |-> Opt("INT", FALSE, TRUE, <<>>)],
   db |-> [host |-> Opt("STR", FALSE, TRUE, <<>>)],
   sip |-> [from_uri |-> Opt("STR", FALSE, FALSE, <<"localhost">>)],
   prometheus |-> [host |-> Opt("STR", FALSE, FALSE, <<"local">>), label |-> Opt("FUNC", FALSE, FALSE, <<>>)]]

Names == {"daemon", "listen", "daemon|log_level", "db|host", "prometheus|host", "prometheus|label",
          "daemon|db|host"}
MCWords == Names \union {"23", "x"}
MCPath == [w \in MCWords |-> CASE w = "daemon|log_level" -> <<"daemon", "log_level">>
                               [] w = "db|host" -> <<"db", "host">>
                               [] w = "prometheus|host" -> <<"prometheus", "host">>
                               [] w = "prometheus|label" -> <<"prometheus", "label">>
                               [] w = "daemon|db|host" -> <<"daemon", "db", "host">>
                               [] OTHER -> <<w>>]
\* More than an int holds, which leaves a 7 of it.
MCIntOf == [w \in {"23"} |-> 23]

\* Where all wrong tokens end in the same error, one or two stand for them.
MCTokens ==
  [n \in 0 .. 9 |->
     CASE n = 0 -> Names \union {"}", "#", "bad"}
       [] n = 1 -> {"=", "+=", "#"}
       [] n = 2 -> {"23", "x", "{", "}", "#"}
       [] n = 3 -> {"x", "{", "#"}
       [] n = 4 -> {",", "}", "#"}
       [] n = 5 -> {"{", "="}
       [] n = 7 -> {"(", "="}
       [] OTHER -> {"23", "x", ",", ")"}]
=============================================================================
