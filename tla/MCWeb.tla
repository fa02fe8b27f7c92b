------------------------------- MODULE MCWeb -------------------------------
(***************************************************************************)
(* Instance of Web for TLC: one configuration file that is accepted, and     *)
(* files that differ from it in one place, at the boundaries of the checks;  *)
(* a tree of files, two of whose names are read otherwise.  The two are not  *)
(* multiplied: see OneSubject.                                               *)
(***************************************************************************)
EXTENDS Web, TLC

Name(key, spelling) == [key |-> key, spelling |-> spelling]
User(key, spelling, password) == [name |-> Name(key, spelling), password |-> password]

Ann == User("ann", "lower", "p1")
ANN == User("ann", "upper", "p2")
Bar == User("b|r", "lower", "p1")

Base ==
  [text |-> [k \in Texts |-> IF k \in {"storage_root", "index_path", "classification.model",
                                       "classification.api_key"} THEN "given"
                             ELSE IF k = "web.session_secret" THEN "s1" ELSE ""],
   number |-> [k \in Numbers |-> 0],
   duration |-> [k \in Durations |-> IF k = "web.session_ttl" THEN Ticks(3) ELSE Blank],
   flag |-> [k \in Flags |-> "unset"],
   categories |-> {},
   users |-> <<Ann>>,
   uiUsers |-> <<Ann, Bar>>,
   tlsFiles |-> "missing"]

Mqtt == [Base EXCEPT !.flag["mqtt.enabled"] = "true", !.text["mqtt.host"] = "given",
                     !.text["mqtt.public_base_url"] = "given", !.text["mqtt.media_token"] = "t1"]

\* Those that matter to the UI ...
UIFiles ==
  {Base, Mqtt,
   [Base EXCEPT !.text["web.session_secret"] = "s2"],
   [Base EXCEPT !.text["index_path"] = ""],
   [Base EXCEPT !.uiUsers = <<Bar>>],
   [Base EXCEPT !.duration["web.session_ttl"] = Ticks(1)],
   [Base EXCEPT !.duration["web.session_ttl"] = Ticks(4)]}

\* ... and those that are about Load.
LoadFiles ==
  UNION {{[Base EXCEPT !.number[k] = n] :
            n \in CASE k = "mqtt.port" -> {-1, 1, 65535, 65536}
                   [] k = "classification.confidence_threshold" -> {-1, 1, 100, 101}
                   [] OTHER -> {-1, 1}} : k \in Numbers \ {"mqtt.qos"}}
  \cup {[Base EXCEPT !.number["mqtt.qos"] = n] : n \in 0..3}
  \cup {[Base EXCEPT !.duration[k] = d] : k \in Durations, d \in {Blank, Garbled, Ticks(0), Ticks(-1), Padded(5)}}
  \cup {[Base EXCEPT !.text[k] = ""] : k \in Texts}
  \cup {[Mqtt EXCEPT !.text[k] = ""] : k \in {"mqtt.host", "mqtt.public_base_url", "mqtt.media_token"}}
  \cup {[Base EXCEPT !.flag["tls.enabled"] = "true", !.text["tls.cert_file"] = "given",
                     !.text["tls.key_file"] = "given", !.tlsFiles = there] : there \in {"missing", "pair", "no pair"}}
  \cup {[Base EXCEPT !.flag["classification.enabled"] = "false", !.text["classification.api_key"] = ""]}
  \cup {[Base EXCEPT !.text["classification.provider"] = t, !.flag["classification.enabled"] = e] :
           t \in {" Gemini", "another"}, e \in {"true", "false"}}
  \cup {[Base EXCEPT !.flag["spool.enabled"] = "true"]}
  \cup {[Base EXCEPT !.categories = S] : S \in {{""}, {"person"}}}
  \cup {[Base EXCEPT !.users = us] : us \in {<<>>, <<Ann, ANN>>, <<Bar, Ann>>, <<User("", "lower", "p1")>>}}
  \cup {[Base EXCEPT !.uiUsers = us] : us \in {<<>>, <<Ann, ANN>>, <<User("ann", "lower", "")>>}}

\* ... and those to follow links with: with index and without, with media links.
LinkFiles == {Mqtt, [Mqtt EXCEPT !.text["index_path"] = ""]}

MCConfigFile == UIFiles \cup LoadFiles \cup LinkFiles

\* What is stored as clip%20 is read as clip, what is stored as clip%2f.. as a
\* path that is refused.
MCFile == "clip" :> "porch" @@ "clip%20" :> "porch" @@ "clip%2f.." :> "porch" @@ "binary" :> "yard"
MCReadAs == "clip%20" :> "clip" @@ "clip%2f.." :> BadPath
MCTemp == "temp" :> "porch"

\* What is explored: configurations, tokens and cookies above an empty tree, and
\* trees under two configurations, before any time has passed.
OneSubject ==
  \/ present = {Root} /\ rows = {}
  \/ /\ now = 0 /\ \E f \in LinkFiles : config = ApplyDefaults(f)
     /\ \A b \in Browser : login[b] = NoLogin \/ Granted(b)
=============================================================================
