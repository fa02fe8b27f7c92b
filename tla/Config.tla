------------------------------- MODULE Config -------------------------------
(***************************************************************************)
(* internal/config/config.go: what Load makes of a YAML file, as operators. *)
(* A configuration file is a record of functions from keys to what is       *)
(* written there: a text ("" when it is blank), a number (0 when it is left *)
(* out), a duration, a flag (a *bool: it may be unset), and the two lists of *)
(* users.  A user name is a key, which is what lower case and trimming leave *)
(* of it, and a spelling; a blank name has the key "".                      *)
(***************************************************************************)
EXTENDS Integers, Sequences

DefaultText == "default"

\* What newProvider takes for the provider it knows: the default, and any
\* spelling of it.
Gemini == {DefaultText, " Gemini"}

\* A duration as written: blank, not a duration, or a number of ticks, with
\* blanks around it or not.
Blank == [kind |-> "blank", ticks |-> 0]
Garbled == [kind |-> "garbled", ticks |-> 0]
Ticks(n) == [kind |-> "plain", ticks |-> n]
Padded(n) == [kind |-> "padded", ticks |-> n]

\* The keys with a default; the sizes are in GiB and the threshold in percent.
DefaultedTexts ==
  {"listen_addr", "web.listen_addr", "spool.path", "classification.provider", "hostname",
   "mqtt.client_id", "mqtt.topic_prefix", "mqtt.discovery_prefix"}

Texts == DefaultedTexts \cup
  {"storage_root", "index_path", "web.session_secret", "classification.model",
   "classification.api_key", "mqtt.host", "mqtt.public_base_url", "mqtt.media_token",
   "tls.cert_file", "tls.key_file"}

DefaultNumber ==
  [k \in {"spool.max_bytes", "classification.confidence_threshold",
          "classification.worker_concurrency", "classification.frame_count",
          "classification.retry_max", "mqtt.port", "mqtt.qos"} |->
     CASE k = "spool.max_bytes" -> 10
       [] k = "classification.confidence_threshold" -> 60
       [] k = "classification.worker_concurrency" -> 1
       [] k = "classification.frame_count" -> 6
       [] k = "classification.retry_max" -> 3
       [] k = "mqtt.port" -> 1883
       [] k = "mqtt.qos" -> 1]

Numbers == DOMAIN DefaultNumber

\* The default durations, in ticks: a week is "long".
Long == 1000
DefaultDuration ==
  [k \in {"web.session_ttl", "spool.flush_interval", "classification.backfill_window",
          "mqtt.motion_reset_after"} |->
     IF k \in {"web.session_ttl", "classification.backfill_window"} THEN Long ELSE 60]

Durations == DOMAIN DefaultDuration

DefaultFlag ==
  [k \in {"classification.enabled", "classification.store_raw_response", "mqtt.enabled",
          "spool.enabled", "tls.enabled"} |->
     k \in {"classification.enabled", "classification.store_raw_response"}]

Flags == DOMAIN DefaultFlag
DefaultCategories == {"person", "animal", "vehicle"}

\* The configuration files that can be decoded: mqtt.qos is unsigned.  tlsFiles is
\* what is found where the file says the certificate and its key are: nothing, a
\* pair of them, or files that are none.
UserList == Seq([name : [key : STRING, spelling : STRING], password : STRING])
Decodable ==
  [text : [Texts -> STRING], number : {n \in [Numbers -> Int] : n["mqtt.qos"] >= 0},
   duration : [Durations -> [kind : STRING, ticks : Int]],
   flag : [Flags -> {"unset", "true", "false"}], categories : SUBSET STRING,
   users : UserList, uiUsers : UserList, tlsFiles : {"missing", "pair", "no pair"}]

-----------------------------------------------------------------------------
(* applyDefaults. *)

ApplyDefaults(c) ==
  [c EXCEPT
    !.text = [k \in Texts |-> IF c.text[k] = "" /\ k \in DefaultedTexts THEN DefaultText ELSE c.text[k]],
    !.number = [k \in Numbers |-> IF c.number[k] = 0 THEN DefaultNumber[k] ELSE c.number[k]],
    !.duration = [k \in Durations |->
       IF c.duration[k].kind = "blank" THEN Ticks(DefaultDuration[k]) ELSE c.duration[k]],
    !.flag = [k \in Flags |-> IF c.flag[k] = "unset" THEN DefaultFlag[k] ELSE c.flag[k] = "true"],
    !.categories = IF c.categories = {} THEN DefaultCategories ELSE c.categories]

-----------------------------------------------------------------------------
(* Validate, of a configuration with its defaults. *)

\* ParseDuration refuses blanks; all but web.session_ttl are trimmed first.
Parses(c, k) ==
  c.duration[k].kind = "plain" \/ (c.duration[k].kind = "padded" /\ k # "web.session_ttl")

DurationsAreValid(c) == \A k \in Durations : Parses(c, k) /\ c.duration[k].ticks > 0

NumbersAreValid(c) ==
  /\ c.number["spool.max_bytes"] >= 0
  /\ c.number["classification.worker_concurrency"] >= 1
  /\ c.number["classification.frame_count"] >= 1
  /\ c.number["classification.retry_max"] >= 0
  /\ c.number["classification.confidence_threshold"] >= 0
  /\ c.number["classification.confidence_threshold"] <= 100
  /\ c.number["mqtt.port"] >= 1 /\ c.number["mqtt.port"] <= 65535
  /\ c.number["mqtt.qos"] <= 2

\* The texts that must not be blank, given what is switched on.
Required(c) ==
  {"storage_root", "web.session_secret"}
    \cup (IF c.flag["spool.enabled"] THEN {"spool.path"} ELSE {})
    \cup (IF c.flag["classification.enabled"]
            THEN {"classification.provider", "classification.model", "classification.api_key"} ELSE {})
    \cup (IF c.flag["mqtt.enabled"]
            THEN {"mqtt.host", "mqtt.public_base_url", "mqtt.media_token"} ELSE {})
    \cup (IF c.flag["tls.enabled"] THEN {"tls.cert_file", "tls.key_file"} ELSE {})

\* Mutant: user names are compared as they are written.
DistinctAsWritten(users) ==
  /\ users # <<>>
  /\ \A i \in DOMAIN users : users[i].name.key # "" /\ users[i].password # ""
  /\ \A i, j \in DOMAIN users : users[i].name = users[j].name => i = j

\* At least one user, none without name or password, no name twice.
UsersAreValid(users) ==
  /\ users # <<>>
  /\ \A i \in DOMAIN users : users[i].name.key # "" /\ users[i].password # ""
  /\ \A i, j \in DOMAIN users : users[i].name.key = users[j].name.key => i = j

\* Certificate and key need only be there.
IsValid(c) ==
  /\ \A k \in Required(c) : c.text[k] # ""
  /\ DurationsAreValid(c) /\ NumbersAreValid(c)
  /\ "" \notin c.categories
  /\ UsersAreValid(c.users) /\ UsersAreValid(c.uiUsers)
  /\ c.flag["tls.enabled"] => c.tlsFiles # "missing"

Accepts(f) == IsValid(ApplyDefaults(f))

\* What Load lets pass and main exits for: newProvider knows one provider, and
\* NewWithSpooler loads the certificate.
Starts(c) ==
  /\ c.flag["classification.enabled"] => c.text["classification.provider"] \in Gemini
  /\ c.flag["tls.enabled"] => c.tlsFiles = "pair"

-----------------------------------------------------------------------------
(* The accessors. *)

\* UserMap and UIUserMap: a later user of the same key replaces an earlier one.
UserMap(users) ==
  [key \in {users[i].name.key : i \in DOMAIN users} |->
     LET last == CHOOSE i \in DOMAIN users :
                   /\ users[i].name.key = key
                   /\ \A j \in DOMAIN users : users[j].name.key = key => j <= i
     IN  users[last].password]

\* WebSessionTTLDuration and the like; their fallbacks are for a Config that was
\* not loaded.
DurationOf(c, k) == c.duration[k].ticks

IndexEnabled(c) == c.text["index_path"] # ""

-----------------------------------------------------------------------------

\* What the rest of the program, and the other modules' assumptions, take for
\* granted of a configuration c that was loaded from file f: tickers and timers
\* have a positive period (time.NewTicker panics otherwise), somebody works on
\* the queue and there is somebody to ask, quotas and retries are no negative
\* numbers, each user of the file can log in with the password written there, and
\* every setting but a zero, which cannot be told from one left out, is the one
\* written there.
IsSafe(c, f) ==
  /\ \A k \in Durations : DurationOf(c, k) > 0
  /\ c.number["classification.worker_concurrency"] > 0
  /\ c.number["spool.max_bytes"] > 0 /\ c.number["classification.retry_max"] > 0
  /\ c.number["mqtt.qos"] \in {1, 2}
  /\ \A list \in {"users", "uiUsers"} : \A i \in DOMAIN f[list] :
       UserMap(c[list])[f[list][i].name.key] = f[list][i].password
  /\ \A k \in Numbers : f.number[k] \in {0, c.number[k]}
  /\ c.flag["mqtt.enabled"] => c.text["mqtt.media_token"] # "" /\ c.text["mqtt.host"] # ""
  /\ c.flag["classification.enabled"] =>
       /\ c.text["classification.provider"] \in Gemini
       /\ c.text["classification.model"] # "" /\ c.text["classification.api_key"] # ""
  /\ c.flag["tls.enabled"] => c.tlsFiles = "pair"
=============================================================================
