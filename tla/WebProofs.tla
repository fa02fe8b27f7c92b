----------------------------- MODULE WebProofs -----------------------------
(***************************************************************************)
(* Theorems about Web and Config, for any configuration files that can be   *)
(* decoded, any browsers and any tree of files.                             *)
(***************************************************************************)
EXTENDS Web, TLAPS

-----------------------------------------------------------------------------
(* Config. *)

LEMMA DefaultsType ==
  ASSUME NEW f \in Decodable
  PROVE  LET c == ApplyDefaults(f) IN
         /\ \A k \in Durations : c.duration[k].ticks \in Int
         /\ c.users = f.users /\ c.uiUsers = f.uiUsers
         /\ c.users \in UserList /\ c.uiUsers \in UserList
<1> DEFINE c == ApplyDefaults(f)
<1>1. c.duration = [k \in Durations |->
        IF f.duration[k].kind = "blank" THEN Ticks(DefaultDuration[k]) ELSE f.duration[k]]
  BY DEF ApplyDefaults, Decodable
<1>2. c.users = f.users /\ c.uiUsers = f.uiUsers
  BY DEF ApplyDefaults, Decodable
<1>3. f.users \in UserList /\ f.uiUsers \in UserList
  BY DEF Decodable
<1>4. f.duration \in [Durations -> [kind : STRING, ticks : Int]]
  BY DEF Decodable
<1> HIDE DEF c
<1>5. ASSUME NEW k \in Durations PROVE c.duration[k].ticks \in Int
  <2>1. f.duration[k] \in [kind : STRING, ticks : Int]
    BY <1>4
  <2>2. DefaultDuration[k] \in Int
    BY DEF Durations, DefaultDuration, Long
  <2>3. c.duration[k] = IF f.duration[k].kind = "blank" THEN Ticks(DefaultDuration[k]) ELSE f.duration[k]
    BY <1>1
  <2>4. QED BY <2>1, <2>2, <2>3 DEF Ticks
<1>6. QED BY <1>2, <1>3, <1>5 DEF c

LEMMA UserMapIsExact ==
  ASSUME NEW users \in UserList, UsersAreValid(users), NEW i \in DOMAIN users
  PROVE  UserMap(users)[users[i].name.key] = users[i].password
<1> DEFINE last(key) == CHOOSE j \in DOMAIN users :
                          /\ users[j].name.key = key
                          /\ \A k \in DOMAIN users : users[k].name.key = key => k <= j
           key == users[i].name.key
<1>1. UserMap(users)[key] = users[last(key)].password
  BY DEF UserMap
<1>2. DOMAIN users \subseteq Int
  BY DEF UserList
<1>3. \A j \in DOMAIN users : users[j].name.key = key => j = i
  BY DEF UsersAreValid
<1>4. last(key) = i
  BY <1>2, <1>3
<1>5. QED BY <1>1, <1>4

\* A file that Load accepts and that main does not exit for, because of the
\* provider or the certificate, makes a configuration the program can rely on.
THEOREM AcceptedIsSafe ==
  ASSUME NEW f \in Decodable, Accepts(f), Starts(ApplyDefaults(f))
  PROVE  IsSafe(ApplyDefaults(f), f)
<1> DEFINE c == ApplyDefaults(f)
<1>1. IsValid(c)
  BY DEF Accepts
<1>2. c.number = [k \in Numbers |-> IF f.number[k] = 0 THEN DefaultNumber[k] ELSE f.number[k]]
  BY DEF ApplyDefaults, Decodable
<1>3. f.number \in [Numbers -> Int] /\ f.number["mqtt.qos"] >= 0
  BY DEF Decodable
<1>4. c.users = f.users /\ c.uiUsers = f.uiUsers /\ c.users \in UserList /\ c.uiUsers \in UserList
  BY DefaultsType
<1> HIDE DEF c
<1>5. NumbersAreValid(c)
  BY <1>1 DEF IsValid
<1>6. \A k \in Durations : DurationOf(c, k) > 0
  BY <1>1 DEF IsValid, DurationsAreValid, DurationOf
<1>7. \A k \in Numbers : f.number[k] \in {0, c.number[k]}
  BY <1>2
<1>8. /\ c.number["classification.worker_concurrency"] > 0
      /\ c.number["spool.max_bytes"] > 0 /\ c.number["classification.retry_max"] > 0
  <2>1. /\ c.number["classification.worker_concurrency"] >= 1 /\ c.number["spool.max_bytes"] >= 0
        /\ c.number["classification.retry_max"] >= 0
    BY <1>5 DEF NumbersAreValid
  <2>2. {"classification.worker_concurrency", "spool.max_bytes", "classification.retry_max"} \subseteq Numbers
    BY DEF Numbers, DefaultNumber
  <2>3. DefaultNumber["spool.max_bytes"] = 10 /\ DefaultNumber["classification.retry_max"] = 3
    BY DEF DefaultNumber
  <2>4. c.number["spool.max_bytes"] # 0 /\ c.number["classification.retry_max"] # 0
    BY <1>2, <2>2, <2>3
  <2>5. /\ c.number["classification.worker_concurrency"] \in Int /\ c.number["spool.max_bytes"] \in Int
        /\ c.number["classification.retry_max"] \in Int
    <3>1. DefaultNumber["classification.worker_concurrency"] = 1
      BY DEF DefaultNumber
    <3>2. QED BY <1>2, <1>3, <2>2, <2>3, <3>1
  <2>6. QED BY <2>1, <2>4, <2>5
<1>9. c.number["mqtt.qos"] \in {1, 2}
  <2>1. c.number["mqtt.qos"] <= 2
    BY <1>5 DEF NumbersAreValid
  <2>2. "mqtt.qos" \in Numbers /\ DefaultNumber["mqtt.qos"] = 1
    BY DEF Numbers, DefaultNumber
  <2>3. c.number["mqtt.qos"] = IF f.number["mqtt.qos"] = 0 THEN 1 ELSE f.number["mqtt.qos"]
    BY <1>2, <2>2
  <2>4. f.number["mqtt.qos"] \in Int
    BY <1>3, <2>2
  <2>5. QED BY <1>3, <2>1, <2>3, <2>4
<1>10. \A list \in {"users", "uiUsers"} : \A i \in DOMAIN f[list] :
        UserMap(c[list])[f[list][i].name.key] = f[list][i].password
  <2>1. UsersAreValid(c.users) /\ UsersAreValid(c.uiUsers)
    BY <1>1 DEF IsValid
  <2>2. QED BY <1>4, <2>1, UserMapIsExact
<1>11. c.flag["mqtt.enabled"] => c.text["mqtt.media_token"] # "" /\ c.text["mqtt.host"] # ""
  BY <1>1 DEF IsValid, Required
<1>12. c.flag["classification.enabled"] =>
        /\ c.text["classification.provider"] \in Gemini
        /\ c.text["classification.model"] # "" /\ c.text["classification.api_key"] # ""
  <2>1. Starts(c)
    BY DEF c
  <2>2. QED BY <1>1, <2>1 DEF IsValid, Required, Starts
<1>13. c.flag["tls.enabled"] => c.tlsFiles = "pair"
  <2>1. Starts(c)
    BY DEF c
  <2>2. QED BY <2>1 DEF Starts
<1>14. IsSafe(c, f)
  BY <1>6, <1>7, <1>8, <1>9, <1>10, <1>11, <1>12, <1>13 DEF IsSafe
<1>15. QED BY <1>14 DEF c

\* What Load accepts and main exits for is another provider or files that are no
\* certificate and key, and nothing else that main makes of the configuration.
THEOREM RefusedByMain ==
  ASSUME NEW f \in Decodable, Accepts(f), ~IsSafe(ApplyDefaults(f), f)
  PROVE  LET c == ApplyDefaults(f) IN
         \/ c.flag["classification.enabled"] /\ c.text["classification.provider"] \notin Gemini
         \/ c.flag["tls.enabled"] /\ c.tlsFiles = "no pair"
<1> DEFINE c == ApplyDefaults(f)
<1>1. ~Starts(c)
  BY AcceptedIsSafe
<1>2. c.tlsFiles \in {"missing", "pair", "no pair"}
  BY DEF ApplyDefaults, Decodable
<1>3. c.flag["tls.enabled"] => c.tlsFiles # "missing"
  BY DEF Accepts, IsValid
<1> HIDE DEF c
<1>4. \/ c.flag["classification.enabled"] /\ c.text["classification.provider"] \notin Gemini
      \/ c.flag["tls.enabled"] /\ c.tlsFiles = "no pair"
  BY <1>1, <1>2, <1>3 DEF Starts
<1>5. QED BY <1>4 DEF c

-----------------------------------------------------------------------------
(* The invariant. *)

Loaded ==
  \/ config = NoConfig
  \/ \E f \in ConfigFile : Accepts(f) /\ Starts(ApplyDefaults(f)) /\ config = ApplyDefaults(f)

TypeInv ==
  /\ now \in Nat
  /\ jar \in [Browser -> Cookies \cup {NoCookie}]
  /\ login \in [Browser -> Logins \cup {NoLogin}]

\* A cookie is its login's, and lasts as long but for what is rounded away.
Matches(cookie, l) ==
  /\ l # NoLogin
  /\ cookie.token.user = l.user /\ cookie.token.secret = l.secret
  /\ cookie.token.expires <= l.at + l.ttl /\ l.at + l.ttl <= cookie.token.expires + 1
  /\ l.at + l.ttl <= cookie.until + 1

SessionInv ==
  \A b \in Browser :
    /\ jar[b] # NoCookie => Matches(jar[b], login[b])
    /\ jar[b] = NoCookie /\ login[b] # NoLogin => login[b].at + login[b].ttl <= now + 1

\* A row is a file's.
TreeInv == rows \subseteq DOMAIN File \cup DOMAIN Temp

Inv == Loaded /\ TypeInv /\ SessionInv /\ TreeInv

LEMMA SecondsBounds ==
  ASSUME NEW t \in Int
  PROVE  Seconds(t) \in Int /\ Seconds(t) <= t /\ t <= Seconds(t) + 1
BY DEF Seconds, Second

LEMMA LoadedFacts ==
  ASSUME Loaded, Running
  PROVE  /\ Secret \in Secrets
         /\ DOMAIN Users \subseteq Names
         /\ DurationOf(config, "web.session_ttl") \in Int
         /\ DurationOf(config, "web.session_ttl") > 0
<1>1. PICK f \in ConfigFile : Accepts(f) /\ config = ApplyDefaults(f)
  BY DEF Loaded, Running
<1>2. f \in Decodable
  BY ConfigFileAssumption
<1>3. config \in Configs
  BY <1>1 DEF Configs
<1>4. Secret \in Secrets /\ DOMAIN Users \subseteq Names
  BY <1>3 DEF Secret, Secrets, Users, Names
<1>5. "web.session_ttl" \in Durations
  BY DEF Durations, DefaultDuration
<1>6. config.duration["web.session_ttl"].ticks \in Int
  BY <1>1, <1>2, <1>5, DefaultsType
<1>7. \A k \in Durations : config.duration[k].ticks > 0
  BY <1>1 DEF Accepts, IsValid, DurationsAreValid
<1>8. QED BY <1>4, <1>5, <1>6, <1>7 DEF DurationOf

LEMMA InitInv == Init => Inv
BY PathAssumption DEF Init, Inv, Loaded, TypeInv, SessionInv, TreeInv

LEMMA LoginInv ==
  ASSUME Inv, NEW b \in Browser, NEW user \in DOMAIN Users, Login(b, user)
  PROVE  TypeInv' /\ SessionInv'
<1> DEFINE ttl == DurationOf(config, "web.session_ttl")
           until == IF ttl < Second THEN Seconds(now + ttl) ELSE now + Seconds(ttl)
           cookie == [token |-> Token(user, now + ttl), until |-> until]
           entry == [user |-> user, at |-> now, ttl |-> ttl, secret |-> Secret]
<1>1. /\ Running /\ now' = now
      /\ jar' = [jar EXCEPT ![b] = cookie] /\ login' = [login EXCEPT ![b] = entry]
  BY DEF Login
<1>2. Secret \in Secrets /\ user \in Names /\ ttl \in Int /\ ttl > 0
  BY <1>1, LoadedFacts DEF Inv
<1>3. now \in Int
  BY DEF Inv, TypeInv
<1>4. /\ now + ttl \in Int
      /\ Seconds(now + ttl) \in Int /\ Seconds(now + ttl) <= now + ttl /\ now + ttl <= Seconds(now + ttl) + 1
      /\ Seconds(ttl) \in Int /\ ttl <= Seconds(ttl) + 1
  BY <1>2, <1>3, SecondsBounds
<1>5. until \in Int /\ now + ttl <= until + 1
  BY <1>2, <1>3, <1>4
<1>6. cookie.token = [user |-> user, expires |-> Seconds(now + ttl), secret |-> Secret] /\ cookie.until = until
  BY DEF Token
<1>7. cookie \in Cookies
  BY <1>2, <1>4, <1>5, <1>6 DEF Cookies, Tokens, Token
<1>8. entry \in Logins
  BY <1>2, <1>3 DEF Logins
<1>9. cookie # NoCookie /\ entry # NoLogin
  BY <1>7, <1>8, NothingAssumption
<1>10. entry.user = user /\ entry.secret = Secret /\ entry.at = now /\ entry.ttl = ttl
  OBVIOUS
<1> HIDE DEF ttl, until, cookie, entry
<1>11. Matches(cookie, entry)
  BY <1>4, <1>5, <1>6, <1>9, <1>10 DEF Matches
<1>12. TypeInv'
  BY <1>1, <1>7, <1>8 DEF Inv, TypeInv
<1>13. SessionInv'
  BY <1>1, <1>9, <1>11 DEF Inv, TypeInv, SessionInv
<1>14. QED BY <1>12, <1>13

LEMMA TickInv ==
  ASSUME Inv, Tick
  PROVE  TypeInv' /\ SessionInv'
<1>1. now \in Nat /\ now' = now + 1 /\ login' = login
  BY DEF Inv, TypeInv, Tick
<1>2. PICK S \in SUBSET {b \in Browser : jar[b] # NoCookie /\ jar[b].until <= now + 1} :
        jar' = [b \in Browser |-> IF b \in S THEN NoCookie ELSE jar[b]]
  BY DEF Tick
<1>3. TypeInv'
  BY <1>1, <1>2 DEF Inv, TypeInv
<1>4. ASSUME NEW b \in Browser, jar'[b] # NoCookie
      PROVE  Matches(jar'[b], login'[b])
  <2>1. jar'[b] = jar[b]
    BY <1>2, <1>4
  <2>2. QED BY <1>1, <1>4, <2>1 DEF Inv, SessionInv
<1>5. ASSUME NEW b \in Browser, jar'[b] = NoCookie, login'[b] # NoLogin
      PROVE  login'[b].at + login'[b].ttl <= now' + 1
  <2>1. login[b] \in Logins
    BY <1>1, <1>5 DEF Inv, TypeInv
  <2>2. login[b].at \in Int /\ login[b].ttl \in Int
    BY <2>1 DEF Logins
  <2>3. CASE jar[b] = NoCookie
    <3>1. login[b].at + login[b].ttl <= now + 1
      BY <1>1, <1>5, <2>3 DEF Inv, SessionInv
    <3>2. QED BY <1>1, <2>2, <3>1
  <2>4. CASE jar[b] # NoCookie
    <3>1. jar[b] \in Cookies
      BY <2>4 DEF Inv, TypeInv
    <3>2. jar[b].until \in Int
      BY <3>1 DEF Cookies
    <3>3. jar[b].until <= now + 1
      BY <1>2, <1>5, <2>4
    <3>4. login[b].at + login[b].ttl <= jar[b].until + 1
      BY <2>4 DEF Inv, SessionInv, Matches
    <3>5. QED BY <1>1, <2>2, <3>2, <3>3, <3>4
  <2>5. QED BY <2>3, <2>4
<1>6. SessionInv'
  BY <1>4, <1>5 DEF SessionInv
<1>7. QED BY <1>3, <1>6

LEMMA NextInv ==
  ASSUME Inv, [Next]_vars
  PROVE  Inv'
<1>1. ASSUME NEW f \in ConfigFile, Start(f) PROVE Inv'
  BY <1>1 DEF Inv, Start, Loaded, TypeInv, SessionInv, TreeInv, tree
<1>2. CASE Stop
  BY <1>2 DEF Inv, Stop, Loaded, TypeInv, SessionInv, TreeInv, tree
<1>3. CASE Tick
  <2>1. Loaded' /\ TreeInv'
    BY <1>3 DEF Inv, Tick, Loaded, TreeInv, tree
  <2>2. QED BY <1>3, <2>1, TickInv DEF Inv
<1>4. ASSUME NEW b \in Browser, Logout(b) PROVE Inv'
  <2>1. Loaded' /\ TreeInv' /\ now' = now
    BY <1>4 DEF Inv, Logout, Loaded, TreeInv, tree
  <2>2. jar' = [jar EXCEPT ![b] = NoCookie] /\ login' = [login EXCEPT ![b] = NoLogin]
    BY <1>4 DEF Logout
  <2>3. TypeInv'
    BY <2>1, <2>2 DEF Inv, TypeInv
  <2>4. SessionInv'
    BY <2>1, <2>2 DEF Inv, TypeInv, SessionInv
  <2>5. QED BY <2>1, <2>3, <2>4 DEF Inv
<1>5. ASSUME NEW b \in Browser, NEW u \in DOMAIN Users, Login(b, u) PROVE Inv'
  <2>1. Loaded' /\ TreeInv'
    BY <1>5 DEF Inv, Login, Loaded, TreeInv, tree
  <2>2. QED BY <1>5, <2>1, LoginInv DEF Inv
<1>6. ASSUME UNCHANGED <<config, now, jar, login>>, TreeInv' PROVE Inv'
  BY <1>6 DEF Inv, Loaded, TypeInv, SessionInv
<1>7. ASSUME \/ \E p \in DOMAIN File : FileAppears(p)
             \/ \E p \in DOMAIN Temp : TempAppears(p) \/ TempRenamed(p)
             \/ \E p \in Path : IndexPath(p) \/ Delete(p)
             \/ StorageChanges
      PROVE  Inv'
  <2>1. UNCHANGED <<config, now, jar, login>>
    BY <1>7 DEF FileAppears, TempAppears, TempRenamed, IndexPath, Delete, StorageChanges
  <2>2. TreeInv'
    BY <1>7 DEF Inv, TreeInv, FileAppears, TempAppears, TempRenamed, IndexPath, Delete, StorageChanges
  <2>3. QED BY <1>6, <2>1, <2>2
<1>8. CASE UNCHANGED vars
  BY <1>8 DEF vars, Inv, Loaded, TypeInv, SessionInv, TreeInv
<1>9. QED BY <1>1, <1>2, <1>3, <1>4, <1>5, <1>7, <1>8 DEF Next

\* Inv, what is loaded, what the tokens say and what the index holds, is
\* inductive (Load, handleLogin, UpsertPath).
THEOREM Invariance == Spec => []Inv
BY InitInv, NextInv, PTL DEF Spec

-----------------------------------------------------------------------------
(* The answers. *)

Inside == {"", "browse-root", "browse", "view", "download"}

LEMMA Answers ==
  ASSUME NEW b, NEW p
  PROVE  /\ Answer(b, At("login", p)) = Page(NoPath)
         /\ \A t : Answer(b, Media(p, t)) = AnswerMedia(Media(p, t))
         /\ ~Granted(b) => \A r \in Inside : Answer(b, At(r, p)) = Redirect(At("login", Root))
         /\ Granted(b) => /\ Answer(b, At("", p)) = AnswerDashboard
                          /\ Answer(b, At("browse-root", p)) = Redirect(At("browse", Root))
                          /\ Answer(b, At("browse", p)) = AnswerBrowse(p)
                          /\ Answer(b, At("view", p)) = AnswerView(p)
                          /\ Answer(b, At("download", p)) = AnswerDownload(p)
<1>1. Answer(b, At("login", p)) = Page(NoPath)
  BY DEF Answer, At
<1>2. \A t : Answer(b, Media(p, t)) = AnswerMedia(Media(p, t))
  BY DEF Answer, Media
<1>3. ASSUME ~Granted(b), NEW r \in Inside PROVE Answer(b, At(r, p)) = Redirect(At("login", Root))
  BY <1>3 DEF Answer, At, Inside
<1>4. ASSUME Granted(b)
      PROVE  /\ Answer(b, At("", p)) = AnswerDashboard
             /\ Answer(b, At("browse-root", p)) = Redirect(At("browse", Root))
  BY <1>4 DEF Answer, At
<1>5. ASSUME Granted(b)
      PROVE  /\ Answer(b, At("browse", p)) = AnswerBrowse(p)
             /\ Answer(b, At("view", p)) = AnswerView(p)
             /\ Answer(b, At("download", p)) = AnswerDownload(p)
  BY <1>5 DEF Answer, At
<1>6. QED BY <1>1, <1>2, <1>3, <1>4, <1>5

\* An answer that is no redirection is the last.
Ends(answer) == answer.status # 303

LEMMA Following ==
  ASSUME NEW b
  PROVE  /\ \A answer : Ends(answer) => Followed(b, answer) = answer
         /\ \A l : Followed(b, Redirect(l)) = Answer(b, l)
BY DEF Followed, Redirect, Ends

LEMMA StatStatusOf == ASSUME NEW q PROVE StatStatus(q) \in {200, 400, 404, 500}
BY DEF StatStatus

LEMMA Endings ==
  /\ \A n \in {200, 400, 403, 404, 500} : Ends(Status(n))
  /\ \A q : Ends(Page(q)) /\ Ends(Contents(q))
  /\ Ends(AnswerDashboard)
BY DEF Ends, Status, Page, Contents, AnswerDashboard

-----------------------------------------------------------------------------
(* The theorems. *)

\* Whatever the files hold, a process runs with a configuration that the rest of
\* the program can rely on (Load, Validate, the accessors).
THEOREM LoadedIsSafeHolds == Spec => []LoadedIsSafe
<1>1. Inv => LoadedIsSafe
  <2> SUFFICES ASSUME Loaded, Running
               PROVE  \E f \in ConfigFile : ApplyDefaults(f) = config /\ IsSafe(config, f)
    BY DEF Inv, LoadedIsSafe
  <2>1. PICK f \in ConfigFile : Accepts(f) /\ Starts(ApplyDefaults(f)) /\ config = ApplyDefaults(f)
    BY DEF Loaded, Running
  <2>2. f \in Decodable
    BY ConfigFileAssumption
  <2>3. IsSafe(ApplyDefaults(f), f)
    BY <2>1, <2>2, AcceptedIsSafe
  <2>4. QED BY <2>1, <2>3
<1>2. QED BY Invariance, <1>1, PTL

\* A session ends with its login's time to live, user and secret
\* (createSessionToken, verifySessionToken).
THEOREM SessionEndsHolds == Spec => []SessionEnds
<1>1. Inv => SessionEnds
  <2> SUFFICES ASSUME Inv, NEW b \in Browser, Granted(b)
               PROVE  /\ login[b] # NoLogin
                      /\ login[b].secret = Secret /\ login[b].user \in DOMAIN Users
                      /\ now <= login[b].at + login[b].ttl
    BY DEF SessionEnds
  <2>1. jar[b] # NoCookie /\ Verifies(jar[b].token)
    BY DEF Granted
  <2>2. Matches(jar[b], login[b])
    BY <2>1 DEF Inv, SessionInv
  <2>3. jar[b] \in Cookies /\ login[b] \in Logins /\ now \in Int
    BY <2>1, <2>2 DEF Inv, TypeInv, Matches
  <2>4. jar[b].token.expires \in Int /\ login[b].at + login[b].ttl \in Int
    BY <2>3 DEF Cookies, Tokens, Logins
  <2>5. now <= jar[b].token.expires /\ jar[b].token.expires <= login[b].at + login[b].ttl
    BY <2>1, <2>2 DEF Verifies, Matches
  <2>6. now <= login[b].at + login[b].ttl
    BY <2>3, <2>4, <2>5
  <2>7. QED BY <2>1, <2>2, <2>6 DEF Matches, Verifies
<1>2. QED BY Invariance, <1>1, PTL

\* Until a second before that the browser has the cookie and the dashboard answers.
THEOREM LoginLastsHolds == Spec => []LoginLasts
<1>1. Inv => LoginLasts
  <2> SUFFICES ASSUME Inv, NEW b \in Browser,
                      Running, login[b] # NoLogin,
                      login[b].secret = Secret, login[b].user \in DOMAIN Users \ WithBar,
                      now + Second <= login[b].at + login[b].ttl
               PROVE  Answer(b, At("", Root)) = AnswerDashboard
    BY DEF LoginLasts
  <2>1. login[b] \in Logins /\ now \in Int
    BY DEF Inv, TypeInv
  <2>2. login[b].at + login[b].ttl \in Int
    BY <2>1 DEF Logins
  <2>3. jar[b] # NoCookie
    <3>1. ~(login[b].at + login[b].ttl <= now + 1)
      BY <2>1, <2>2 DEF Second
    <3>2. QED BY <3>1 DEF Inv, SessionInv
  <2>4. Matches(jar[b], login[b])
    BY <2>3 DEF Inv, SessionInv
  <2>5. jar[b] \in Cookies
    BY <2>3 DEF Inv, TypeInv
  <2>6. jar[b].token.expires \in Int
    BY <2>5 DEF Cookies, Tokens
  <2>7. now <= jar[b].token.expires
    BY <2>1, <2>2, <2>4, <2>6 DEF Matches, Second
  <2>8. Granted(b)
    BY <2>3, <2>4, <2>7 DEF Granted, Verifies, Matches
  <2>9. QED BY <2>8, Answers
<1>2. QED BY Invariance, <1>1, PTL

\* After two redirections there is an answer: handleBrowse and handleView never
\* send a path back and forth, whatever its name is read as.
THEOREM RedirectsEndHolds == Spec => []RedirectsEnd
<1> DEFINE Final(b, answer) == Ends(Followed(b, Followed(b, answer)))
<1>1. ASSUME NEW b, NEW answer, Ends(answer) PROVE Final(b, answer) /\ Ends(Followed(b, answer))
  BY <1>1, Following
<1>2. ASSUME NEW b, NEW l, Ends(Followed(b, Answer(b, l))) PROVE Final(b, Redirect(l)) /\ Final(b, Answer(b, l))
  BY <1>2, Following
<1>3. ASSUME NEW b, NEW p, ~Granted(b), NEW r \in Inside \cup {"login"} PROVE Final(b, Answer(b, At(r, p)))
  <2>1. Answer(b, At("login", p)) = Page(NoPath) /\ Answer(b, At("login", Root)) = Page(NoPath)
    BY Answers
  <2>2. CASE r = "login"
    BY <1>1, <2>1, <2>2, Endings
  <2>3. CASE r \in Inside
    <3>1. Answer(b, At(r, p)) = Redirect(At("login", Root))
      BY <1>3, <2>3, Answers
    <3>2. Ends(Followed(b, Answer(b, At("login", Root))))
      BY <1>1, <2>1, Endings
    <3>3. QED BY <1>2, <3>1, <3>2
  <2>4. QED BY <2>2, <2>3
<1>4. ASSUME NEW q, q \in {Root} \cup Folder PROVE IsDir(q) /\ Resolved(q) = q
  BY <1>4, PathAssumption, ReadAsAssumption DEF IsDir, Resolved
<1>5. ASSUME NEW b, Granted(b), NEW q, IsDir(q) PROVE Ends(Answer(b, At("browse", q)))
  <2>1. Answer(b, At("browse", q)) = AnswerBrowse(q) /\ Resolved(q) = q
    BY <1>4, <1>5, Answers DEF IsDir
  <2>2. QED BY <1>5, <2>1, StatStatusOf, Endings DEF AnswerBrowse
<1>6. ASSUME NEW b, Granted(b), NEW p PROVE Ends(Followed(b, Answer(b, At("view", p))))
  <2>1. Answer(b, At("view", p)) = AnswerView(p)
    BY <1>6, Answers
  <2>2. \/ Ends(AnswerView(p))
        \/ \E q : IsDir(q) /\ AnswerView(p) = Redirect(At("browse", q))
    <3>1. Resolved(p) = Root => IsDir(Root) /\ AnswerView(p) = Redirect(At("browse", Root))
      BY DEF AnswerView, IsDir
    <3>2. QED BY <3>1, StatStatusOf, Endings DEF AnswerView
  <2>3. QED BY <1>1, <1>5, <1>6, <2>1, <2>2, Following
<1>7. ASSUME NEW b, Granted(b), NEW p PROVE Final(b, Answer(b, At("browse", p)))
  <2>1. Answer(b, At("browse", p)) = AnswerBrowse(p)
    BY <1>7, Answers
  <2>2. Ends(AnswerBrowse(p)) \/ AnswerBrowse(p) = Redirect(At("view", Resolved(p)))
    BY StatStatusOf, Endings DEF AnswerBrowse
  <2>3. QED BY <1>1, <1>2, <1>6, <1>7, <2>1, <2>2
<1>8. ASSUME NEW b, Granted(b), NEW p PROVE Final(b, Answer(b, At("view", p)))
  BY <1>2, <1>6, <1>8
<1>9. ASSUME NEW b, Granted(b), NEW p PROVE Final(b, Answer(b, At("download", p)))
  <2>1. Answer(b, At("download", p)) = AnswerDownload(p)
    BY <1>9, Answers
  <2>2. Ends(AnswerDownload(p))
    BY StatStatusOf, Endings DEF AnswerDownload
  <2>3. QED BY <1>1, <2>1, <2>2
<1>10. ASSUME NEW b, Granted(b), NEW r \in {"", "login", "browse-root"} PROVE Final(b, Answer(b, At(r, Root)))
  <2>1. CASE r = ""
    BY <1>1, <1>10, <2>1, Answers, Endings
  <2>2. CASE r = "login"
    BY <1>1, <2>2, Answers, Endings
  <2>3. CASE r = "browse-root"
    <3>1. Ends(Answer(b, At("browse", Root)))
      BY <1>4, <1>5, <1>10
    <3>2. Ends(Followed(b, Answer(b, At("browse", Root))))
      BY <1>1, <3>1
    <3>3. QED BY <1>2, <1>10, <2>3, <3>2, Answers
  <2>4. QED BY <1>10, <2>1, <2>2, <2>3
<1> HIDE DEF Final
<1>11. ASSUME NEW b, NEW l \in Location PROVE Final(b, Answer(b, l))
  <2>1. PICK r, p :
          /\ r \in Inside \cup {"login"} /\ l = At(r, p)
          /\ r \in {"", "login", "browse-root"} => p = Root
    BY DEF Location, Inside
  <2>2. CASE ~Granted(b)
    BY <1>3, <2>1, <2>2
  <2>3. CASE Granted(b)
    <3>1. r \in {"", "login", "browse-root"} \/ r = "browse" \/ r = "view" \/ r = "download"
      BY <2>1 DEF Inside
    <3>2. QED BY <1>7, <1>8, <1>9, <1>10, <2>1, <2>3, <3>1
  <2>4. QED BY <2>2, <2>3
<1>12. RedirectsEnd
  BY <1>11 DEF RedirectsEnd, Final, Ends
<1>13. QED BY <1>12, PTL

\* The links of the dashboard, and the thumbnails of MQTT, lead to what they name
\* as long as it is there and can be read, and never to anything else.
THEOREM LinksLeadHolds == Spec => []LinksLead
<1>1. Inv => LinksLead
  <2> SUFFICES ASSUME Inv, NEW b \in Browser, Granted(b)
               PROVE  /\ \A l \in Links : l.path \notin Escaped => Leads(l, Followed(b, Answer(b, l)))
                      /\ config.flag["mqtt.enabled"] => \A p \in DOMAIN File \ Escaped :
                           LET l == Media(p, config.text["mqtt.media_token"]) IN Leads(l, Answer(b, l))
    BY DEF LinksLead
  <2>1. ASSUME NEW p \in DOMAIN File \cup DOMAIN Temp
        PROVE  ~IsDir(p) /\ p # Root /\ p # BadPath
    BY PathAssumption DEF IsDir
  <2>2. Recent \subseteq DOMAIN File \cup DOMAIN Temp
    BY DEF Inv, TreeInv, Recent
  <2>3. Recipients \subseteq Folder
    BY PathAssumption DEF Inv, TreeInv, Recipients
  \* An answer about q is one that leads to q.
  <2>4. ASSUME NEW l, NEW q, l.path = q, q # BadPath, NEW answer,
               \/ answer \in {Page(q), Contents(q)} /\ StatStatus(q) = 200
               \/ answer = Status(StatStatus(q)) /\ StatStatus(q) # 200
        PROVE  Leads(l, answer) /\ Ends(answer)
    <3>1. storage = "fine" /\ q \in present /\ q # BadPath => StatStatus(q) = 200
      BY DEF StatStatus, Exists
    <3>2. StatStatus(q) = 200 => q # BadPath
      BY DEF StatStatus
    <3>3. StatStatus(q) \in {200, 400, 404, 500}
      BY StatStatusOf
    <3>4. CASE answer \in {Page(q), Contents(q)}
      <4>1. Page(q).status = 200 /\ Page(q).of = q /\ Status(500).status = 500
        BY DEF Page, Status
      <4>2. answer = Page(q) \/ (storage = "unreadable" /\ answer = Status(500))
        BY <3>4 DEF Contents
      <4>3. QED BY <2>4, <4>1, <4>2 DEF Leads, Ends
    <3>5. CASE answer = Status(StatStatus(q)) /\ StatStatus(q) # 200
      <4>1. answer.status = StatStatus(q)
        BY <3>5 DEF Status
      <4>2. ~(storage = "fine" /\ q \in present)
        BY <2>4, <3>1, <3>5
      <4>3. QED BY <2>4, <3>3, <3>5, <4>1, <4>2 DEF Leads, Ends
    <3>6. QED BY <2>4, <3>4, <3>5
  <2>5. ASSUME NEW r \in {"view", "download"}, NEW p \in Recent, p \notin Escaped
        PROVE  Leads(At(r, p), Followed(b, Answer(b, At(r, p))))
    <3>1. Resolved(p) = p /\ ~IsDir(p) /\ p # Root /\ p # BadPath
      BY <2>1, <2>2, <2>5 DEF Resolved
    <3>2. At(r, p).path = p
      BY DEF At
    <3>3. \A answer \in {AnswerView(p), AnswerDownload(p)} :
            \/ answer \in {Page(p), Contents(p)} /\ StatStatus(p) = 200
            \/ answer = Status(StatStatus(p)) /\ StatStatus(p) # 200
      BY <3>1 DEF AnswerView, AnswerDownload
    <3>4. Answer(b, At(r, p)) \in {AnswerView(p), AnswerDownload(p)}
      BY Answers
    <3>5. Leads(At(r, p), Answer(b, At(r, p))) /\ Ends(Answer(b, At(r, p)))
      BY <2>4, <3>1, <3>2, <3>3, <3>4
    <3>6. QED BY <3>5, Following
  <2>6. ASSUME NEW p \in Recipients PROVE Leads(At("browse", p), Followed(b, Answer(b, At("browse", p))))
    <3>1. Resolved(p) = p /\ IsDir(p) /\ p # BadPath
      BY <2>3, PathAssumption, ReadAsAssumption DEF Resolved, IsDir
    <3>2. At("browse", p).path = p
      BY DEF At
    <3>3. \/ AnswerBrowse(p) = Contents(p) /\ StatStatus(p) = 200
          \/ AnswerBrowse(p) = Status(StatStatus(p)) /\ StatStatus(p) # 200
      BY <3>1 DEF AnswerBrowse
    <3>4. Answer(b, At("browse", p)) = AnswerBrowse(p)
      BY Answers
    <3>5. Leads(At("browse", p), AnswerBrowse(p)) /\ Ends(AnswerBrowse(p))
      BY <2>4, <3>1, <3>2, <3>3
    <3>6. QED BY <3>4, <3>5, Following
  <2>7. \A l \in Links : l.path \notin Escaped => Leads(l, Followed(b, Answer(b, l)))
    <3>1. \A r, p : At(r, p).path = p
      BY DEF At
    <3>2. QED BY <2>5, <2>6, <3>1 DEF Links
  <2>8. ASSUME config.flag["mqtt.enabled"], NEW p \in DOMAIN File \ Escaped
        PROVE  Leads(Media(p, config.text["mqtt.media_token"]), Answer(b, Media(p, config.text["mqtt.media_token"])))
    <3> DEFINE t == config.text["mqtt.media_token"]
    <3>1. PICK f \in ConfigFile : Accepts(f) /\ Starts(ApplyDefaults(f)) /\ config = ApplyDefaults(f)
      BY DEF Inv, Loaded, Granted, Running
    <3>2. f \in Decodable
      BY ConfigFileAssumption
    <3>3. IsSafe(config, f)
      BY <3>1, <3>2, AcceptedIsSafe
    <3>4. t # ""
      BY <2>8, <3>3 DEF IsSafe
    <3>5. Resolved(p) = p /\ ~IsDir(p) /\ p # BadPath
      BY <2>1, <2>8 DEF Resolved
    <3>6. Media(p, t).path = p /\ Media(p, t).token = t
      BY DEF Media
    <3>7. \/ AnswerMedia(Media(p, t)) = Contents(p) /\ StatStatus(p) = 200
          \/ AnswerMedia(Media(p, t)) = Status(StatStatus(p)) /\ StatStatus(p) # 200
      <4>1. \A l : l.path = p /\ l.token = t =>
              AnswerMedia(l) = IF StatStatus(p) # 200 THEN Status(StatStatus(p)) ELSE Contents(p)
        BY <3>4, <3>5 DEF AnswerMedia
      <4>2. QED BY <3>6, <4>1
    <3>8. Answer(b, Media(p, t)) = AnswerMedia(Media(p, t))
      BY Answers
    <3> HIDE DEF t
    <3>9. Leads(Media(p, t), AnswerMedia(Media(p, t)))
      BY <2>4, <3>5, <3>6, <3>7
    <3>10. QED BY <3>8, <3>9 DEF t
  <2>9. QED BY <2>7, <2>8
<1>2. QED BY Invariance, <1>1, PTL
=============================================================================
