-------------------------------- MODULE Web --------------------------------
(***************************************************************************)
(* The web UI of internal/webui/server.go, in a process whose configuration *)
(* is what Config makes of a file, and may be another file after a restart. *)
(* The UI keeps no sessions: a login is a signed token in a cookie, which   *)
(* outlives the process, and an answer depends on the cookie, the present   *)
(* configuration, the files below storage_root and the rows of the index.   *)
(*                                                                          *)
(* Time passes in ticks, two to a second, because tokens and cookies count  *)
(* whole seconds and web.session_ttl does not.                              *)
(***************************************************************************)
EXTENDS Config, FiniteSets

CONSTANTS
  Browser,
  ConfigFile,    \* the configuration files the operator may install
  WithBar,       \* the user names that hold the separator of a token
  Root,          \* storage_root itself
  Folder,        \* recipients' folders
  File,          \* File[p]: the folder of the stored file p
  Temp,          \* Temp[p]: the folder of p, a sidecar's temporary file
  ReadAs,        \* ReadAs[p]: what resolvePathFromRequest makes of a name with a
                 \* percent escape or a backslash in it
  NoPath,        \* what is no name of anything below storage_root ...
  BadPath,       \* ... or has .. in it
  Binary,        \* files of a known type that no browser shows
  NoConfig, NoCookie, NoLogin,
  MaxTime        \* bound: ticks that pass

ASSUME TimeAssumption == MaxTime \in Nat
ASSUME ConfigFileAssumption == ConfigFile \subseteq Decodable
ASSUME PathAssumption ==
  /\ DOMAIN File \cap DOMAIN Temp = {} /\ (DOMAIN File \cup DOMAIN Temp) \cap ({Root} \cup Folder) = {}
  /\ \A p \in DOMAIN File : File[p] \in Folder
  /\ \A p \in DOMAIN Temp : Temp[p] \in Folder
  /\ {NoPath, BadPath} \cap ({Root} \cup Folder \cup DOMAIN File \cup DOMAIN Temp) = {}
  /\ NoPath # BadPath

\* Unescaping a name keeps it in its folder; folders have no such names
\* (NormalizeRecipientFolder).
Escaped == DOMAIN ReadAs
ASSUME ReadAsAssumption ==
  /\ Escaped \subseteq DOMAIN File \cup DOMAIN Temp
  /\ \A p \in Escaped : ReadAs[p] \in DOMAIN File \cup DOMAIN Temp \cup {NoPath, BadPath}

\* Time is counted in ticks.
Second == 2
Configs == {ApplyDefaults(f) : f \in ConfigFile}
Names == UNION {DOMAIN UserMap(c.uiUsers) : c \in Configs}
Secrets == {c.text["web.session_secret"] : c \in Configs}
Tokens == [user : Names, expires : Int, secret : Secrets]
Cookies == [token : Tokens, until : Int]
Logins == [user : Names, at : Int, ttl : Int, secret : Secrets]

ASSUME NothingAssumption == NoCookie \notin Cookies /\ NoLogin \notin Logins

Path == {Root} \cup Folder \cup DOMAIN File \cup DOMAIN Temp

VARIABLES
  config,     \* the running process's configuration, NoConfig when there is none
  now,
  jar,        \* jar[b]: b's cookie
  login,      \* login[b]: the login b's cookie comes from
  present,    \* what exists below storage_root
  storage,    \* "fine"; "away": an empty mount point; "failing": Stat fails, or it
              \* succeeds and the storage is "unreadable"
  rows        \* the paths the index has a row for

vars == <<config, now, jar, login, present, storage, rows>>
tree == <<present, storage, rows>>

Running == config # NoConfig
Secret == config.text["web.session_secret"]
Users == UserMap(config.uiUsers)

Init ==
  /\ config = NoConfig
  /\ now = 0
  /\ jar = [b \in Browser |-> NoCookie]
  /\ login = [b \in Browser |-> NoLogin]
  /\ present = {Root} /\ storage = "fine" /\ rows = {}

-----------------------------------------------------------------------------
(* Tokens. *)

\* Whole seconds, in ticks.
Seconds(ticks) == (ticks \div Second) * Second

\* createSessionToken: the expiry loses its fraction of a second.
Token(user, expiry) == [user |-> user, expires |-> Seconds(expiry), secret |-> Secret]

\* Mutant: a token that never expires.
VerifiesAlways(token) ==
  token.user \notin WithBar /\ token.secret = Secret /\ token.user \in DOMAIN Users

\* verifySessionToken and the lookup of authenticatedUser: three parts, which a
\* name with a bar makes four; not expired; signed with the present secret.
Verifies(token) ==
  /\ token.user \notin WithBar
  /\ now <= token.expires
  /\ token.secret = Secret
  /\ token.user \in DOMAIN Users

Granted(b) == Running /\ jar[b] # NoCookie /\ Verifies(jar[b].token)

\* Mutant: the cookie of a session shorter than its lifetime.
LoginHalf(b, user) ==
  /\ Running /\ user \in DOMAIN Users
  /\ LET ttl == DurationOf(config, "web.session_ttl") IN
       /\ jar' = [jar EXCEPT ![b] = [token |-> Token(user, now + ttl \div 2), until |-> now + Seconds(ttl)]]
       /\ login' = [login EXCEPT ![b] = [user |-> user, at |-> now, ttl |-> ttl, secret |-> Secret]]
  /\ UNCHANGED <<config, now, tree>>

\* handleLogin with the right password.  Max-Age is whole seconds, too, and when
\* that is 0 it is not sent, and Expires counts.
Login(b, user) ==
  /\ Running /\ user \in DOMAIN Users
  /\ LET ttl == DurationOf(config, "web.session_ttl")
         until == IF ttl < Second THEN Seconds(now + ttl) ELSE now + Seconds(ttl)
     IN  /\ jar' = [jar EXCEPT ![b] = [token |-> Token(user, now + ttl), until |-> until]]
         /\ login' = [login EXCEPT ![b] = [user |-> user, at |-> now, ttl |-> ttl, secret |-> Secret]]
  /\ UNCHANGED <<config, now, tree>>

\* handleLogout clears the cookie.
Logout(b) ==
  /\ Granted(b)
  /\ jar' = [jar EXCEPT ![b] = NoCookie]
  /\ login' = [login EXCEPT ![b] = NoLogin]
  /\ UNCHANGED <<config, now, tree>>

\* A browser drops a cookie that has had its time, another client may not.
Tick ==
  /\ now < MaxTime
  /\ now' = now + 1
  /\ \E S \in SUBSET {b \in Browser : jar[b] # NoCookie /\ jar[b].until <= now + 1} :
       jar' = [b \in Browser |-> IF b \in S THEN NoCookie ELSE jar[b]]
  /\ UNCHANGED <<config, login, tree>>

-----------------------------------------------------------------------------
(* The process, the files and the index. *)

\* main loads a configuration; it exits when the file is not accepted, or when it
\* cannot make of it what it starts.
Start(f) ==
  /\ ~Running /\ Accepts(f) /\ Starts(ApplyDefaults(f))
  /\ config' = ApplyDefaults(f)
  /\ UNCHANGED <<now, jar, login, tree>>

Stop ==
  /\ Running
  /\ config' = NoConfig
  /\ UNCHANGED <<now, jar, login, tree>>

\* A message is stored, with the folder of its recipient.
FileAppears(p) ==
  /\ Running /\ storage = "fine" /\ p \notin present
  /\ present' = present \cup {p, File[p]}
  /\ UNCHANGED <<config, now, jar, login, storage, rows>>

\* WriteSidecar: the temporary file, next to its video, and its end by rename.
TempAppears(p) ==
  /\ Running /\ storage = "fine" /\ p \notin present
  /\ \E q \in DOMAIN File : q \in present /\ File[q] = Temp[p]
  /\ present' = present \cup {p}
  /\ UNCHANGED <<config, now, jar, login, storage, rows>>

TempRenamed(p) ==
  /\ Running /\ storage = "fine" /\ p \in present
  /\ present' = present \ {p}
  /\ UNCHANGED <<config, now, jar, login, storage, rows>>

\* Nothing in the program deletes mail; whoever does may take a whole folder.
Below(p) == {q \in DOMAIN File : File[q] = p} \cup {q \in DOMAIN Temp : Temp[q] = p}

Delete(p) ==
  /\ storage = "fine" /\ p \in present \ {Root}
  /\ present' = present \ ({p} \cup Below(p))
  /\ UNCHANGED <<config, now, jar, login, storage, rows>>

StorageChanges ==
  /\ storage' \in {"fine", "away", "failing", "unreadable"} \ {storage}
  /\ UNCHANGED <<config, now, jar, login, present, rows>>

\* os.Stat finds p.
Exists(p) == p \in present /\ (storage \in {"fine", "unreadable"} \/ (storage = "away" /\ p = Root))

\* Mutant: directories get rows, too.
IndexAnything(p) ==
  /\ Running /\ IndexEnabled(config)
  /\ Exists(p) /\ p # Root
  /\ rows' = rows \cup {p}
  /\ UNCHANGED <<config, now, jar, login, present, storage>>

\* UpsertPath, by postStore or by Backfill, of any file but a sidecar; the name of
\* a temporary file is not a sidecar's.  Rows are never deleted.
IndexPath(p) ==
  /\ Running /\ IndexEnabled(config)
  /\ Exists(p) /\ p \in DOMAIN File \cup DOMAIN Temp
  /\ rows' = rows \cup {p}
  /\ UNCHANGED <<config, now, jar, login, present, storage>>

Next ==
  \/ \E f \in ConfigFile : Start(f)
  \/ Stop \/ Tick \/ StorageChanges
  \/ \E b \in Browser : Logout(b) \/ (Running /\ \E u \in DOMAIN Users : Login(b, u))
  \/ \E p \in DOMAIN File : FileAppears(p)
  \/ \E p \in DOMAIN Temp : TempAppears(p) \/ TempRenamed(p)
  \/ \E p \in Path : IndexPath(p) \/ Delete(p)

Spec == Init /\ [][Next]_vars

-----------------------------------------------------------------------------
(* Answers to GET: a status, where a redirection leads, what is served. *)

At(route, path) == [route |-> route, path |-> path, token |-> ""]
Media(path, token) == [route |-> "media", path |-> path, token |-> token]

Status(code) == [status |-> code, to |-> At("", Root), of |-> NoPath]
Redirect(location) == [status |-> 303, to |-> location, of |-> NoPath]
Page(path) == [status |-> 200, to |-> At("", Root), of |-> path]

IsDir(p) == p \in {Root} \cup Folder

\* resolvePathFromRequest unescapes a path that the request has unescaped, and
\* takes a backslash for a slash.
Resolved(p) == IF p \in Escaped THEN ReadAs[p] ELSE p

\* The status that a path is answered before anything is made of it, 200 if none.
StatStatus(q) ==
  IF q = BadPath THEN 400
  ELSE IF storage = "failing" THEN 500
  ELSE IF Exists(q) THEN 200 ELSE 404

\* What needs the contents.
Contents(q) == IF storage = "unreadable" THEN Status(500) ELSE Page(q)

\* handleDashboard: with an index it needs no storage.
AnswerDashboard ==
  IF IndexEnabled(config) \/ storage \in {"fine", "away"} THEN Page(Root) ELSE Status(500)

\* handleMedia: with the token of the configuration instead of a login.
AnswerMedia(location) ==
  LET q == Resolved(location.path)
  IN  IF config.text["mqtt.media_token"] = "" THEN Status(404)
      ELSE IF location.token # config.text["mqtt.media_token"] THEN Status(403)
      ELSE IF StatStatus(q) # 200 THEN Status(StatStatus(q))
      ELSE IF IsDir(q) THEN Status(400) ELSE Contents(q)

AnswerBrowse(p) ==
  LET q == Resolved(p)
  IN  IF StatStatus(q) # 200 THEN Status(StatStatus(q))
      ELSE IF IsDir(q) THEN Contents(q) ELSE Redirect(At("view", q))

\* Mutant: a directory is sent back to itself.
AnswerViewAgain(p) ==
  LET q == Resolved(p)
  IN  IF q = Root THEN Redirect(At("browse", Root))
      ELSE IF StatStatus(q) # 200 THEN Status(StatStatus(q))
      ELSE IF IsDir(q) THEN Redirect(At("view", q)) ELSE Contents(q)

AnswerView(p) ==
  LET q == Resolved(p)
  IN  IF q = Root THEN Redirect(At("browse", Root))
      ELSE IF StatStatus(q) # 200 THEN Status(StatStatus(q))
      ELSE IF IsDir(q) THEN Redirect(At("browse", q))
      ELSE IF q \in Binary THEN Page(q) ELSE Contents(q)

AnswerDownload(p) ==
  LET q == Resolved(p)
  IN  IF StatStatus(q) # 200 THEN Status(StatStatus(q))
      ELSE IF IsDir(q) THEN Status(400) ELSE Contents(q)

\* The routes of NewHandlerWithIndex; requireAuth sends strangers to the login.
Answer(b, location) ==
  CASE location.route = "login" -> Page(NoPath)
    [] location.route = "media" -> AnswerMedia(location)
    [] location.route \notin {"login", "media"} /\ ~Granted(b) -> Redirect(At("login", Root))
    [] location.route = "" /\ Granted(b) -> AnswerDashboard
    [] location.route = "browse-root" /\ Granted(b) -> Redirect(At("browse", Root))
    [] location.route = "browse" /\ Granted(b) -> AnswerBrowse(location.path)
    [] location.route = "view" /\ Granted(b) -> AnswerView(location.path)
    [] location.route = "download" /\ Granted(b) -> AnswerDownload(location.path)

\* Where a client that follows redirections is after one of them.
Followed(b, answer) == IF answer.status = 303 THEN Answer(b, answer.to) ELSE answer

Location ==
  {At("", Root), At("login", Root), At("browse-root", Root)}
    \cup UNION {{At(r, p) : p \in Path} : r \in {"browse", "view", "download"}}

\* listRecentFiles: the rows, or what a walk finds.
Recent ==
  IF IndexEnabled(config) THEN rows ELSE {p \in DOMAIN File \cup DOMAIN Temp : Exists(p)}

\* listRecipients.
Recipients ==
  IF IndexEnabled(config)
    THEN {File[p] : p \in rows \cap DOMAIN File} \cup {Temp[p] : p \in rows \cap DOMAIN Temp}
    ELSE {p \in Folder : Exists(p)}

\* The links of the dashboard; those of handleBrowse's pages name what is there.
Links ==
  {At(r, p) : r \in {"view", "download"}, p \in Recent} \cup {At("browse", p) : p \in Recipients}

-----------------------------------------------------------------------------
(* Properties. *)

\* A process that runs has a configuration the rest of the program can rely on:
\* what applyDefaults fills in and Validate lets pass, read back through the
\* accessors.
LoadedIsSafe ==
  Running => \E f \in ConfigFile : ApplyDefaults(f) = config /\ IsSafe(config, f)

\* Who has logged in stays logged in for web.session_ttl, less the second that
\* tokens and cookies round away, across restarts, as long as secret and users
\* stay: the dashboard is not answered with the login page again.  (Not so for a
\* name with a bar, which Validate accepts and verifySessionToken never does.)
LoginLasts ==
  \A b \in Browser :
    /\ Running /\ login[b] # NoLogin
    /\ login[b].secret = Secret /\ login[b].user \in DOMAIN Users \ WithBar
    /\ now + Second <= login[b].at + login[b].ttl
    => Answer(b, At("", Root)) = AnswerDashboard

\* Nobody is logged in without a login of a present user, under the present
\* secret, at most web.session_ttl ago, whatever the client does with its cookie.
SessionEnds ==
  \A b \in Browser : Granted(b) =>
    /\ login[b] # NoLogin
    /\ login[b].secret = Secret /\ login[b].user \in DOMAIN Users
    /\ now <= login[b].at + login[b].ttl

\* Redirections end: browse and view send each other what they do not serve,
\* strangers go to the login, and two redirections are the most there are.
RedirectsEnd ==
  Running => \A b \in Browser, l \in Location :
    Followed(b, Followed(b, Answer(b, l))).status # 303

\* A link of the dashboard, now or later, and a link to a thumbnail published over
\* MQTT, lead to what they name as long as it is there and the storage can be
\* read; they never lead to anything else, whatever becomes of the two.  One that
\* is left out: an attachment whose sender's extension, which its name keeps,
\* resolvePathFromRequest reads otherwise (server.go:648, storage.go:288).
Leads(l, answer) ==
  /\ answer.status = 200 => answer.of = l.path
  /\ storage = "fine" /\ l.path \in present => answer.status = 200

LinksLead ==
  \A b \in Browser : Granted(b) =>
    /\ \A l \in Links : l.path \notin Escaped => Leads(l, Followed(b, Answer(b, l)))
    /\ config.flag["mqtt.enabled"] => \A p \in DOMAIN File \ Escaped :
         LET l == Media(p, config.text["mqtt.media_token"]) IN Leads(l, Answer(b, l))
=============================================================================
