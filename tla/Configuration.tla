--------------------------- MODULE Configuration ---------------------------
(***************************************************************************)
(* How a process of the platform gets its configuration (packages/config): *)
(* the environment it was created with, the mounted secret files it reads  *)
(* one after the other when it starts, the schema with its three policies, *)
(* and the Config it then keeps for good.  The operator edits environment  *)
(* and files at any time; a container that crashes starts again with the   *)
(* environment it was created with, and reads the files anew.              *)
(***************************************************************************)
EXTENDS Naturals, Sequences, SequencesExt

CONSTANTS
  Names,          \* FILE_BACKED_SECRET_NAMES, in the order they are resolved
  Setting,        \* the other variables
  Raw,            \* Raw[s]: what variable s may be written as; None: it is unset
  Initial,        \* a correct production environment to start from
  Texts,          \* the secret texts the operator may write
  MaxEdits,       \* bound: edits of the environment or the files
  None

Secret == Range(Names)

\* A text stands for every text of its length that the policies treat alike:
\* "known" is a default this repository ships, "marker" holds a placeholder
\* marker, "repeated" is one character over and over.
Size == [text \in Texts |->
           CASE text = "empty" -> 0
             [] text = "tiny"  -> 8
             [] text \in {"short", "known"} -> 24
             [] OTHER -> 64]

\* A secret as a source holds it: a text and the line endings after it.
Content == [text : Texts, endings : 0..2]
Value == [text : Texts, endings : 0..1]
Length(value) == Size[value.text] + value.endings
Just(text) == [text |-> text, endings |-> 0]

VARIABLES
  env,            \* [direct, path, setting]: the variables as the operator left them
  files,          \* files[n]: the file mounted for secret n, or None
  edits,          \* how many edits were made
  container,      \* the environment the process was created with, or None
  record,         \* record[n]: what was resolved so far for n, or None
  next,           \* the secret resolved next, as an index of Names
  issues,         \* whether a source was refused
  config,         \* the Config of the process that runs, or None
  offered         \* the <<secret, value>> a lone source held since the process started

vars == <<env, files, edits, container, record, next, issues, config, offered>>
process == <<container, record, next, issues, config>>

IsEnvironment(e) ==
  /\ e = [direct |-> e.direct, path |-> e.path, setting |-> e.setting]
  /\ e.direct \in [Secret -> Value \cup {None}] /\ e.path \in [Secret -> BOOLEAN]
  /\ DOMAIN e.setting = Setting /\ \A s \in Setting : e.setting[s] \in Raw[s]

-----------------------------------------------------------------------------
(* One source per secret                                                   *)

\* isConfigured: present and not blank.
Configured(direct) == direct # None /\ Length(direct) > 0

\* stripOneTrailingLineEnding
Stripped(content) == [text |-> content.text,
                      endings |-> IF content.endings > 0 THEN content.endings - 1 ELSE 0]

Refused == [ok |-> FALSE, value |-> None]

(* A bug: a direct value stands where a file is named too.                 *)
Resolve_PrefersDirect(direct, path, file) ==
  IF ~path \/ Configured(direct) THEN [ok |-> TRUE, value |-> direct]
  ELSE IF file = None \/ Length(Stripped(file)) = 0 THEN Refused
  ELSE [ok |-> TRUE, value |-> Stripped(file)]

(* A bug: the file is used as it is.                                       *)
Resolve_KeepsEnding(direct, path, file) ==
  IF ~path THEN [ok |-> TRUE, value |-> direct]
  ELSE IF Configured(direct) \/ file = None THEN Refused
  ELSE [ok |-> Length(file) > 0, value |-> [file EXCEPT !.endings = IF @ > 1 THEN 1 ELSE @]]

(* resolveSecretSources, for one name.  Without a file variable the direct *)
(* value stays as it is, a blank one too; two sources are refused, and so  *)
(* is a file that cannot be read or is empty.                              *)
Resolve(direct, path, file) ==
  IF ~path THEN [ok |-> TRUE, value |-> direct]
  ELSE IF Configured(direct) \/ file = None THEN Refused
  ELSE [ok |-> Length(Stripped(file)) > 0, value |-> Stripped(file)]

-----------------------------------------------------------------------------
(* The schema: every field on its own                                      *)

\* z.string().min(16), optional for the previous secret; the SMTP credentials
\* are optional and not empty.
SecretParses(n, value) ==
  CASE n = "JWT_SECRET" -> value # None /\ Length(value) >= 16
    [] n = "JWT_PREVIOUS_SECRET" -> value # None => Length(value) >= 16
    [] OTHER -> value # None => Length(value) >= 1

\* parseTrustProxy: no proxy, a small number of hops, or a list of addresses;
\* never every peer, nor a list with an empty entry.
TrustParses(raw) == raw \notin {"true", "0", "10.0.0.1,"}

\* The fields that are whole numbers, by the section of the schema they are in.
\* An instance gives a variable to some of them; the others take their default.
Lifetimes == {"EMAIL_VERIFICATION_TTL_SECONDS", "PASSWORD_RESET_TTL_SECONDS",
  "REGISTRATION_COMPLETION_TTL_SECONDS", "INVITATION_TTL_SECONDS",
  "AUTH_ACCESS_TOKEN_TTL_SECONDS", "AUTH_SESSION_TTL_SECONDS", "AUTH_REFRESH_TOKEN_TTL_SECONDS"}
SharedLimits == {"RATE_LIMIT_WINDOW_SECONDS", "RATE_LIMIT_MAX",
  "RATE_LIMIT_INVITATION_INSPECT_PER_IP_MAX", "RATE_LIMIT_INVITATION_INSPECT_PER_TOKEN_MAX",
  "RATE_LIMIT_INVITATION_ACCEPT_PER_USER_MAX", "RATE_LIMIT_INVITATION_CREATE_PER_USER_MAX",
  "RATE_LIMIT_INVITATION_CREATE_PER_ORG_MAX"}
MutationLimits == {"RATE_LIMIT_MUTATION_WINDOW_SECONDS", "RATE_LIMIT_ORG_CREATE_PER_USER_MAX",
  "RATE_LIMIT_PROJECT_CREATE_PER_USER_MAX", "RATE_LIMIT_API_KEY_CREATE_PER_USER_MAX",
  "RATE_LIMIT_PLAN_CHANGE_PER_ORG_MAX", "RATE_LIMIT_MEMBER_MUTATION_PER_USER_MAX",
  "RATE_LIMIT_PROJECT_MUTATION_PER_USER_MAX", "RATE_LIMIT_AUDIT_READ_WINDOW_SECONDS",
  "RATE_LIMIT_AUDIT_READ_PER_USER_MAX", "RATE_LIMIT_AUDIT_READ_PER_ORG_MAX"}
AuthLimits == {"RATE_LIMIT_AUTH_WINDOW_SECONDS"} \cup
  {"RATE_LIMIT_" \o subject \o "_MAX" : subject \in {"LOGIN_PER_IP", "LOGIN_PER_EMAIL",
     "REGISTER_PER_IP", "REGISTER_PER_EMAIL", "REGISTRATION_COMPLETE_PER_IP",
     "REGISTRATION_COMPLETE_PER_TOKEN", "REGISTRATION_NOTICE_PER_EMAIL", "REFRESH_PER_SESSION",
     "REFRESH_PER_IP", "EMAIL_VERIFICATION_REQUEST_PER_USER", "EMAIL_VERIFICATION_REQUEST_PER_IP",
     "EMAIL_VERIFICATION_COMPLETE_PER_IP", "CHANGE_PASSWORD_PER_USER", "CHANGE_EMAIL_PER_USER",
     "PASSWORD_RECOVERY_REQUEST_PER_IP", "PASSWORD_RECOVERY_REQUEST_PER_EMAIL",
     "PASSWORD_RECOVERY_COMPLETE_PER_IP", "PASSWORD_RECOVERY_COMPLETE_PER_TOKEN"}}
ExternalLimits == {"RATE_LIMIT_EXTERNAL_WINDOW_SECONDS", "RATE_LIMIT_EXTERNAL_PER_KEY_MAX",
  "RATE_LIMIT_EXTERNAL_PER_ORG_MAX", "RATE_LIMIT_EXTERNAL_AUTH_FAIL_EVENTS_PER_IP_MAX",
  "API_KEY_LAST_USED_THROTTLE_SECONDS"}
Retentions == {"RETENTION_SECURITY_EVENT_DAYS", "RETENTION_EXPIRED_AUTH_TOKEN_DAYS",
  "RETENTION_ENDED_SESSION_DAYS", "RETENTION_CLEANUP_BATCH_SIZE"}
Numbers == Setting \cap (Lifetimes \cup SharedLimits \cup MutationLimits \cup AuthLimits
                        \cup ExternalLimits \cup Retentions)

\* .positive(), and the floors and the ceiling that are written out.  A blank value
\* is coerced to 0.
Floor(s) == CASE s = "RETENTION_SECURITY_EVENT_DAYS" -> 30
              [] s = "RETENTION_ENDED_SESSION_DAYS" -> 7
              [] s = "API_KEY_LAST_USED_THROTTLE_SECONDS" -> 0
              [] OTHER -> 1
MaxBatchSize == 50000
NumbersParse(setting) ==
  \A s \in Numbers :
    setting[s] # None => /\ setting[s] >= Floor(s)
                         /\ s = "RETENTION_CLEANUP_BATCH_SIZE" => setting[s] <= MaxBatchSize

\* The fields that list what they accept.
Defaulted(setting, s, default) == IF setting[s] = None THEN default ELSE setting[s]
ChoicesParse(setting) ==
  /\ Defaulted(setting, "NODE_ENV", "development") \in {"development", "test", "production"}
  /\ Defaulted(setting, "MAIL_DRIVER", "mailpit") \in {"mailpit", "smtp", "memory"}
  /\ Defaulted(setting, "COOKIE_SECURE", "false") \in {"true", "false"}
  /\ Defaulted(setting, "RATE_LIMIT_FAILURE_MODE", "closed") \in {"open", "closed"}

-----------------------------------------------------------------------------
(* The policies over the whole record                                      *)

KnownDevelopment == {"known"}
Placeholder == {"known", "marker"}
Degenerate == {"repeated"}

\* isObviouslyDegenerateSecret wants one character: with a line ending there are two.
ProviderFit(value) ==
  /\ value.text \notin KnownDevelopment \cup Placeholder
  /\ ~(value.text \in Degenerate /\ value.endings = 0)

GeneratedFit(value) == ProviderFit(value) /\ Length(value) >= 32

SenderFit(sender) == sender \notin {"no-reply@orgistry.local", "someone@company.test"}
WebFit(web) == web \notin {"http://localhost:5173", "http://company", "https://localhost"}

\* enforceJwtRotationConfig, in every mode.
RotationFit(secrets) ==
  secrets["JWT_PREVIOUS_SECRET"] # None
    => secrets["JWT_PREVIOUS_SECRET"] # secrets["JWT_SECRET"]

\* enforceMailerConfigCompleteness, in every mode; SMTP_HOST and
\* SMTP_USERNAME follow the rule of the password.
MailerFit(secrets, setting) ==
  Defaulted(setting, "MAIL_DRIVER", "mailpit") = "smtp" => secrets["SMTP_PASSWORD"] # None

(* A bug: the previous secret is not held to the standard of the current.  *)
ProductionFit_CurrentOnly(secrets, setting) ==
  Defaulted(setting, "NODE_ENV", "development") = "production" =>
    /\ setting["RATE_LIMIT_FAILURE_MODE"] # "open"
    /\ GeneratedFit(secrets["JWT_SECRET"])
    /\ Defaulted(setting, "COOKIE_SECURE", "false") = "true"
    /\ Defaulted(setting, "MAIL_DRIVER", "mailpit") = "smtp"
    /\ secrets["SMTP_PASSWORD"] # None => ProviderFit(secrets["SMTP_PASSWORD"])
    /\ SenderFit(Defaulted(setting, "MAIL_FROM_EMAIL", "no-reply@orgistry.local"))
    /\ WebFit(Defaulted(setting, "WEB_DEMO_URL", "http://localhost:5173"))

\* enforceProductionConfigSafety
ProductionFit(secrets, setting) ==
  Defaulted(setting, "NODE_ENV", "development") = "production" =>
    /\ setting["RATE_LIMIT_FAILURE_MODE"] # "open"
    /\ GeneratedFit(secrets["JWT_SECRET"])
    /\ secrets["JWT_PREVIOUS_SECRET"] # None => GeneratedFit(secrets["JWT_PREVIOUS_SECRET"])
    /\ Defaulted(setting, "COOKIE_SECURE", "false") = "true"
    /\ Defaulted(setting, "MAIL_DRIVER", "mailpit") = "smtp"
    /\ secrets["SMTP_PASSWORD"] # None => ProviderFit(secrets["SMTP_PASSWORD"])
    /\ SenderFit(Defaulted(setting, "MAIL_FROM_EMAIL", "no-reply@orgistry.local"))
    /\ WebFit(Defaulted(setting, "WEB_DEMO_URL", "http://localhost:5173"))

\* rawEnvSchema
Parses(secrets, setting) ==
  /\ \A n \in Secret : SecretParses(n, secrets[n])
  /\ ChoicesParse(setting)
  /\ TrustParses(Defaulted(setting, "TRUST_PROXY", "false"))
  /\ NumbersParse(setting)

\* envSchema.  A policy runs on a record that parsed.
Valid(secrets, setting) ==
  /\ Parses(secrets, setting)
  /\ RotationFit(secrets) /\ MailerFit(secrets, setting) /\ ProductionFit(secrets, setting)

(* toConfig.  The defaults of the numbers are in range; 180 stands for each.*)
ConfigOf(secrets, setting) ==
  LET mode   == Defaulted(setting, "NODE_ENV", "development")
      driver == Defaulted(setting, "MAIL_DRIVER", "mailpit")
  IN [mode     |-> mode,
      secret   |-> secrets["JWT_SECRET"],
      previous |-> secrets["JWT_PREVIOUS_SECRET"],
      driver   |-> driver,
      smtp     |-> IF driver = "smtp" THEN [password |-> secrets["SMTP_PASSWORD"]] ELSE None,
      sender   |-> Defaulted(setting, "MAIL_FROM_EMAIL", "no-reply@orgistry.local"),
      web      |-> Defaulted(setting, "WEB_DEMO_URL", "http://localhost:5173"),
      secure   |-> Defaulted(setting, "COOKIE_SECURE", "false") = "true",
      failureMode |-> Defaulted(setting, "RATE_LIMIT_FAILURE_MODE",
                                IF mode = "production" THEN "closed" ELSE "open"),
      hops     |-> Defaulted(setting, "TRUST_PROXY", "false"),
      numbers  |-> [s \in Numbers |-> Defaulted(setting, s, 180)]]

\* createAccountMailer: a second refusal of the local drivers.
MailerStarts(c) == /\ c.mode = "production" => c.driver = "smtp"
                   /\ c.driver = "smtp" => c.smtp # None

-----------------------------------------------------------------------------
(* The process                                                             *)

\* The part of Config that the properties are about.
Config == [mode : {"development", "test", "production"}, secret : Value, previous : Value \cup {None},
           smtp : [password : Value] \cup {None}, driver : {"mailpit", "smtp", "memory"},
           sender : STRING, web : STRING, secure : BOOLEAN, failureMode : {"open", "closed"},
           hops : STRING, numbers : [Numbers -> Int]]

TypeOK ==
  /\ IsEnvironment(env) /\ edits \in 0..MaxEdits
  /\ files \in [Secret -> Content \cup {None}]
  /\ (container = None \/ IsEnvironment(container)) /\ config \in Config \cup {None}
  /\ record \in [Secret -> Value \cup {None}] /\ next \in 0..Len(Names) + 1
  /\ issues \in BOOLEAN /\ offered \subseteq Secret \X Value

Alone(e, f) == {<<n, e.direct[n]>> : n \in {m \in Secret : Configured(e.direct[m]) /\ ~e.path[m]}}
               \cup {<<n, Stripped(f[n])>> : n \in {m \in Secret :
                        e.path[m] /\ ~Configured(e.direct[m]) /\ f[m] # None}}

Init ==
  /\ env = Initial.env /\ files = Initial.files /\ edits = 0
  /\ container = None /\ record = [n \in Secret |-> None] /\ next = 0 /\ issues = FALSE
  /\ config = None /\ offered = {}

Begin(e) ==
  /\ container' = e /\ next' = 1 /\ issues' = FALSE
  /\ record' = [n \in Secret |-> None] /\ config' = None
  /\ offered' = Alone(e, files)
  /\ UNCHANGED <<env, files, edits>>

\* A new container takes the environment as it is now.
Deploy == Begin(env)

\* restart: unless-stopped: the container that stopped starts again.
Restart == container # None /\ config = None /\ next = 0 /\ Begin(container)

Ended == /\ next' = 0 /\ config' = None /\ issues' = FALSE /\ offered' = {}
         /\ record' = [n \in Secret |-> None]

\* A process that is starting or running stops; its container stays.
Crash ==
  /\ container # None /\ next # 0
  /\ Ended
  /\ UNCHANGED <<env, files, edits, container>>

(* One turn of the loop of resolveSecretSources: the file is read now.     *)
ReadSecret ==
  /\ next \in 1..Len(Names)
  /\ LET n == Names[next]
         resolved == Resolve(container.direct[n], container.path[n], files[n])
     IN /\ record' = [record EXCEPT ![n] = resolved.value]
        /\ issues' = (issues \/ ~resolved.ok)
  /\ next' = next + 1
  /\ UNCHANGED <<env, files, edits, container, config, offered>>

Boots == ~issues /\ Valid(record, container.setting) /\ MailerStarts(ConfigOf(record, container.setting))

(* A bug: the policies see the environment as it came, and not what was    *)
(* resolved.                                                               *)
Load_ValidatesFirst ==
  /\ next = Len(Names) + 1 /\ config = None
  /\ LET seen == [n \in Secret |-> IF container.path[n] THEN Just("strong") ELSE container.direct[n]]
     IN IF ~issues /\ Valid(seen, container.setting)
        THEN config' = ConfigOf(record, container.setting) /\ UNCHANGED <<next, record, issues, offered>>
        ELSE Ended
  /\ UNCHANGED <<env, files, edits, container>>

(* loadConfig after the sources, and what main does with it: the process   *)
(* runs with its Config, or it ends.                                       *)
Load ==
  /\ next = Len(Names) + 1 /\ config = None
  /\ IF Boots
     THEN config' = ConfigOf(record, container.setting) /\ UNCHANGED <<next, record, issues, offered>>
     ELSE Ended
  /\ UNCHANGED <<env, files, edits, container>>

-----------------------------------------------------------------------------
(* The operator                                                            *)

Edit == /\ edits < MaxEdits /\ edits' = edits + 1
        /\ offered' = IF next = 0 THEN offered ELSE offered \cup Alone(container, files')
        /\ UNCHANGED process

WriteDirect(n, value) == env' = [env EXCEPT !.direct[n] = value] /\ UNCHANGED files /\ Edit
NameFile(n, named) == env' = [env EXCEPT !.path[n] = named] /\ UNCHANGED files /\ Edit
WriteSetting(s, raw) == env' = [env EXCEPT !.setting[s] = raw] /\ UNCHANGED files /\ Edit
WriteFile(n, content) == files' = [files EXCEPT ![n] = content] /\ UNCHANGED env /\ Edit

Operator ==
  \/ \E n \in Secret, text \in Texts : WriteDirect(n, Just(text)) \/ WriteDirect(n, None)
  \/ \E n \in Secret, named \in BOOLEAN : NameFile(n, named)
  \/ \E s \in Setting : \E raw \in Raw[s] : WriteSetting(s, raw)
  \/ \E n \in Secret : \/ WriteFile(n, None)
                       \/ \E text \in Texts, endings \in 0..2 :
                            WriteFile(n, [text |-> text, endings |-> endings])

Next == Deploy \/ Restart \/ Crash \/ ReadSecret \/ Load \/ Operator

Spec == Init /\ [][Next]_vars

-----------------------------------------------------------------------------
(* Properties                                                              *)

\* What runs in production never lets go of a guard, whichever source a secret
\* came from and whenever it changed: both signing secrets are generated ones and
\* differ, mail leaves through the provider with a real credential and sender, the
\* links go to the public site, the limiters fail closed, forwarded headers are
\* not trusted from everyone, no limit is 0, no event is swept before 30 days and
\* no sweep holds its locks over more than 50000 rows.
RunsSafely ==
  config # None /\ config.mode = "production" =>
    /\ config.numbers["RATE_LIMIT_MAX"] > 0
    /\ config.numbers["RETENTION_SECURITY_EVENT_DAYS"] >= 30
    /\ config.numbers["RETENTION_CLEANUP_BATCH_SIZE"] > 0
    /\ config.numbers["RETENTION_CLEANUP_BATCH_SIZE"] <= 50000
    /\ \A v \in {config.secret, config.previous} \ {None} :
         Length(v) >= 32 /\ v.text \notin {"known", "marker"} /\ v # Just("repeated")
    /\ config.previous # config.secret
    /\ config.smtp # None /\ config.smtp.password # None
    /\ config.smtp.password.text \notin {"known", "marker"}
    /\ config.sender = "no-reply@company" /\ config.web = "https://company"
    /\ config.secure /\ config.failureMode = "closed"
    /\ config.hops # "true"

\* A secret in use is one that a single source held, without its last line
\* ending, at some moment since the process started: two sources are never
\* decided between, and no value is made up from two of them.
HeldWasOffered ==
  config # None =>
    \A held \in {<<"JWT_SECRET", config.secret>>, <<"JWT_PREVIOUS_SECRET", config.previous>>} :
      held[2] # None => held \in offered

\* A file-backed secret gets the same verdict as a direct one: were the
\* environment as it is now to hold the content of a file as a value instead, the
\* process would boot exactly when it does, with the same Config.
FormIsIrrelevant ==
  LET Resolved(e) == [n \in Secret |-> Resolve(e.direct[n], e.path[n], files[n])]
      Moved(n) == [env EXCEPT !.path[n] = FALSE,
                              !.direct[n] = [text |-> files[n].text,
                                             endings |-> IF files[n].endings > 1 THEN 1 ELSE 0]]
      Outcome(e) == LET r == Resolved(e)  secrets == [n \in Secret |-> r[n].value]
                    IN IF (\A n \in Secret : r[n].ok) /\ Valid(secrets, e.setting)
                       THEN ConfigOf(secrets, e.setting) ELSE None
  IN \A n \in Secret :
       env.path[n] /\ ~Configured(env.direct[n]) /\ files[n] # None => Outcome(env) = Outcome(Moved(n))
=============================================================================
