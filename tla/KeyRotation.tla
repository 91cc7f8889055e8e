---------------------------- MODULE KeyRotation ----------------------------
(***************************************************************************)
(* The access-token signing secret over its rotations: the environment the *)
(* operator edits (a value or a mounted file for each of JWT_SECRET and    *)
(* JWT_PREVIOUS_SECRET), the API processes that read it once, when they    *)
(* start (packages/config), and the tokens they sign and verify            *)
(* (packages/auth-core/src/access-token.ts).  The operator follows         *)
(* docs/rotation-runbook.md; a process may crash and start again at any    *)
(* point of it.                                                            *)
(***************************************************************************)
EXTENDS Naturals, FiniteSets

CONSTANTS
  Process,        \* API processes
  Key,            \* secret values
  Weak,           \* those the configuration refuses (known, placeholder, short)
  FirstKey,       \* the secret every process starts with
  Ttl,            \* AUTH_ACCESS_TOKEN_TTL_SECONDS
  None,
  MaxTime         \* bound: the last instant

Name == {"JWT_SECRET", "JWT_PREVIOUS_SECRET"}

VARIABLES
  now,
  env,            \* env[n][f]: the value variable n names in form f, or None
  keys,           \* keys[p]: the secrets process p read; None: it is down
  fresh,          \* the processes started since the environment was edited
  stage,          \* the stage of the runbook
  since,          \* when that stage was reached
  retired,        \* the secrets the operator has withdrawn
  emergency,      \* some rotation withdrew its secret at once
  tokens          \* the access tokens issued that have not expired

vars == <<now, env, keys, fresh, stage, since, retired, emergency, tokens>>

Form == {"value", "file"}
Unset == [f \in Form |-> None]
Loaded == [current : Key, previous : Key \cup {None}]
Token == [key : Key, exp : 0..MaxTime + Ttl]
Running(p) == keys[p] # None

TypeOK ==
  /\ now \in 0..MaxTime /\ since \in 0..MaxTime /\ emergency \in BOOLEAN
  /\ env \in [Name -> [Form -> Key \cup {None}]]
  /\ keys \in [Process -> Loaded \cup {None}]
  /\ fresh \subseteq Process /\ retired \subseteq Key /\ tokens \subseteq Token
  /\ stage \in {"steady", "swap", "window", "closing"}

Init ==
  /\ now = 0 /\ since = 0 /\ retired = {} /\ emergency = FALSE /\ tokens = {}
  /\ env = [n \in Name |-> IF n = "JWT_SECRET" THEN [Unset EXCEPT !["value"] = FirstKey] ELSE Unset]
  /\ keys = [p \in Process |-> [current |-> FirstKey, previous |-> None]]
  /\ fresh = Process /\ stage = "steady"

-----------------------------------------------------------------------------
(* Loading the configuration                                               *)

Configured(n) == {f \in Form : env[n][f] # None}

(* A bug: a direct value wins over a file.                                 *)
Resolved_PrefersValue(n) ==
  IF Configured(n) = {} THEN [ok |-> TRUE, value |-> None]
  ELSE [ok |-> TRUE, value |-> IF env[n]["value"] # None THEN env[n]["value"] ELSE env[n]["file"]]

(* resolveSecretSources: two sources for one variable are refused.         *)
Resolved(n) ==
  CASE Configured(n) = {} -> [ok |-> TRUE, value |-> None]
    [] Cardinality(Configured(n)) = 1 ->
         [ok |-> TRUE, value |-> env[n][CHOOSE f \in Configured(n) : TRUE]]
    [] OTHER -> [ok |-> FALSE, value |-> None]

(* envSchema: the secret is required, the pair must differ, and neither is *)
(* a value the production policy refuses.                                  *)
Acceptable ==
  LET current == Resolved("JWT_SECRET")  previous == Resolved("JWT_PREVIOUS_SECRET")
  IN /\ current.ok /\ previous.ok
     /\ current.value \in Key \ Weak
     /\ previous.value \notin Weak \cup {current.value}

(* getConfig: the process keeps what it read when it started, for good.    *)
Start(p) ==
  /\ Acceptable
  /\ keys' = [keys EXCEPT ![p] = [current |-> Resolved("JWT_SECRET").value,
                                  previous |-> Resolved("JWT_PREVIOUS_SECRET").value]]
  /\ fresh' = fresh \cup {p}
  /\ UNCHANGED <<now, env, stage, since, retired, emergency, tokens>>

(* The process stops: it crashed, it was restarted and not up again yet,   *)
(* or it refused to boot.                                                  *)
Stop(p) ==
  /\ Running(p)
  /\ keys' = [keys EXCEPT ![p] = None]
  /\ UNCHANGED <<now, env, fresh, stage, since, retired, emergency, tokens>>

-----------------------------------------------------------------------------
(* Tokens                                                                  *)

(* signAccessToken: only the current secret signs.                         *)
Sign(p) ==
  /\ Running(p)
  /\ tokens' = tokens \cup {[key |-> keys[p].current, exp |-> now + Ttl]}
  /\ UNCHANGED <<now, env, keys, fresh, stage, since, retired, emergency>>

(* A bug: verification never tries the previous secret.                    *)
Verifies_CurrentOnly(p, token) == token.key = keys[p].current

(* verifyAccessTokenWithRotation, of a token that has not expired.         *)
Verifies(p, token) == token.key \in {keys[p].current, keys[p].previous}

-----------------------------------------------------------------------------
(* The operator.  A secret is written in one of the two forms; what the    *)
(* variable held in the other form may be left behind by mistake.          *)

Written(n, key, form, forgets) ==
  [f \in Form |-> IF f = form THEN key ELSE IF forgets THEN env[n][f] ELSE None]

Unused == Key \ (retired \cup {k \in Key : \E n \in Name, f \in Form : env[n][f] = k})
Current == UNION {{env["JWT_SECRET"][f]} : f \in Configured("JWT_SECRET")}
Edit(s) == /\ fresh' = {} /\ stage' = s /\ since' = now /\ UNCHANGED <<now, keys, tokens>>

(* Step 2: the new secret, with the one it replaces as the previous one.   *)
Swap(new, form, forgets) ==
  /\ stage = "steady" /\ new \in Unused /\ Cardinality(Current) = 1
  /\ env' = [n \in Name |->
       Written(n, IF n = "JWT_SECRET" THEN new ELSE CHOOSE k \in Current : TRUE, form, forgets)]
  /\ Edit("swap")
  /\ UNCHANGED <<retired, emergency>>

(* Emergency: the new secret alone.                                        *)
Replace(new, form, forgets) ==
  /\ stage \in {"steady", "swap", "window"} /\ new \in Unused
  /\ env' = [env EXCEPT !["JWT_SECRET"] = Written("JWT_SECRET", new, form, forgets),
                        !["JWT_PREVIOUS_SECRET"] = Unset]
  /\ retired' = retired \cup Current \cup ({env["JWT_PREVIOUS_SECRET"][f] : f \in Form} \ {None})
  /\ emergency' = TRUE
  /\ Edit("closing")

(* Steps 3 and 7: every process has been started on the edited values.     *)
Restarted ==
  /\ fresh = Process
  /\ \/ stage = "swap" /\ stage' = "window"
     \/ stage = "closing" /\ stage' = "steady"
  /\ since' = now
  /\ UNCHANGED <<now, env, keys, fresh, retired, emergency, tokens>>

(* Steps 5 and 6: one full lifetime later the previous secret is unset.    *)
CloseWindow ==
  /\ stage = "window" /\ now > since + Ttl
  /\ env' = [env EXCEPT !["JWT_PREVIOUS_SECRET"] = Unset]
  /\ retired' = retired \cup ({env["JWT_PREVIOUS_SECRET"][f] : f \in Form} \ {None})
  /\ Edit("closing")
  /\ UNCHANGED emergency

Tick ==
  /\ now < MaxTime
  /\ now' = now + 1
  /\ tokens' = {t \in tokens : t.exp >= now'}
  /\ UNCHANGED <<env, keys, fresh, stage, since, retired, emergency>>

Next ==
  \/ \E p \in Process : Start(p) \/ Stop(p) \/ Sign(p)
  \/ \E new \in Key, form \in Form, forgets \in BOOLEAN :
       Swap(new, form, forgets) \/ Replace(new, form, forgets)
  \/ Restarted \/ CloseWindow \/ Tick

Spec == Init /\ [][Next]_vars

-----------------------------------------------------------------------------
(* As long as no rotation was an emergency, every access token that has    *)
(* not expired verifies at every process that is up, provided no secret    *)
(* that was withdrawn is one the configuration refuses (a weak secret      *)
(* cannot be kept as the previous one): the runbook's                      *)
(* "Routine rotation with no user impact" (docs/rotation-runbook.md:77).   *)
(* It holds for one process; with two, one of them is still on the old     *)
(* secret when the other signs with the new one.                           *)
RotationIsSilent ==
  ~emergency /\ retired \cap Weak = {} =>
    \A p \in Process, t \in tokens : Running(p) => Verifies(p, t)

(* Once every process has been started on the edited environment, a        *)
(* withdrawn secret opens nothing, and none of them signs with it: neither *)
(* a value left in the other form nor a cached configuration brings it     *)
(* back (secret-source.ts: two sources are refused, not ranked).           *)
WithdrawnIsDead ==
  stage = "steady" => \A p \in Process : Running(p) =>
    {keys[p].current, keys[p].previous} \cap retired = {}
=============================================================================
