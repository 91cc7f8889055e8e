------------------------------ MODULE MC_SignIn ------------------------------
(***************************************************************************)
(* The runs under fairness of Credentials and RefreshTokens, no request    *)
(* cut off in Refresh.  A behaviour is one of one of the two, chosen in    *)
(* the initial state; the other stays in its own initial state, so each is *)
(* explored as if it were alone.                                           *)
(***************************************************************************)
EXTENDS Credentials

CONSTANTS Login, RefreshToken

VARIABLES component,
    session, ended, family, parent, used, revoked, stale, holder,
    refreshPc, refreshReq, todo, late, answered

Refresh == INSTANCE RefreshTokens WITH
    Session <- Login, Token <- RefreshToken, MayFail <- FALSE,
    pc <- refreshPc, req <- refreshReq

refreshVars == <<session, ended, family, parent, used, revoked, stale, holder,
                 refreshPc, refreshReq, todo, late, answered>>
MCVars      == <<component, vars, refreshVars>>

MCInit == component \in {"credentials", "refresh"} /\ Init /\ Refresh!Init

OfCredentials(A) == component = "credentials" /\ A /\ UNCHANGED <<component, refreshVars>>
OfRefresh(A)     == component = "refresh" /\ A /\ UNCHANGED <<component, vars>>

MCNext == OfCredentials(Next) \/ OfRefresh(Refresh!Next)

MCAcquire(r) == OfCredentials(Acquire(r)) \/ OfRefresh(Refresh!Acquire(r))
MCProceed(r) == OfCredentials(Proceed(r)) \/ OfRefresh(Refresh!Proceed(r))

\* The fairness of Credentials!FairSpec and of Refresh!FairSpec: the component
\* never changes.
MCFairSpec ==
    /\ MCInit /\ [][MCNext]_MCVars
    /\ \A r \in Request : SF_MCVars(MCAcquire(r)) /\ WF_MCVars(MCProceed(r))

\* Reuse, once detected, ends the login, however often its tokens are presented
\* meanwhile (auth.service.ts, refresh).
ReuseEndsLogin == Refresh!ReuseEndsLogin
=============================================================================
