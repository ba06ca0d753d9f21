---------------------------- MODULE ClaudeTokens ----------------------------
(***************************************************************************)
(* The rotating credential of one Claude profile.  Collectors in several   *)
(* processes poll with the access token, and spend the refresh token when  *)
(* it is refused (native.rs, collect/claude.rs) under a lock that the      *)
(* agent's own sessions take as well (credentials.rs).  A refresh token is *)
(* good for one grant; the grant answers with the next pair.  A pair is    *)
(* its number.                                                             *)
(***************************************************************************)
EXTENDS Integers

CONSTANTS
  Collector,  \* processes that poll the profile
  MaxPair,    \* bound on the pairs the provider issues
  MaxFault    \* bound on failed calls and crashes

ASSUME TokensAssumption == MaxPair \in Nat \ {0} /\ MaxFault \in Nat /\ 0 \notin Collector

VARIABLES
  policy,     \* Profile.refresh
  provider,   \* the newest pair, and whether its access token is accepted
  expired,    \* pairs up to this one have passed their expires_at
  credential, \* the pair in .credentials.json
  holder,     \* who holds CredentialLock, 0 when nobody does
  poll,       \* per collector: [at, active, rejected, got, tried]
  kept,       \* per collector: NativeState.claude_tokens of the profile
  outcome,    \* how its last collection ended
  lost,       \* history: a grant did not reach the file
  spentAgain, \* history: a spent token was presented although none was lost
  faults

tokenVars == <<policy, provider, expired, credential, holder, poll, kept, outcome, lost, spentAgain, faults>>

NoEntry == [authoritative |-> 0, active |-> 0]
Rest == [at |-> "idle", active |-> 0, rejected |-> 0, got |-> 0, tried |-> FALSE]

TokensInit ==
  /\ policy \in {"persist", "never"}
  /\ provider = [pair |-> 1, accepts |-> TRUE]
  /\ expired = 0 /\ credential = 1 /\ holder = 0
  /\ poll = [c \in Collector |-> Rest]
  /\ kept = [c \in Collector |-> NoEntry]
  /\ outcome = [c \in Collector |-> "none"]
  /\ lost = FALSE /\ spentAgain = FALSE /\ faults = 0

Accepts(pair) == provider.accepts /\ pair = provider.pair

----------------------------------------------------------------------------
(* The provider and the agent's own sessions. *)

ExpirePair ==
  /\ provider.accepts /\ provider.pair < MaxPair
  /\ provider' = [provider EXCEPT !.accepts = FALSE]
  /\ \/ expired' = provider.pair
     \/ UNCHANGED expired  \* revoked before its time
  /\ UNCHANGED <<policy, credential, holder, poll, kept, outcome, lost, spentAgain, faults>>

\* A session refreshes, or the user logs in again, which needs no old pair.
SessionRotates ==
  /\ holder = 0 /\ provider.pair < MaxPair
  /\ provider' = [pair |-> provider.pair + 1, accepts |-> TRUE]
  /\ credential' = provider.pair + 1
  /\ lost' = FALSE
  /\ UNCHANGED <<policy, expired, holder, poll, kept, outcome, spentAgain, faults>>

----------------------------------------------------------------------------
(* collect_claude *)

\* prepare_claude_tokens: what the file shows wins over what was kept.
Prepared(entry, observed) ==
  IF entry = NoEntry \/ entry.authoritative # observed
  THEN [authoritative |-> observed, active |-> observed] ELSE entry

StartPoll(c) ==
  /\ poll[c].at = "idle"
  /\ LET e == Prepared(kept[c], credential) IN
       /\ kept' = [kept EXCEPT ![c] = e]
       /\ poll' = [poll EXCEPT ![c] = [Rest EXCEPT !.at = "sent", !.active = e.active, !.rejected = e.authoritative]]
  /\ UNCHANGED <<policy, provider, expired, credential, holder, outcome, lost, spentAgain, faults>>

End(c, how) ==
  /\ poll' = [poll EXCEPT ![c] = Rest]
  /\ outcome' = [outcome EXCEPT ![c] = how]

\* ClaudeCollector: one forced refresh, after the first refusal.
HandleResponse(c) ==
  /\ poll[c].at = "sent"
  /\ \/ Accepts(poll[c].active) /\ End(c, "ok")
     \/ ~Accepts(poll[c].active) /\ poll[c].tried /\ End(c, "failed")
     \/ /\ ~Accepts(poll[c].active) /\ ~poll[c].tried
        /\ poll' = [poll EXCEPT ![c].at = "refresh", ![c].tried = TRUE]
        /\ UNCHANGED outcome
  /\ UNCHANGED <<policy, provider, expired, credential, holder, kept, lost, spentAgain, faults>>

\* The provider throttles beyond the retries, or cannot be reached.
RequestFails(c) ==
  /\ poll[c].at = "sent" /\ faults < MaxFault
  /\ faults' = faults + 1
  /\ End(c, "failed")
  /\ UNCHANGED <<policy, provider, expired, credential, holder, kept, lost, spentAgain>>

----------------------------------------------------------------------------
(* cooperative_refresh_with *)

\* Mutant: the lock is not waited for.
AcquireAnyway(c) ==
  /\ poll[c].at = "refresh"
  /\ holder' = c /\ poll' = [poll EXCEPT ![c].at = "locked"]
  /\ UNCHANGED <<policy, provider, expired, credential, kept, outcome, lost, spentAgain, faults>>

Acquire(c) ==
  /\ poll[c].at = "refresh" /\ holder = 0
  /\ holder' = c /\ poll' = [poll EXCEPT ![c].at = "locked"]
  /\ UNCHANGED <<policy, provider, expired, credential, kept, outcome, lost, spentAgain, faults>>

AcquireTimesOut(c) ==
  /\ poll[c].at = "refresh" /\ holder # 0
  /\ End(c, "failed")
  /\ UNCHANGED <<policy, provider, expired, credential, holder, kept, lost, spentAgain, faults>>

\* Mutant: whatever has not expired is adopted, the rejected pair too.
AdoptableUnexpired(c) == credential > expired

\* The file is read again under the lock: another pair than the rejected one
\* is adopted unless it has expired.
Adoptable(c) == credential > expired /\ credential # poll[c].rejected

\* record_claude_refresh, and the request again with the new pair.
Resume(c, pair) ==
  /\ kept' = [kept EXCEPT ![c] = [authoritative |-> pair, active |-> pair]]
  /\ poll' = [poll EXCEPT ![c].at = "sent", ![c].active = pair]
  /\ holder' = 0
  /\ UNCHANGED outcome

Adopt(c) ==
  /\ poll[c].at = "locked" /\ Adoptable(c)
  /\ Resume(c, credential)
  /\ UNCHANGED <<policy, provider, expired, credential, lost, spentAgain, faults>>

\* ensure_refresh_grant_is_durable
NotDurable(c) ==
  /\ poll[c].at = "locked" /\ ~Adoptable(c) /\ policy # "persist"
  /\ End(c, "failed") /\ holder' = 0
  /\ UNCHANGED <<policy, provider, expired, credential, kept, lost, spentAgain, faults>>

\* The refresh token of the file is spent; the provider rotates, or refuses.
Grant(c) ==
  /\ poll[c].at = "locked" /\ ~Adoptable(c) /\ policy = "persist"
  /\ IF credential = provider.pair
     THEN /\ provider.pair < MaxPair
          /\ provider' = [pair |-> provider.pair + 1, accepts |-> TRUE]
          /\ poll' = [poll EXCEPT ![c].at = "granted", ![c].got = provider.pair + 1]
          /\ UNCHANGED <<holder, outcome, spentAgain>>
     ELSE /\ End(c, "failed") /\ holder' = 0
          /\ spentAgain' = (spentAgain \/ ~lost)
          /\ UNCHANGED provider
  /\ UNCHANGED <<policy, expired, credential, kept, lost, faults>>

\* The answer to a grant is lost, or the process dies before the rename.
GrantLost(c) ==
  /\ poll[c].at = "granted" /\ faults < MaxFault
  /\ faults' = faults + 1 /\ lost' = TRUE
  /\ End(c, "failed") /\ holder' = 0
  /\ kept' \in {kept, [kept EXCEPT ![c] = NoEntry]}
  /\ UNCHANGED <<policy, provider, expired, credential, spentAgain>>

\* persist_linux_document: a temporary file, synchronized and renamed.
PersistPair(c) ==
  /\ poll[c].at = "granted"
  /\ credential' = poll[c].got
  /\ Resume(c, poll[c].got)
  /\ UNCHANGED <<policy, provider, expired, lost, spentAgain, faults>>

\* GrantedUnpersisted: the pair is handed to the caller only.
PersistFails(c) ==
  /\ poll[c].at = "granted" /\ faults < MaxFault
  /\ faults' = faults + 1 /\ lost' = TRUE
  /\ Resume(c, poll[c].got)
  /\ UNCHANGED <<policy, provider, expired, credential, spentAgain>>

\* The process is restarted; a lock it held goes with it.
CollectorDies(c) ==
  /\ poll[c].at # "granted" /\ faults < MaxFault
  /\ faults' = faults + 1
  /\ End(c, "none")
  /\ kept' = [kept EXCEPT ![c] = NoEntry]
  /\ holder' = IF holder = c THEN 0 ELSE holder
  /\ UNCHANGED <<policy, provider, expired, credential, lost, spentAgain>>

----------------------------------------------------------------------------
CollectorStep(c) ==
  \/ StartPoll(c) \/ HandleResponse(c)
  \/ Acquire(c) \/ AcquireTimesOut(c) \/ Adopt(c) \/ NotDurable(c) \/ Grant(c) \/ PersistPair(c)

TokensNext ==
  \/ ExpirePair \/ SessionRotates
  \/ \E c \in Collector :
       CollectorStep(c) \/ RequestFails(c) \/ GrantLost(c) \/ PersistFails(c) \/ CollectorDies(c)

\* The scheduler polls for as long as it runs.
TokensFairness == \A c \in Collector : WF_tokenVars(CollectorStep(c))

TokensSpec == TokensInit /\ [][TokensNext]_tokenVars /\ TokensFairness

----------------------------------------------------------------------------
\* Every variable has its type; pairs are numbers the provider has issued.
TokensTypeOK ==
  /\ policy \in {"persist", "never"}
  /\ provider \in [pair : 1..MaxPair, accepts : BOOLEAN]
  /\ expired \in 0..provider.pair /\ credential \in 1..provider.pair
  /\ holder \in Collector \cup {0}
  /\ \A c \in Collector :
       /\ poll[c] \in [at : {"idle", "sent", "refresh", "locked", "granted"}, active : 0..MaxPair,
                       rejected : 0..MaxPair, got : 0..MaxPair, tried : BOOLEAN]
       /\ kept[c] \in [authoritative : 0..MaxPair, active : 0..MaxPair]
       /\ outcome[c] \in {"none", "ok", "failed"}

\* Of two collectors and the agent's sessions nobody presents a refresh token
\* that was already spent, and the file holds the one that was not, unless a
\* grant's answer or its write was lost.
SpentOnce ==
  /\ ~spentAgain
  /\ credential # provider.pair => lost \/ \E c \in Collector : poll[c].at = "granted"

\* Under the policy that refreshes, once expiry, revocation and faults have
\* stopped every collection succeeds, unless the unspent token is lost: a pair
\* that is refused is replaced.
Reads == \A c \in Collector : outcome[c] = "ok"

CollectorsRecover == <>[](policy = "persist" /\ ~lost => Reads)

\* A pair that could not be written is kept in memory: no collector goes back
\* to an older pair while it runs.
RotatedIsKept ==
  [][\A c \in Collector :
       kept[c] # NoEntry /\ kept'[c] # NoEntry => kept'[c].active >= kept[c].active]_tokenVars
=============================================================================
