--------------------------- MODULE HolderSnapshot ---------------------------
(***************************************************************************)
(* One snapshot of a token's top holders (snapshot_holders.py) and the     *)
(* verdict of the ghost filter on it (holder_filter.evaluate_holder_filter)*)
(* The providers are remote calls that are retried and may fail; what they *)
(* answer is chosen from small sets.                                       *)
(***************************************************************************)
EXTENDS Integers, FiniteSets, FiniteSetsExt

CONSTANTS
  Accounts,        \* token accounts of the mint: records [owner, amount], amount 0 or more
  FetchLimit,      \* accounts the primary provider returns at most
  LargestMax,      \* accounts the fallback returns at most
  Limit,           \* limit, the 50 holders wanted
  BalanceViews,    \* what the balance RPC may say: [owner -> [sol, program]]
  PoolOwner,       \* the pool_address of the token
  NonUserPrograms, \* NON_USER_OWNER_PROGRAMS
  NoSol,           \* a balance or a program that is not known
  Bucket,          \* balances that round to the same 4 decimals: units per bucket
  LowSol,          \* LOW_SOL_CUTOFF
  MaxRetries,      \* MAX_RETRIES
  CollisionMin, LowSolMin,                \* thresholds of the first version
  BlockWallets, BlockClusters,            \* and of the second
  CautionWallets, CautionClusters

ASSUME HolderSnapshotAssumption ==
  /\ IsFiniteSet(Accounts) /\ NoSol # "system"
  /\ {FetchLimit, LargestMax, Limit, Bucket, MaxRetries} \subseteq Nat \ {0}
  /\ {CollisionMin, BlockWallets, BlockClusters, CautionWallets, CautionClusters} \subseteq Nat
  /\ CautionWallets = CollisionMin /\ CautionWallets <= BlockWallets
  /\ CautionClusters <= BlockClusters /\ CautionWallets <= 2 * CautionClusters

VARIABLES
  phase,     \* "off", the remote call under way, or "done"
  tries,     \* failed attempts of this call
  raw,       \* raw_holders, the accounts that are kept
  said,      \* balance_data: owners to [sol, program]
  snapshot   \* [status, source]

snapVars == <<phase, tries, raw, said, snapshot>>

Owners == {a.owner : a \in Accounts}
Unknown == [sol |-> NoSol, program |-> NoSol]
AllUnknown == [o \in Owners |-> Unknown]
Phases == {"off", "primary", "fallback", "owners", "balances", "supply", "done"}
Statuses == {"ok", "partial", "error"}

SnapTypeOK ==
  /\ phase \in Phases /\ tries \in 0 .. MaxRetries - 1
  /\ raw \subseteq Accounts /\ Cardinality(raw) <= Limit
  /\ said \in BalanceViews \cup {AllUnknown}
  /\ snapshot \in [status : Statuses, source : {"helius_das", "helius_rpc_fallback"}]

SnapInit ==
  /\ phase = "off" /\ tries = 0 /\ raw = {} /\ said = AllUnknown
  /\ snapshot = [status |-> "ok", source |-> "helius_das"]

SnapOff ==
  /\ phase' = "off" /\ tries' = 0 /\ raw' = {} /\ said' = AllUnknown
  /\ snapshot' = [status |-> "ok", source |-> "helius_das"]

(***************************************************************************)
(* From token accounts to holders.                                         *)
(***************************************************************************)
\* The n largest of the accounts S, whichever they are where amounts are alike.
Largest(S, n) ==
  {T \in SUBSET S : /\ Cardinality(T) = Min({n, Cardinality(S)})
                    /\ \A a \in T, b \in S \ T : a.amount >= b.amount}

\* Both providers drop empty accounts, sort, and cut at the limit.
TopAccounts(S, n) == Largest({a \in S : a.amount > 0}, n)

\* Step 2: the accounts of one owner are added up, after that cut.  The second
\* cut at the limit finds no more owners than there are accounts.
TopOwners(accounts) == {a.owner : a \in accounts}

\* _classify_holder; extra_known_vaults is empty in the bot.
HolderType(o, program) ==
  CASE o = PoolOwner                 -> "lp_pool"
    [] program = "system"            -> "user_wallet"
    [] program \in NonUserPrograms   -> "program_owned"
    [] OTHER                         -> "unknown"

(***************************************************************************)
(* The ghost filter.                                                       *)
(***************************************************************************)
UserWallets(accounts, view) ==
  {o \in TopOwners(accounts) : HolderType(o, view[o].program) = "user_wallet"}

Rounded(sol) == (sol + Bucket \div 2) \div Bucket

\* Mutant: a wallet alone in its bucket is a cluster too.
ClustersOfOne(accounts, view) ==
  LET paid == {o \in UserWallets(accounts, view) : view[o].sol \notin {NoSol, 0}}
  IN  {{o \in paid : Rounded(view[o].sol) = k} : k \in {Rounded(view[o].sol) : o \in paid}}

\* The wallets that share a rounded balance, as sets of two or more; balances
\* that are unknown or exactly zero do not count.
Clusters(accounts, view) ==
  LET paid == {o \in UserWallets(accounts, view) : view[o].sol \notin {NoSol, 0}}
      sharing(k) == {o \in paid : Rounded(view[o].sol) = k}
  IN  {sharing(k) : k \in {Rounded(view[o].sol) : o \in paid}} \ {{o} : o \in paid}

Colliding(accounts, view) == Cardinality(UNION Clusters(accounts, view))

\* Mutant: a balance that is not known counts as none.
LowSolCountUnknown(accounts, view) ==
  Cardinality({o \in UserWallets(accounts, view) : view[o].sol = NoSol \/ view[o].sol < LowSol})

LowSolCount(accounts, view) ==
  Cardinality({o \in UserWallets(accounts, view) : view[o].sol # NoSol /\ view[o].sol < LowSol})

WouldBlock(accounts, view) ==
  Colliding(accounts, view) >= CollisionMin \/ LowSolCount(accounts, view) >= LowSolMin

Verdict(accounts, view) ==
  LET wallets == Colliding(accounts, view)
      clusters == Cardinality(Clusters(accounts, view))
  IN  CASE \/ LowSolCount(accounts, view) >= LowSolMin
           \/ wallets >= BlockWallets \/ clusters >= BlockClusters   -> "block"
        [] wallets >= CautionWallets \/ clusters >= CautionClusters  -> "caution"
        [] OTHER                                                     -> "pass"

(***************************************************************************)
(* The remote calls.  An attempt that fails is repeated until MAX_RETRIES; *)
(* then the call has failed.                                               *)
(***************************************************************************)
Start ==
  /\ phase = "off" /\ phase' = "primary" /\ tries' = 0 /\ raw' = {} /\ said' = AllUnknown
  /\ snapshot' = [status |-> "ok", source |-> "helius_das"]

AttemptFails ==
  /\ phase \in {"primary", "fallback", "owners", "balances", "supply"}
  /\ tries + 1 < MaxRetries /\ tries' = tries + 1
  /\ UNCHANGED <<phase, raw, said, snapshot>>

GivesUp(call) == phase = call /\ tries + 1 = MaxRetries /\ tries' = 0

\* Holders, or none: then the snapshot is an error and no more is asked.
Holders(accounts, source) ==
  /\ tries' = 0 /\ raw' = accounts /\ UNCHANGED said
  /\ IF accounts = {}
       THEN phase' = "done" /\ snapshot' = [status |-> "error", source |-> source]
       ELSE phase' = "balances" /\ snapshot' = [status |-> "ok", source |-> source]

\* The provider returns some of the accounts, as many as asked for.
PrimaryAnswers(S) ==
  /\ phase = "primary" /\ S \subseteq Accounts
  /\ Cardinality(S) = FetchLimit \/ (S = Accounts /\ Cardinality(S) < FetchLimit)
  /\ \E top \in TopAccounts(S, Limit) : Holders(top, "helius_das")
PrimaryFails == GivesUp("primary") /\ phase' = "fallback" /\ UNCHANGED <<raw, said, snapshot>>

FallbackAnswers ==
  /\ phase = "fallback" /\ phase' = "owners" /\ tries' = 0
  /\ raw' \in TopAccounts(Accounts, Min({Limit, LargestMax})) /\ UNCHANGED <<said, snapshot>>
FallbackFails ==
  /\ GivesUp("fallback") /\ phase' = "done" /\ snapshot' = [snapshot EXCEPT !.status = "error"]
  /\ UNCHANGED <<raw, said>>

\* Without owners no account is kept.
OwnersResolved == phase = "owners" /\ Holders(raw, "helius_rpc_fallback")
OwnersFail == GivesUp("owners") /\ Holders({}, "helius_rpc_fallback")

\* get_balances_and_owners catches the failure itself: everything is unknown,
\* and the snapshot stays "ok".
BalancesAnswer(view) ==
  /\ phase = "balances" /\ phase' = "supply" /\ tries' = 0 /\ said' = view /\ UNCHANGED <<raw, snapshot>>
BalancesFail ==
  /\ GivesUp("balances") /\ phase' = "supply" /\ said' = AllUnknown /\ UNCHANGED <<raw, snapshot>>

\* The supply only sets a percentage; its failure is swallowed.
SupplyAnswers == phase = "supply" /\ phase' = "done" /\ tries' = 0 /\ UNCHANGED <<raw, said, snapshot>>
SupplyFails == GivesUp("supply") /\ phase' = "done" /\ UNCHANGED <<raw, said, snapshot>>

SnapNext ==
  \/ AttemptFails
  \/ PrimaryFails \/ \E S \in SUBSET Accounts : PrimaryAnswers(S)
  \/ FallbackAnswers \/ FallbackFails
  \/ OwnersResolved \/ OwnersFail
  \/ BalancesFail \/ \E view \in BalanceViews : BalancesAnswer(view)
  \/ SupplyAnswers \/ SupplyFails

\* What the alert path takes from it: nothing, or a verdict.
Usable == snapshot.status # "error" /\ raw # {}

(***************************************************************************)
(* Properties.                                                             *)
(***************************************************************************)

\* The two versions of the filter agree on what is suspicious: old rows have
\* no verdict and are read by would_block instead, so a row that would have
\* blocked must not read "pass" in the new one, nor the reverse.
VersionsAgree ==
  phase = "done" /\ Usable => (WouldBlock(raw, said) <=> Verdict(raw, said) # "pass")

\* "owner_program unknown or unrecognised - don't guess" (snapshot_holders.py:393):
\* after a balance call that failed, or that knew some wallets only, the
\* verdict is that on the wallets it knew, so that a failure of the RPC alone
\* never withholds an alert.
UnknownConvictsNobody ==
  phase = "done" /\ Usable =>
    Verdict(raw, said) =
      Verdict({a \in raw : NoSol \notin {said[a.owner].sol, said[a.owner].program}}, said)
=============================================================================
