# Shinonome bot: a verification project

This directory holds TLA+ models of the Discord casino bot in `src/`, the TLC
runs that check them on small instances, and TLAPS proofs of what matters most
for every instance.  All money of the bot is play money in a MySQL database; the
question asked throughout is whether a coin can be created, lost, paid twice or
kept from its owner when callbacks, timers, database errors and restarts
interleave.

## 1. Inventory

One process (documented as the only one) runs an asyncio loop with discord.py.
Handlers call synchronous repositories in threads (`async_bridge.py`,
`asyncio.to_thread`); a repository call is one or more MySQL transactions over a
pool of 16 connections (`db.py`).  What is shared: the `users` rows, the session
and match tables, and a few in-memory locks and caches.

| component | state it keeps | operations | what makes it correct |
|---|---|---|---|
| escrow store (`state_repo.py`) | `bot_game_sessions` (phase, escrow, payload, settlement, deadline, owner), `bot_game_events` | debit, checkpoint, claim, prepare + apply (finish), recover | one charge per event, one payment per session, refunds are whole, what is decided is final, everything is settled in the end |
| recovery task (`bot.py`) | its startup flag | scan and recover every 20 s | spares live games, one failure does not stop the rest |
| E-card duel (`commands/duel.py`) | invitation, match (hands, picks, scores), pending outcome | accept, decline, timeouts, pick, settle, refund | both stakes are in, messages say what was paid, a decided game is not refunded |
| red packet (`commands/economy.py`) | view: claimed list, closed flag; session in the store | send, claim, timeout | every share is at least a coin, the rest goes back |
| blackjack (`commands/blackjack.py`) | hands, side bets, message; session in the store | start, hit, stand, double, split, timeout, end, rematch | each extra stake is charged once before it plays; one result |
| Russian roulette (`commands/russian_roulette.py`, `rr_match_repo.py`, `rr_repo.py`) | match rows with a payload, settlement events, busy cache | invite, join, leave, shoot, raise, settle, rematch, recover | stakes and settlement agree with the saved match; one match per player |
| lottery (`lottery_repo.py`) | rounds, entries | buy, draw, status | each pool is paid once; every ticket takes part |
| rob, wanted, police (`rob_repo.py`, `wanted_repo.py`, `domain_sync.py`) | stars, debt, jail, roles, locks of good citizens | rob, hunt, bail, buyout, choose role | outcomes apply to the state they were drawn for |
| economy (`economy_repo.py`, `economy_service.py`) | balances, claim times, saved hours | hourly, daily, beg, rescue, transfer, the bank shown by /cooldowns | one claim per period, no hour paid twice |
| activity (`activity_repo.py`, `events.py`, `locks.py`) | pending message counts, keyed locks | message and voice rewards | no message counted twice or lost, no lock dropped while wanted |
| levels, statistics (`game_repo.py`, `social_repo.py`) | exp, totals | add exp, coinflip, queries | level arithmetic |
| command lock, policy (`app_lock.py`, `policy.py`) | one lock per user with a 180 s life | acquire, release, blacklist test | released by its owner only |
| caches (`snapshot_cache.py`) | timed copies of query results | read, refresh, invalidate | staleness is bounded |
| pool (`db.py`) | connections | transactions, retries, reconnects | no half transaction commits |
| admin commands (`admin_commands.py`) | none of their own | set balances and levels, blacklist, free a prisoner | `admin_unjail` writes what the wanted system writes, after a read without a lock |
| relay, settings, start-up, display | audit rows, switches | Discord sends, upserts | outside the models; see section 8 |

Interaction.  Blackjack, duels and red packets keep their stakes in the escrow
store and call it over threads; the recovery task works on the same rows.
Roulette has its own match table and settlement.  The lottery, the wanted
system, the claims and the administrators write `users` directly.  What is hard:
handlers await between steps that belong together; a timeout, a second click or
the recovery task may run in each of these gaps; any await may raise, after its
effect as well as before; the process may stop anywhere and loses every view
when it does.

`PROJECT.json` lists every hazard with its line and the properties about it.

## 2. Modules

| module | models | role |
|---|---|---|
| `WagerPromise` | what the store promises a game | abstract specification |
| `EscrowStore` | `state_repo.py` (GameStore), `game_recovery_task` of `bot.py` | detailed specification, implements `WagerPromise` |
| `Duel` | `commands/duel.py` | a client of the store, on top of `WagerPromise` |
| `Blackjack` | `commands/blackjack.py` | a client of the store, on top of `WagerPromise` |
| `Roulette` | `commands/russian_roulette.py`, `rr_match_repo.py` | component with its own table and settlements |
| `Lottery` | `lottery_repo.py`, `lottery_draw_task` | component |
| `AppLock` | `runtime/app_lock.py` | the lock of the commands; extended by the next three |
| `Claims` | `economy_repo.py`, `economy_service.py`, /cooldowns of `social_repo.py` | component, under `AppLock` |
| `Rewards` | `runtime/events.py`, `runtime/locks.py`, `activity_repo.py`, `add_user_exp` | `Claims` composed with chat and voice on the same `users` rows |
| `Wanted` | `commands/wanted.py`, `rob_repo.py`, `wanted_repo.py`, role and citizen transactions of `domain_sync.py` | component, under `AppLock` |
| `MCEscrowStore`, `MCDuel`, `MCBlackjack`, `MCRoulette`, `MCLottery`, `MCRewards`, `MCWanted` | | instances for TLC |
| `EscrowStoreProofs`, `DuelProofs`, `BlackjackProofs`, `RouletteProofs`, `LotteryProofs`, `RewardsProofs`, `WantedProofs` | | theorems about these modules |
| `SumTheorems` | | lemmas about sums over finite sets, used by three of them |

Definitions named `...Mutant...` are deliberate mistakes; none is used by a
specification.  Each is a plausible bug, and each property of a run was seen to
fail with one of them (`PROJECT.json`, "mutants").

### EscrowStore

A row of `bot_game_sessions` is `phase`, `escrow`, `events`, `claims`, `intent`
and `why` (settlement), `ttl` (deadline) and `mine` (owner_id is this
process's).  `debit`, `checkpoint` and `claim` read the clock and the row and
commit later; they are `Begin` and a commit or `Rollback`, and hold the row lock
(`tx`) in between.  The balance that `debit` compares with the stake is a plain
read, in the snapshot that its look at the events opened before it waited for
the row of the user: the transaction carries from `Begin` whether that was
`enough`, and `CommitDebit` takes the stake off the balance of now, which may be
less (`NobodyOverdrawn`).  `prepare`, `apply` and the two transactions of
`recover_one` lock, decide and write without looking at the clock afterwards, so
each is one step that needs the lock free.  A worker is a callback or a timer
that calls `finish`; `call` is between its two transactions, or holds the
receipt it got. A lost reply is a commit whose worker goes on as after an error.
`Restart` ends every open transaction and worker and gives the process a new
owner_id. Histories `staked`, `taken` and `paid` are the rows of the transaction
log.

### WagerPromise

Coins move into an open pot, out of it (a packet), the pot is decided once, and
then everyone gets what was decided, in one step.  That a purse covers what it
pays is no part of the promise, as the store does not keep it.  `EscrowStore`
maps `active` (and no row) to open, `settling` to decided and `settled` to
closed.

### Duel

The store is instantiated as `WagerPromise`, and `finish` is still two steps of
it.  `at` is the await of the handler that holds the view's lock
(`serialized_action`), so there is at most one.  `AwaitRaises` ends a handler at
its await, with or without the effect of the store call.  The recovery task may
decide an open session at any time: deadlines are 600 s after the last debit or
checkpoint, but the play view stays alive for 300 s after every click, also
clicks that save nothing.  Cards are "special" (king or slave) and "citizen".
The two players' other games are left out: their purses change here only.

### Blackjack

Again on `WagerPromise`.  `offer` is what the view before the game (SetupView,
NewGameView, ConfirmAllInView) may stake, `game` the fields of `BlackjackGame`
and `shown` the buttons of its message.  A click mutates the game and then edits
the message; `_edit` swallows its errors, so `Shows` may leave the old buttons,
which stay pressable (`MayPlay` looks at `shown`, not at the hand).  A debit may
be refused, fail, or commit with its reply lost (the branch that leaves the view
alone).  `ResolveDealer` draws one card a step; `EndPrepare`, `EndApply` and
`EndShow` are `end`, which `RetryClick`, `OnTimeout` or another click may enter
again after `AwaitRaises`.  The callbacks run under `_action_lock`, one at a
time; `check_auto_bj` settles a natural without it, so `at` has an entry for
each of the two (`Runners`), and a press or a timeout may enter `end` while the
automatic one awaits the store: `interaction_check` looks for a pending
settlement before it looks at `_auto_settling`.  There is no such gap before the
flag is set: discord.py dispatches a view once its message was sent, and nothing
is awaited between that and `check_auto_bj`.  A new game starts when nothing of
the last one runs (`Start`), which is a bound.  Ranks are dealt freely; suits
only matter to the side bets and are choices there (`SideProfits`).  The share
of lost coins that goes to the partner is a credit of the same settlement
(`Credits`).

### Roulette

One match.  `m` is `RrMatch` in memory with the view its message shows, `row`
its saved payload, `events` the settlement keys that were taken.  The handlers
run under the lock of the match and `at` is where the running one awaits; the
command that creates a match does not take that lock, so its first save is
carried separately (`making`, `draft`) and may commit at any moment; `late` is a
history that tells whether it was overtaken by a commit of a handler
(`Overtakes`) and then wrote its old payload.  `settle_event_sync` is one
transaction (`Settle`, or `SettleRefused` where it returns False).  Where the
bullets are is decided when a chamber is reached.  A message that cannot be
edited keeps buttons that `match_action` refuses, and its new view is never
dispatched (`live`).  `Restart` drops everything in memory; `Recover` puts the
row back on the table, or refunds it when its message is gone.

### AppLock, Claims and Rewards

`AppLock` is the table of command locks: `Take`, `Release` (by the holder only)
and `Outlive`, after which the next command of the player takes the lock over. A
command awaits Discord and a connection of the pool before, between and after
its transactions, so the 180 s may be over at any of its steps (`CommandHangs`
in `Claims` and `Wanted`).  `overrun` is a history: the players whose lock was
taken from a command that still had database work to do.  In `Claims` a
transaction that locks the player's row is one step at its commit; what a
command reads before (the date, which `TakeTime` may take late, and for
/cooldowns the unlocked row) is kept in `call`.  `ReadHourlyBank` and
`RefreshHourlyBank` are the two halves of /cooldowns.  `Rewards` runs `Claims`
beside the tasks of `on_message`: `Arrive` and `Leave` are the reference count
of `locks.py`, with `lk` as the identity of a lock object, `Enter` the part
before the first await, `AwardExp` and `Flush` the two transactions, either of
which may fail (`FlushFails`) or commit with its reply lost (`AwardReplyLost`,
`FlushReplyLost`).  `VoiceRound` and `AwardVoice` are the voice task: the
members are those it finds at that moment.  Every reward is a coin and every
cooldown a tick.

### Wanted

Every command is one transaction at its commit, with the time it took when it
started, with two exceptions.  /rob: `LoadRobContext` reads both rows and gives
their locks back, `RobSucceeds` or `RobFails` applies the outcome to whatever
the rows have become.  `admin_unjail` (`admin_commands.py`): `ReadPrisoner` is a
plain read, `Unjail` frees the player whatever became of the row, clears debt
and stars only if asked to, and leaves the prison record open.  `open` counts
the open rows of `prison_records`; `pardoned` (stays that an administrator
ended), `robs`, `hunts`, `stolen` and `bounty` are histories.  Dice are choices.

### Lottery

Threads run the calls.  `Scan` opens the transaction's snapshot, `DrawRound` is
what happens under the lock of one round up to its commit, and sees the entries
of the snapshot in the first transaction and the current ones afterwards.  `Buy`
is the purchase transaction; it uses the day that its call read at the start.

## 3. Runs

| run | instance | distinct states | shows |
|---|---|---|---|
| StoreSafety | one duel of two players, one packet of 5 coins in 2 shares, 2 workers, recovery, TTL 1 | 385,671 | safety of the store and the refinement |
| StoreLive | one stake each, 1 worker, recovery, TTL 1 | 36,851 | what is decided or abandoned is settled |
| StoreOverdraw | as StoreSafety | | violated: section 6 |
| DuelSafety | full hands (4 citizens), bet 2, lost replies | 40,110 | safety of the duel |
| BlackjackSafety | two sessions, bet 2 and a side bet, ranks ace and ten, four cards are a full hand | 2,413,427 | safety of a game from the first bet to the rematch |
| RouletteSafety | 4 players, duel, elimination and rematch, 4 stakes, 1 restart | 1,543,569 | safety of a match, its row and its recovery |
| RouletteGhost | a duel of two among three, no restart | | violated: section 6 |
| RewardsSafety | 1 active player, 2 commands, 2 messages, one midnight, 4 events | 1,289,918 | safety of claims and chat |
| RewardsHourly | 1 active player, 2 commands, no messages | | violated: section 6 |
| WantedSafety | robber, victim, and an officer who is an administrator; 2 commands at once, 3 in all | 1,013,856 | safety of the wanted system |
| LotteryRounds | 2 buyers, 2 threads, 3 days, up to 2 tickets a purchase | 330,927 | safety of the lottery; due rounds are drawn |
| LotterySnapshot | as LotteryRounds | | violated: section 6 |

Why the bounds are enough.

* Store: transactions are serialised by the row lock of one session, so two
  workers and the recovery task give every order of prepare, apply and recovery
  on it; the two sessions share the balance of one player, who cannot afford
  everything. One result is enough, since a refund is the other outcome that two
  callers of `finish` may bring. A TTL of 1 has a live, an expired and a renewed
  deadline. Five coins in two shares is the smallest packet where the cap of 40
  % and "a coin for each later share" differ.
* Duel: the hands are the real ones; one duel is enough because duels share
  nothing but purses. The bet is 2 because a bet of 1 hides halves. Opponent b
  can pay twice, so that the second charge after a lost reply happens.
* Blackjack: an ace and a ten give naturals, pairs, splits, busts and soft
  hands; `Most` = 4 instead of 5 cards lets full hands happen with these ranks.
  Seven coins pay the first game and one extra stake, and refuse another. Two
  sessions: a lost reply of the first debit, or a rematch (`MaxBet`), starts the
  second.
* Roulette: four players are the fewest with an elimination that is not the last
  after a leaver; `Chambers` = 2 empties the cylinder between shots. Four
  charges (`MaxBets`) are all four entries, or fewer and raises. One restart
  (`MaxRestarts`) may come anywhere, also inside a settlement, and the recovered
  match goes on. The first save may come at any moment of all this.
* Rewards: a tick is an hour, and in RewardsSafety also a day (`DayLen` = 1), so
  that one tick is the midnight that claims race for; RewardsHourly has two
  ticks, for an hour to be saved, and paid and put back. `MaxEvents` counts
  commands, messages and voice rounds together: a race needs two of them and one
  before to set it up. Two messages are one inside and one waiting; three tasks
  on one lock are covered by the proof.
* Wanted: `MaxCommands` = 3 is a robbery and two commands that meet it half-way
  or follow it: a capture, a prison, a pardon, another robbery; two robberies of
  up to two coins fill the record (`LootKept`). Longer histories are covered by
  the proof.
* Lottery: three days let one call find two due rounds, one in the snapshot's
  transaction and one after it. Each buyer can pay one ticket, and who has won
  can pay two. `LastDay` is the only bound that stops the model (`Midnight`);
  the bot's calendar goes on.

`CHECK_DEADLOCK FALSE` is used where the model really stops: a settled duel or
blackjack game or a finished match has no further step, and `Rewards` and
`Wanted` stop when their events and their clock are used up.

No instance assumes an order that the code leaves open: locks run out, replies
are lost and the first save of a match commits at any moment, within the bounds
above.

## 4. Properties

Each is stated in its module beside a comment that names the code.  The central
ones:

* `PaidExactlyOnce`, `ReceiptsAgree`, `DecidedIsFrozen`: however often `finish`
  is called, by whom, with what, the first saved outcome is paid once and every
  caller is told the same.
* `RefundMakesWhole`, `MoneyConserved`, `ChargedOncePerEvent`: debits, claims and
  refunds account for every coin.
* `PacketServesEveryShare`: as long as shares are left, each can have a coin.
* `RecoverySparesLiveGames`: the recovery task never decides a session whose
  deadline was extended after its scan.
* `CoinsAccountedFor`, `ShownIsPaid`, `TimeoutKeepsResult`, `SplitIsAllOrEven`,
  `ResultNeedsBothGames`, `HandsLastLongEnough`: the duel.
* `StakesCoverTheHands`, `ToldIsPaid`, `ExpIsEarned`, `NoMoveAfterReveal`:
  blackjack.  No hand plays for coins that were not charged, the last message
  is true, experience comes from paid results only and, but for naturals, once,
  and a failed settlement reopens nothing.
* `RowIsBacked`, `EliminatedStayOut`, `GunOutlastsPlayers`: roulette.  What a
  recovery would pay is still out and a restart revives nobody, unless the first
  save was overtaken and wrote its old payload; the gun cannot run empty, in
  whichever order.  `RowAlwaysBacked` is the first without the exception, and
  does not hold.
* `OncePerDayUnderLock`, `ChatIsExact`: claims at midnight, and the counts of
  chat across the await of the database.  `DailyOncePerDay` is the first for
  players whose lock was handed on at work as well, and does not hold.
* `RolesKeptUnderLock`, `PrisonBooksAgree`, `LootIsPaidOnce`: the wanted system,
  with the context of /rob read long before its outcome is applied.  The open
  records are the present stay and those an administrator ended.  `RolesAreKept`
  is the first without the lock, and does not hold.
* `PoolIsPaidOnce`, `PurseAndPools`, `ClosedIsFinal`: the lottery.

### Liveness and fairness

Store: every open transaction ends (the database and connections have
timeouts), time passes, the recovery task loops, and its steps do not fail
every time for ever (strong fairness of the steps that succeed).  Nothing is
assumed of players, callbacks or restarts; a bot that restarts for ever between
two passes of the task settles nothing, and strong fairness excludes just that.
Lottery: the thread of the draw task (`Task`) goes on from call to call, its
calls end, and do not fail for ever; nothing is assumed of the other threads.
No liveness is claimed for the others: the stakes of a duel or of blackjack come
back by the recovery task, which is what the store's liveness says, and a
roulette match whose view died waits for a restart.

## 5. Proofs

Proved for all values of the constants that satisfy the named assumptions of
the modules.  Every safety invariant and every action property that a passing
run checks is a theorem, and so is the refinement; each runs over an inductive
invariant that stands at the end of its module and that TLC has checked on the
instance of the module's safety run.  The assumptions are those of the code:
finite sets of users, sessions and messages, natural balances, positive bets,
deadlines and prices, packets with at least a coin for each share, and names
that do not collide (`KeysAssumption`: the keys of a settlement that are no
player; `EventsAssumption`: the key of an event names one request, as
the id of an interaction does).

`EscrowStoreProofs`: `IInv` is inductive. `PaidExactlyOnce` alone is not: a
worker between prepare and apply pays the intent it finds, so the invariant must
say that such a worker's session has one (`PayersHaveIntent`), that a session
with an open transaction was not decided meanwhile (`LocksUndecided`; this is
the row lock at work) and that, before it is settled, the escrow is what was
staked less what was taken (`Accounts`). From it follow `Types` (no stake, share
or payout is negative; a balance may be), `PaymentIsExact`, `RefundIsWhole`,
`Agreement`, `DecisionIsFinal`, `LiveGamesAreSpared`, and `Refinement`: every
step of the store is a step of `WagerPromise` or none. A second invariant,
`SumsInv`, stands on the first and is about amounts: what a transaction found
under the row lock (an event that is new, a packet that is open, a user without
a share) is still so when it commits (`JobsInv`), and a packet is charged once,
before it is claimed (`RowsInv`). Its theorems are `ChargesAreExact`,
`PacketsServeEveryShare` and `MoneyIsConserved`.

`SumTheorems`: a sum of the community module `Functions` is a fold over a set,
and the fold is a recursive function.  Induction over the subsets of a finite
set is obtained from the library's well-foundedness of the strict subset
relation, used as a fact about sets (`SubsetInduction`); with it the sum is well
defined, and the change of one summand changes the sum by the difference
(`SumChanges`), which is what a debit or a payment does.

`DuelProofs`: `DInv` is inductive, for any bet and any number of citizens, with
or without lost replies. What was charged is in the pot until it is paid
(`MoneyInv`); the points after the first game and after both are known
(`ScoresInv`), which makes the division of the pot exact for every bet; a card
that is picked is still in the hand (`PicksInv`); and each await of a handler
has facts that the recovery task cannot take from it (`ViewsInv`): what is
decided stays so, and only a match without a result is refunded by its view.
From it follow `DuelCoinsAccountedFor`, `DuelShownIsPaid`,
`DuelSplitIsAllOrEven`, `DuelTimeoutKeepsResult`, `DuelHandsLastLongEnough`,
`DuelResultNeedsBothGames`, `DuelTypes`, and `DuelKeepsPromise`: the steps of
the duel are steps of `WagerPromise`, so what it asks of the store is what
`EscrowStore` was shown to offer.

`BlackjackProofs`: `BInv` is inductive, for any stakes, ranks and sessions
(whose numbers are positive; 0 is no session). That the hands are covered rests
on two comparisons: the pot of an undecided session is all that was charged
(`Accounts`), and the view's `deducted`, which a lost reply leaves behind, is at
most that and at least what lies on the table (`GameIsCovered`). The first bet
is the smallest of a hand, which is why a split may take it again. That the last
message is true needs to know who decided: a result pays what the view remembers
(`ResultIsKept`), a refund pays the charge. While a game runs its experience is
zero and no new stake is offered, so nothing moves after the reveal; and only a
natural has a second end beside the running one (`OneRunner`), so the experience
of any other game comes once. What a hand scores is left open, since the score
is a fold over a sequence; only that profits are whole numbers is used. From it
follow `HandsAreCovered`, `ToldStaysTrue`, `ExpIsForResults` and
`RevealIsFinal`. `BlackjackTypes` needs three facts more: a hand that may still
draw has fewer than `Most` cards (`CardsFit`), debits and credits that would
leave a debt are refused (`NobodyOwes`), and the buttons are those of the view
(`ViewType`). `BlackjackKeepsPromise` says of blackjack what `DuelKeepsPromise`
says of the duel.

`RouletteProofs`: `RInv` is inductive, for any number of players, chambers, bets
and restarts, and whenever the first save is committed. The same invariant holds
of the match in memory, of the saved row and of the payload that is being saved
(`MatchInv`); a row is never one of a settled match (`RowInv`). As long as no
overtaken save wrote its payload, who was eliminated by a committed event is in
neither (`OutInv`), and what may still be paid back, from memory or from what is
written, is not more than what is out of the purses (`MoneyInv`); that a save is
overtaken only while it is under way, and never meets a recovery of its match,
is `OrderInv`. From it follow `RouletteRowIsBacked`,
`RouletteEliminatedStayOut`, `RouletteTypes` and `RouletteGunOutlasts`. The last
means that `ensure_chambers_for_royale` (`russian_roulette.py:160`) never has to
reload: the gun is loaded for all but one of the players, and a restart brings
back one that is.

`LotteryProofs`: `LInv` is inductive.  That no pool is lost needs more than the
lock of the round, since the draw chooses from an older snapshot: the round's
row and its first entry are committed together (`RowsAreSold`), so a round that
is in a call's list has an entry in that call's snapshot (`ListsAreSold`).  From
it follow `LotteryTypes`, `PoolsArePaid` and `ClosedStays`, and with sums
`MoneyStaysInPlay`.

`WantedProofs`: `WInv` is inductive, for any players, any number of commands and
any time, with locks that run out anywhere. Two thoughts carry it. A command at
its database work holds its player's lock, or the player is in `overrun`
(`LocksGuard`); so for the others nobody changes the robber's role between the
two transactions of /rob, although a victim may imprison the robber, an officer
hunt them or an administrator free them. And for each player, what can still be
hunted (`Unhunted`) and what is still remembered as loot (`Total`) are counted
against what was robbed, and the open records against the present stay and the
pardons (`Sound`): every command moves from one to the other or forgets. The sum
of the loot is the cardinality of its coins, since a sum over a sequence is
beyond the prover. From it follow `RolesKept`, `PrisonIsBooked` and
`LootPaysOnce`; with the times of rows and commands (`StampsFit`) `WantedTypes`.

`RewardsProofs`: `RewardsInv` is inductive, for any number of commands and
messages. `DailyInv`: a running command holds its player's lock, and the day a
/daily took is not older than the last that was paid, unless the player is in
`overrun` (`CallsHoldLocks`); it fails as soon as two commands of a player work
at once. `ChatInv`: the entry of a lock has as many users as there are tasks of
the player and all of them use the same lock (`EntriesOutlive`), so one is
inside, and it carries the pending count (`TasksAreCurrent`); an experience that
a failed task committed and did not note allows one early award (`Unnoted`).
From it follow `DayPaidOnce` and `ChatStaysExact`; with the rows and times
(`RowsFit`) `RewardsTypes`, by which the bank of /hourly never holds more than
the level allows, also when /cooldowns writes back what it read long ago.

Only model-checked: the liveness properties (`DecidedGetsPaid`,
`OrphansGetRefunded`, `AbandonedGetsRefunded`, `DueIsDrawn`), which like
`ENABLED` are out of the prover's reach. The properties that do not hold
(section 6) have of course no theorem. What a hand of blackjack scores is
evaluated by TLC only.

## 6. Findings

Violated properties that have a run:

* **A balance may be overdrawn.**  `debit` locks the row of the user
  (`state_repo.py:78`) but compares the stake with a balance of the snapshot it
  opened before it waited (`:73`, `:79`).  Run `StoreOverdraw`: two debits of one
  player in two sessions both find enough.
* **A settled match may come back.**  `persist` says that saving after the
  settlement would leave a ghost match (`russian_roulette.py:262`) and tests
  `settled` before its await.  Run `RouletteGhost`: the creator's save, outside
  the match's lock, is under way while the match is accepted, played and
  settled; then it commits, and the row is back with its stakes.  It takes a
  save that is slower than a whole match.
* **A ticket may miss its draw.**  The entries are read in a snapshot older than
  the lock of the round.  Run `LotterySnapshot`: a purchase that began before
  midnight commits after the draw's first read; its coins are in the pool, its
  ticket is not.
* **Hours may be paid twice.**  /cooldowns reads the saved hours without a lock
  and writes them back (`economy_repo.py:101` and `:117`); it is a query, so the
  player's lock does not keep it from running beside /hourly.  Run
  `RewardsHourly`: /hourly pays between the read and the write, and the hours
  are back in the bank.

Stated in the modules, violated on the instance named, and without a run of
their own, since a property of that instance says what is left of them:

* **A natural may give its experience twice** (`ExpIsEarnedOnce`, instance of
  BlackjackSafety).  `check_auto_bj` settles without the action lock, and a press
  during the settlement is let through, since the pending settlement is tested
  before `_auto_settling` (`commands/blackjack.py:323`, `:335`); `on_timeout` does
  not look at it at all.  The money is paid once (`ToldIsPaid`), and no other
  game earns twice (`ExpIsEarned`).
* **A day may be paid twice** (`DailyOncePerDay`, RewardsSafety).  /daily takes
  the date, may wait longer than the 180 s of its lock, and pays whenever the
  last day is another one (`economy_repo.py:186`), also a later one.  What is left
  is `OncePerDayUnderLock`.
* **A robber may be wanted in another role** (`RolesAreKept`, WantedSafety).  Past
  180 s the lock of a /rob that awaits Discord between its transactions is handed
  on, the player chooses another role, and the second transaction gives the star
  without looking at the role (`rob_repo.py:131`).  What is left is
  `RolesKeptUnderLock`.
* **A decided duel may be refunded** (`DecidedDuelIsPaid`, DuelSafety).  If
  `prepare` fails when the result is to be saved, only the view remembers the
  result; the deadline of the session turns it into a refund, although
  MAINTENANCE.md:85 says that a failed settlement is not turned into a refund by
  a timeout.  What is left is `TimeoutKeepsResult`: the view itself refunds
  nothing.

Seen while modelling, and not stated as a property:

* `admin_unjail` ends a stay and leaves its prison record open, and by default
  the debt (`admin_commands.py:545`): `PrisonBooksAgree` counts those stays
  (`pardoned`).
* A refund of a match whose row was never saved: the message says that the
  stakes were returned, while `settle_event_sync` returned False and nothing was
  (`told` in the model; no property is stated).
* After a failed settlement blackjack asks the player to press a button again
  (`blackjack.py:454`), but `resolve_dealer` has shown a message without enabled
  ones; only an old message or the timeout retries (`RetryClick`, `OnTimeout`).
* /rob does not look again at certificate and protection when it applies its
  outcome; a certificate bought in between does not help.
* After a lost reply to the accept debit of a duel the button is still there,
  the second click is a second event, and the second stake is not part of the
  shares if the duel is played to its end (`CoinsAccountedFor` counts it; the
  limitation is acknowledged in MAINTENANCE.md:70).  The same holds for the
  extra stakes of blackjack (`ToldIsPaid`).

## 7. Plan

Done: the store with its promise, duel, blackjack, roulette, lottery, claims,
chat and voice, the wanted system, the command lock; and the proofs of every
safety property that their runs check.  Left, in order:

1. Proofs: the hands of a duel and the pools of a draw as lemmas about the
   operators alone, and the proofs of the modules below as they are written.
2. `RedPacket`: the view over the store's packet, with its timeout that fails.
3. The busy list of roulette over several matches.
4. Invalidation of the caches against a fetch in flight; replay of a statement by
   the pool.

## 8. Not modelled

Formatting, embeds and display commands; the relay of support messages (a
sequence of sends with an audit row before each); settings (one upsert each);
the admin commands other than `admin_unjail`, which are transactions of their
own on a balance, on levels or on the blacklist; schema set-up and migrations;
Discord itself and MySQL, of which only commits, row locks, snapshots, rollbacks
and lost replies appear. The snapshot caches hold values for display only.
DBUtils may repeat a single statement on a new connection; the models'
transactions are all or nothing. Level arithmetic, win and loss statistics
(`game_repo.py`, `rr_repo.py`, the statistics that `apply` writes together with
the credits) and /coinflip are left out, as are the amounts of rewards: they are
one coin.  The view of a red packet is left out, its session is not.  The busy
list of roulette players concerns several matches, the model has one.  The
fallback paths of the duel, blackjack and the packet without a store (`store is
None`) are left out: the bot always creates one.
