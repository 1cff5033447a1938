------------------------------- MODULE Wanted -------------------------------
(***************************************************************************)
(* Robbers, police and good citizens (bot_modules/commands/wanted.py,      *)
(* rob_repo.py, wanted_repo.py, choose_role_sync and                       *)
(* toggle_good_citizen_sync of domain_sync.py) and the administrator who   *)
(* frees a player (admin_unjail of admin_commands.py), under the lock of   *)
(* the slash commands.                                                     *)
(*                                                                         *)
(* Every command takes the time as it starts and is one transaction that   *)
(* locks the rows it reads, but for /rob: it reads both rows, gives the    *)
(* locks back, judges what it read and applies the outcome in a second     *)
(* transaction, which looks at the balance of the victim only; and for     *)
(* admin_unjail, which reads without a lock whether the player is in       *)
(* prison.  Any await may outlive the lock of its command.                 *)
(*                                                                         *)
(* Every fee is one coin, and one coin is what a player needs to rob or be *)
(* robbed.  Time is counted in ticks, and every cooldown is one tick.  The *)
(* dice are choices: whether a robbery succeeds, how much it takes,        *)
(* whether the victim strikes back, whether the hunted is caught.          *)
(***************************************************************************)
EXTENDS AppLock, Integers, Sequences, FiniteSets

CONSTANTS
    Initial,        \* the balances at the beginning
    FirstRole,      \* the roles at the beginning
    MaxSteal,       \* the cap of a robbery
    MaxStars,       \* 5 in the code
    LootKept,       \* last_five_robs: how many robberies are remembered
    Admins,         \* is_slash_host: the users who may free a player
    Players,        \* bound of the model: the users who do something
    MaxTime,        \* bound of the model: the clock stops here
    MaxCommands     \* bound of the model: how many commands there are

Roles == {"cop", "criminal", "civilian"}

ASSUME InitialAssumption == Initial \in [Users -> Nat] /\ FirstRole \in [Users -> Roles]
ASSUME SizesAssumption == {MaxSteal, MaxStars, LootKept} \subseteq Nat \ {0}
ASSUME PlayersAssumption == Players \subseteq Users /\ Admins \subseteq Users
ASSUME BoundsAssumption == {MaxTime, MaxCommands} \subseteq Nat

VARIABLES
    clock,      \* now_tw_naive, in ticks
    begun,      \* how many commands were started
    users,      \* the columns of the table users that these commands use
    open,       \* prison_records: the rows of each player without released_at
    call,       \* what each running command is doing
    robs,       \* ghost: successful robberies of each player
    hunts,      \* wanted_log: the hunts each player was the prey of
    stolen,     \* ghost: the coins each player has robbed
    pardoned,   \* ghost: how often an administrator freed each player
    bounty      \* ghost: what the police were paid for catching each player

books == <<robs, hunts, stolen, bounty>>
vars == <<clock, begun, users, open, call, lockVars, pardoned, books>>

Never == -1
Time == 0 .. MaxTime

Lesser(x, y) == IF x <= y THEN x ELSE y
Greater(x, y) == IF x >= y THEN x ELSE y

UserRow == [
    balance: Nat,
    role: Roles,
    wanted_stars: 0 .. MaxStars,
    wanted_hunted: BOOLEAN,
    loot: Seq(1 .. MaxSteal),
    in_prison: BOOLEAN,
    bail_debt: Nat,
    cert: BOOLEAN,
    cert_action: Time \union {Never},
    broken_until: Time \union {Never, MaxTime + 1},
    last_rob: Time \union {Never},
    last_robbed: Time \union {Never},
    last_role_change: Time \union {Never},
    last_buyout: Time \union {Never}]

Command(u) ==
    [cmd: {"rob", "cop_hunt", "break_citizen"}, target: Users \ {u}]
    \union [cmd: {"role_choose"}, role: Roles]
    \union [cmd: {"wanted_buyout", "good_citizen", "bail"}]
    \union (IF u \in Admins
            THEN [cmd: {"admin_unjail"}, target: Users, debt: BOOLEAN, wanted: BOOLEAN]
            ELSE {})

Idle == [at |-> "idle"]
Running(u, job) == [at |-> "running", user |-> u, job |-> job, now |-> clock]
Aiming(u, t) == [at |-> "aiming", user |-> u, target |-> t, now |-> clock]
Unjailing(u, job) == [at |-> "unjailing", user |-> u, job |-> job]
Replying(u) == [at |-> "replying", user |-> u]

Init ==
    /\ clock = 0 /\ begun = 0
    /\ users = [u \in Users |->
         [balance |-> Initial[u], role |-> FirstRole[u], wanted_stars |-> 0,
          wanted_hunted |-> FALSE, loot |-> <<>>, in_prison |-> FALSE, bail_debt |-> 0,
          cert |-> FALSE, cert_action |-> Never, broken_until |-> Never,
          last_rob |-> Never, last_robbed |-> Never, last_role_change |-> Never,
          last_buyout |-> Never]]
    /\ open = [u \in Users |-> 0]
    /\ call = [c \in Calls |-> Idle]
    /\ robs = [u \in Users |-> 0]
    /\ hunts = [u \in Users |-> 0]
    /\ stolen = [u \in Users |-> 0]
    /\ pardoned = [u \in Users |-> 0]
    /\ bounty = [u \in Users |-> 0]
    /\ LockInit

\* The commands that have database work to do.
Working == {c \in Calls : call[c].at \in {"running", "aiming", "unjailing"}}

Start(c, u, job) ==
    /\ call[c] = Idle
    /\ begun < MaxCommands
    /\ begun' = begun + 1
    /\ Admits(u) /\ Take(u, c, Working)
    /\ call' = [call EXCEPT ![c] = Running(u, job)]
    /\ UNCHANGED <<clock, users, open, pardoned, books>>

Runs(c, cmd) == call[c].at = "running" /\ call[c].job.cmd = cmd

\* The database work of command c is over.
Answers(c) ==
    /\ call' = [call EXCEPT ![c] = Replying(call[c].user)]
    /\ UNCHANGED <<clock, begun, lockVars>>

\* It is over and changed nothing.
Refused(c) == Answers(c) /\ UNCHANGED <<users, open, pardoned, books>>

\* It is over and changed the row of its player.
Becomes(c, row) ==
    /\ users' = [users EXCEPT ![call[c].user] = row]
    /\ Answers(c)
    /\ UNCHANGED <<open, pardoned, books>>

Rested(last, now) == last = Never \/ now > last

-------------------------------------------------------------------------------
(* /rob                                                                    *)

\* What the rows say when /rob reads them.
MayRob(u, t) ==
    /\ ~users[u].in_prison /\ users[u].role = "criminal"
    /\ Rested(users[u].last_rob, clock)
    /\ users[u].balance >= 1 /\ users[t].balance >= 1
    /\ ~users[t].cert
    /\ Rested(users[t].last_robbed, clock)

LoadRobContext(c) ==
    /\ Runs(c, "rob")
    /\ LET u == call[c].user
           t == call[c].job.target
       IN  \/ ~MayRob(u, t) /\ Refused(c)
           \/ /\ MayRob(u, t)
              /\ call' = [call EXCEPT ![c] = Aiming(u, t)]
              /\ UNCHANGED <<clock, begun, users, open, lockVars, pardoned, books>>

\* append_rob_history_on_cursor: the last robberies are remembered.
Remember(loot, s) ==
    LET history == Append(loot, s)
    IN  SubSeq(history, Greater(1, Len(history) - LootKept + 1), Len(history))

\* The robber's row with the loot, its star and the record of the robbery.
LootedRow(row, s, now) ==
    [row EXCEPT
        !.balance = @ + s,
        !.last_rob = now,
        !.wanted_stars = Lesser(MaxStars, @ + 1),
        !.wanted_hunted = FALSE,
        !.loot = Remember(@, s)]

\* Mutant: the greater of the two is paid.
PaysMutant(row, s) == Greater(2 * s, row.balance)

\* A victim who strikes back takes the double; the robber pays what is there.
Pays(row, s) == Lesser(2 * s, row.balance)

\* Mutant: whoever is left without a coin is sent to prison, again if need be.
JailsMutant(row) == row.balance = 0

\* A robber left without a coin goes to prison, unless already there.
Jails(row) == row.balance = 0 /\ ~row.in_prison

StruckRow(row, s) ==
    [row EXCEPT !.balance = @ - Pays(row, s), !.bail_debt = @ + 2 * s - Pays(row, s)]

\* u robs t of s coins; a civilian may strike back.
Steal(u, t, s, now) ==
    LET victim == [users[t] EXCEPT !.balance = @ - s, !.last_robbed = now]
        robber == LootedRow(users[u], s, now)
        struck == StruckRow(robber, s)
    IN  /\ \/ /\ users' = [users EXCEPT ![t] = victim, ![u] = robber]
              /\ UNCHANGED open
           \/ /\ users[t].role = "civilian"
              /\ users' = [users EXCEPT
                    ![t] = [victim EXCEPT !.balance = @ + 2 * s],
                    ![u] = [struck EXCEPT !.in_prison = @ \/ Jails(struck)]]
              /\ open' = [open EXCEPT ![u] = IF Jails(struck) THEN @ + 1 ELSE @]
        /\ robs' = [robs EXCEPT ![u] = @ + 1]
        /\ stolen' = [stolen EXCEPT ![u] = @ + s]
        /\ UNCHANGED <<hunts, bounty>>

\* A victim who has no coin any more has hidden the money in time.
RobSucceeds(c) ==
    /\ call[c].at = "aiming"
    /\ LET u == call[c].user
           t == call[c].target
           most == Greater(1, Lesser(users[t].balance, MaxSteal))
       IN  \E s \in 1 .. most :
             \/ /\ users[t].balance < s
                /\ users' = [users EXCEPT ![u].last_rob = call[c].now]
                /\ UNCHANGED <<open, books>>
             \/ users[t].balance >= s /\ Steal(u, t, s, call[c].now)
    /\ Answers(c)
    /\ UNCHANGED pardoned

\* The penalty is a coin, if the robber still has one.
Penalize(u, t, now) ==
    LET paid == Lesser(1, users[u].balance)
    IN  /\ users' = [users EXCEPT ![u].last_rob = now, ![u].balance = @ - paid,
                                  ![t].balance = @ + paid]
        /\ UNCHANGED <<open, books>>

RobFails(c) ==
    /\ call[c].at = "aiming"
    /\ Penalize(call[c].user, call[c].target, call[c].now)
    /\ Answers(c)
    /\ UNCHANGED pardoned

-------------------------------------------------------------------------------
(* /role_choose, /cop_hunt                                                 *)

MayChoose(row, role, now) ==
    /\ role # row.role => ~row.cert /\ Rested(row.last_role_change, now)
    /\ ~(role = "civilian" /\ row.role = "civilian")
    /\ ~(row.role = "criminal" /\ row.wanted_stars > 0 /\ role # "criminal")

ChosenRow(row, role, now) ==
    LET new == [row EXCEPT !.role = role, !.last_role_change = now]
    IN  IF role = "criminal" THEN new
        ELSE [new EXCEPT !.wanted_stars = 0, !.wanted_hunted = FALSE, !.loot = <<>>]

ChooseRole(c) ==
    /\ Runs(c, "role_choose")
    /\ LET u == call[c].user
           role == call[c].job.role
           now == call[c].now
       IN  \/ ~MayChoose(users[u], role, now) /\ Refused(c)
           \/ MayChoose(users[u], role, now) /\ Becomes(c, ChosenRow(users[u], role, now))

\* Mutant: a prey that got away may be hunted again.
MayHuntMutant(u, t) ==
    /\ users[u].role = "cop" /\ users[u].balance >= 1
    /\ ~users[t].in_prison /\ users[t].wanted_stars > 0

MayHunt(u, t) ==
    /\ users[u].role = "cop" /\ users[u].balance >= 1
    /\ ~users[t].in_prison /\ users[t].wanted_stars > 0
    /\ ~users[t].wanted_hunted

\* The sum of the robberies, as the number of their coins: coin n of robbery i.
Coins(loot) == {c \in (1 .. Len(loot)) \X (1 .. MaxSteal) : c[2] <= loot[c[1]]}

Total(loot) == Cardinality(Coins(loot))

\* 60 % of the loot is confiscated; what is not there is owed for the bail.
CaughtRow(row) ==
    LET due == (6 * Total(row.loot)) \div 10
        got == Lesser(due, row.balance)
    IN  [row EXCEPT !.balance = @ - got, !.bail_debt = @ + due - got, !.in_prison = TRUE,
                    !.wanted_stars = 0, !.wanted_hunted = FALSE, !.loot = <<>>]

CopHunt(c) ==
    /\ Runs(c, "cop_hunt")
    /\ LET u == call[c].user
           t == call[c].job.target
           reward == Total(users[t].loot)
       IN  \/ ~MayHunt(u, t) /\ Refused(c)
           \/ /\ MayHunt(u, t)
              /\ hunts' = [hunts EXCEPT ![t] = @ + 1]
              /\ \/ /\ users' = [users EXCEPT ![u].balance = @ - 1, ![t].wanted_hunted = TRUE]
                    /\ UNCHANGED <<open, bounty>>
                 \/ /\ users' = [users EXCEPT ![u].balance = @ - 1 + reward,
                                              ![t] = CaughtRow(@)]
                    /\ open' = [open EXCEPT ![t] = @ + 1]
                    /\ bounty' = [bounty EXCEPT ![t] = @ + reward]
              /\ Answers(c)
              /\ UNCHANGED <<robs, stolen, pardoned>>

-------------------------------------------------------------------------------
(* /wanted_buyout, /bail, /good_citizen, /break_citizen                    *)

MayBuyOut(row, now) ==
    /\ row.role = "criminal" /\ ~row.in_prison /\ row.wanted_stars > 0
    /\ row.balance >= 1 /\ Rested(row.last_buyout, now)

BoughtOutRow(row, now) ==
    [row EXCEPT !.balance = @ - 1, !.wanted_stars = 0, !.wanted_hunted = FALSE, !.loot = <<>>,
                !.last_buyout = now]

WantedBuyout(c) ==
    /\ Runs(c, "wanted_buyout")
    /\ LET row == users[call[c].user]
           now == call[c].now
       IN  \/ ~MayBuyOut(row, now) /\ Refused(c)
           \/ MayBuyOut(row, now) /\ Becomes(c, BoughtOutRow(row, now))

\* The bail is a coin and the debt.
Bail(row) == 1 + row.bail_debt

MayBail(row) == row.in_prison /\ row.balance >= Bail(row)

\* It closes the last open record.
PayBail(c) ==
    /\ Runs(c, "bail")
    /\ LET u == call[c].user
           row == users[u]
       IN  \/ ~MayBail(row) /\ Refused(c)
           \/ /\ MayBail(row)
              /\ users' = [users EXCEPT ![u] = [row EXCEPT !.balance = @ - Bail(row),
                                                           !.bail_debt = 0, !.in_prison = FALSE]]
              /\ open' = [open EXCEPT ![u] = Greater(0, @ - 1)]
              /\ Answers(c)
              /\ UNCHANGED <<pardoned, books>>

MayToggle(row, now) ==
    /\ row.role = "civilian" /\ row.balance >= 1
    /\ row.cert \/ row.broken_until = Never \/ now >= row.broken_until
    /\ Rested(row.cert_action, now)

ToggledRow(row, now) == [row EXCEPT !.balance = @ - 1, !.cert = ~@, !.cert_action = now]

ToggleGoodCitizen(c) ==
    /\ Runs(c, "good_citizen")
    /\ LET row == users[call[c].user]
           now == call[c].now
       IN  \/ ~MayToggle(row, now) /\ Refused(c)
           \/ MayToggle(row, now) /\ Becomes(c, ToggledRow(row, now))

MayBreak(u, t) == users[u].balance >= 1 /\ users[t].cert

BrokenRow(row, now) ==
    [row EXCEPT !.cert = FALSE, !.broken_until = now + 1, !.cert_action = now]

BreakCitizen(c) ==
    /\ Runs(c, "break_citizen")
    /\ LET u == call[c].user
           t == call[c].job.target
       IN  \/ ~MayBreak(u, t) /\ Refused(c)
           \/ /\ MayBreak(u, t)
              /\ users' = [users EXCEPT ![u].balance = @ - 1,
                                        ![t] = BrokenRow(@, call[c].now)]
              /\ Answers(c)
              /\ UNCHANGED <<open, pardoned, books>>

-------------------------------------------------------------------------------
(* admin_unjail                                                            *)

\* The row is read without a lock ...
ReadPrisoner(c) ==
    /\ Runs(c, "admin_unjail")
    /\ LET in_prison == users[call[c].job.target].in_prison
       IN  \/ ~in_prison /\ Refused(c)
           \/ /\ in_prison
              /\ call' = [call EXCEPT ![c] = Unjailing(call[c].user, call[c].job)]
              /\ UNCHANGED <<clock, begun, users, open, lockVars, pardoned, books>>

FreedRow(row, debt, wanted) ==
    [row EXCEPT !.in_prison = FALSE,
                !.bail_debt = IF debt THEN 0 ELSE @,
                !.wanted_stars = IF wanted THEN 0 ELSE @,
                !.wanted_hunted = IF wanted THEN FALSE ELSE @]

\* ... and updated whatever became of it; the record stays open.
Unjail(c) ==
    /\ call[c].at = "unjailing"
    /\ LET t == call[c].job.target
       IN  /\ users' = [users EXCEPT ![t] = FreedRow(@, call[c].job.debt, call[c].job.wanted)]
           /\ pardoned' = [pardoned EXCEPT ![t] = IF users[t].in_prison THEN @ + 1 ELSE @]
    /\ Answers(c)
    /\ UNCHANGED <<open, books>>

-------------------------------------------------------------------------------

\* A transaction rolls back and the command raises.
FailCommand(c) ==
    /\ c \in Working
    /\ Refused(c)

EndCommand(c) ==
    /\ call[c].at = "replying"
    /\ Release(call[c].user, c)
    /\ call' = [call EXCEPT ![c] = Idle]
    /\ UNCHANGED <<clock, begun, users, open, pardoned, books>>

\* An await takes so long that the 180 s run out: for Discord, which /rob also
\* awaits between its transactions (wanted.py:153), for a connection, for a
\* row, or for the answer to be sent.
CommandHangs(u) ==
    /\ Outlive(u)
    /\ UNCHANGED <<clock, begun, users, open, call, pardoned, books>>

Tick ==
    /\ clock < MaxTime
    /\ clock' = clock + 1
    /\ UNCHANGED <<begun, users, open, call, lockVars, pardoned, books>>

Next ==
    \/ \E c \in Calls :
        \/ \E u \in Players : \E job \in Command(u) : Start(c, u, job)
        \/ LoadRobContext(c)
        \/ RobSucceeds(c)
        \/ RobFails(c)
        \/ ChooseRole(c)
        \/ CopHunt(c)
        \/ WantedBuyout(c)
        \/ PayBail(c)
        \/ ToggleGoodCitizen(c)
        \/ BreakCitizen(c)
        \/ ReadPrisoner(c)
        \/ Unjail(c)
        \/ FailCommand(c)
        \/ EndCommand(c)
    \/ \E u \in Players : CommandHangs(u)
    \/ Tick

Spec == Init /\ [][Next]_vars

-------------------------------------------------------------------------------

CallType(d) ==
    \/ d = Idle
    \/ d.at = "running" /\ d.user \in Users /\ d.now \in Time /\ d.job \in Command(d.user)
    \/ d.at = "aiming" /\ {d.user, d.target} \subseteq Users /\ d.now \in Time
    \/ d.at = "unjailing" /\ d.user \in Users /\ d.job \in Command(d.user)
       /\ d.job.cmd = "admin_unjail"
    \/ d.at = "replying" /\ d.user \in Users

TypeOK ==
    /\ clock \in Time
    /\ begun \in 0 .. MaxCommands
    /\ users \in [Users -> UserRow]
    /\ {open, pardoned, robs, hunts, stolen, bounty} \subseteq [Users -> Nat]
    /\ lock \in LockType /\ overrun \subseteq Users
    /\ \A c \in Calls : CallType(call[c])

\* Only a robber is wanted - before becoming police or civilian the stars must
\* be gone (wanted.py:275) - and only a civilian holds a certificate.  /rob
\* judges the role in one transaction and gives the star in another, which
\* does not look at the role again.
RolesAreKept ==
    \A u \in Users :
        /\ users[u].wanted_stars > 0 => users[u].role = "criminal"
        /\ users[u].cert => users[u].role = "civilian"

\* What keeps a /role_choose of the robber from coming in between is the lock
\* of the commands, and release_lock, which lets only its holder give it back:
\* a player is wanted in another role only when that lock was handed on while
\* a command still had database work to do.
RolesKeptUnderLock ==
    \A u \in Users :
        /\ u \notin overrun /\ users[u].wanted_stars > 0 => users[u].role = "criminal"
        /\ users[u].cert => users[u].role = "civilian"

\* The open records of a player are the present stay in prison, whoever put
\* them there - a victim who struck back, the police, or both at the same time -
\* and the stays an administrator has ended, which nothing closes; a debt
\* without a prison, where /bail collects it, is one that was left by that.
PrisonBooksAgree ==
    \A u \in Users :
        /\ open[u] = (IF users[u].in_prison THEN 1 ELSE 0) + pardoned[u]
        /\ users[u].bail_debt > 0 => users[u].in_prison \/ pardoned[u] > 0

\* The police hunt once per successful robbery, and are paid for a coin that
\* was robbed once, across captures, buy-outs, bails and changes of role.
LootIsPaidOnce ==
    \A u \in Users : hunts[u] <= robs[u] /\ bounty[u] <= stolen[u]

-------------------------------------------------------------------------------
(* The inductive invariant (WantedProofs).                                 *)

Columns == {"balance", "role", "wanted_stars", "wanted_hunted", "loot", "in_prison",
            "bail_debt", "cert", "cert_action", "broken_until", "last_rob", "last_robbed",
            "last_role_change", "last_buyout"}

Row(row) ==
    /\ DOMAIN row = Columns
    /\ row.balance \in Nat /\ row.bail_debt \in Nat
    /\ row.wanted_stars \in 0 .. MaxStars
    /\ row.loot \in Seq(1 .. MaxSteal)
    /\ {row.wanted_hunted, row.in_prison, row.cert} \subseteq BOOLEAN

\* A hunt that the police still have.
Unhunted(row) == IF row.wanted_stars > 0 /\ ~row.wanted_hunted THEN 1 ELSE 0

\* The row of a player, with n open records, q pardons, r robberies, h hunts,
\* s coins robbed and b paid to the police: what could still be hunted and
\* paid was robbed and not paid before.
Sound(row, n, q, r, h, s, b) ==
    /\ Row(row)
    /\ row.cert => row.role = "civilian"
    /\ n = (IF row.in_prison THEN 1 ELSE 0) + q
    /\ row.bail_debt > 0 => row.in_prison \/ q > 0
    /\ h + Unhunted(row) <= r
    /\ b + Total(row.loot) <= s

RowsAreSound ==
    \A u \in Users :
        Sound(users[u], open[u], pardoned[u], robs[u], hunts[u], stolen[u], bounty[u])

Tables ==
    /\ DOMAIN users = Users /\ DOMAIN call = Calls
    /\ {open, pardoned, robs, hunts, stolen, bounty} \subseteq [Users -> Nat]
    /\ lock \in LockType /\ overrun \subseteq Users

CallsAreSound ==
    \A c \in Calls :
        /\ c \in Working => call[c].user \in Users
        /\ call[c].at \in {"running", "unjailing"} => call[c].job \in Command(call[c].user)
        /\ call[c].at = "unjailing" => call[c].job.cmd = "admin_unjail"
        /\ call[c].at = "aiming" => call[c].target \in Users \ {call[c].user}

\* A command of a player whose lock was never handed on at work holds that
\* lock, fresh or stale, while it has database work to do; so whoever aims is
\* still a robber, and whoever is wanted.
LocksGuard ==
    /\ \A c \in Working : call[c].user \in overrun \/ lock[call[c].user].holder = c
    /\ \A c \in Calls : call[c].at = "aiming" /\ call[c].user \notin overrun =>
          users[call[c].user].role = "criminal"
    /\ \A u \in Users \ overrun : users[u].wanted_stars > 0 => users[u].role = "criminal"

WInv == Tables /\ RowsAreSound /\ CallsAreSound /\ LocksGuard

\* The columns that say what a player is and when something happened.
Stamped(row) ==
    /\ row = [f \in Columns |-> row[f]]
    /\ row.role \in Roles
    /\ {row.cert_action, row.last_rob, row.last_robbed, row.last_role_change,
        row.last_buyout} \subseteq Time \union {Never}
    /\ row.broken_until \in Time \union {Never, MaxTime + 1}

StampsFit ==
    /\ clock \in Time /\ begun \in 0 .. MaxCommands
    /\ users = [u \in Users |-> users[u]]
    /\ \A u \in Users : Stamped(users[u])
    /\ \A c \in Calls : CallType(call[c])
===============================================================================
