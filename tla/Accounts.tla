------------------------------ MODULE Accounts ------------------------------
(***************************************************************************)
(* Accounts and the login guard: the users file that all instances share   *)
(* and cache by its hash (utils/users_db.py), registration and login       *)
(* (account_manager.py), the lock-out each instance keeps in its memory    *)
(* (utils/timeout.py), and the address lists (utils/ip_filter.py).         *)
(*                                                                         *)
(* An instance handles requests one at a time except for the await of      *)
(* their bodies, between the address filter and the lock-out.  Other       *)
(* instances come between any two accesses to a file.                      *)
(***************************************************************************)
EXTENDS Integers, Sequences, FiniteSets, Functions

CONSTANTS
  Instances, Names, Addresses,
  Threshold,        \* failed attempts until an address is locked out (3)
  BlacklistAfter,   \* blacklist_after_attempts; 0 is never
  Whitelist,        \* the whitelist file, or Missing
  MaxWaiting,       \* bound: bodies one instance awaits at a time
  MaxWrong,         \* bound: wrong passwords sent
  MaxRestarts,      \* bound: restarts of instances
  Missing, Nobody

ASSUME AccountsAssumption ==
  /\ IsFiniteSet(Instances)
  /\ Threshold \in Nat \ {0}
  /\ {BlacklistAfter, MaxWaiting, MaxWrong, MaxRestarts} \subseteq Nat
  /\ Whitelist = Missing \/ Whitelist \subseteq Addresses
  /\ Nobody \notin Names

VARIABLES
  users,               \* users_db.json, in the order of its keys
  known,               \* UsersDB.users of each instance
  blacklist,           \* blacklist.txt, or Missing
  whiteHash, blackHash,\* the contents each instance last read, or Missing
  black,               \* IPFilter.blacklist of each instance
  inbox,               \* how many requests of each address passed the filter
  failures, locked,    \* Timeout of each instance
  reg,                 \* a registration between its checks and add_user
  confirmed,           \* history: names whose registration was answered
  refused,             \* history: confirmed names whose password was not accepted
  errors,              \* history: allowed addresses that were answered 500
  misses,              \* history: wrong tries since a success or the end of a lock-out
  raised,              \* history: those of them on which add_failed_attempt raised
  wrong, restarts

accounts == <<users, known>>
lists == <<blacklist, whiteHash, blackHash, black, errors>>
guard == <<failures, locked, misses, raised>>
bounds == <<wrong, restarts>>
vars == <<accounts, lists, inbox, guard, reg, confirmed, refused, bounds>>

NoRegistration == [name |-> Nobody, admin |-> FALSE, early |-> FALSE, from |-> Nobody]

Zeroes == [a \in Addresses |-> 0]

Init ==
  /\ users = <<>> /\ known = [p \in Instances |-> <<>>]
  /\ blacklist = Missing
  /\ whiteHash = [p \in Instances |-> Whitelist]
  /\ blackHash = [p \in Instances |-> Missing] /\ black = [p \in Instances |-> {}]
  /\ inbox = [p \in Instances |-> Zeroes]
  /\ failures = [p \in Instances |-> Zeroes] /\ locked = [p \in Instances |-> {}]
  /\ reg = [p \in Instances |-> NoRegistration]
  /\ confirmed = {} /\ refused = {} /\ errors = {}
  /\ misses = Zeroes /\ raised = Zeroes
  /\ wrong = 0 /\ restarts = 0

Free(p) == reg[p] = NoRegistration

-----------------------------------------------------------------------------
(* load_ip_list: a changed file is read; an unchanged one is looked up by   *)
(* getattr(self, "") and raises; a missing one is an empty list.            *)

(* Mutant: only the constructor reads the lists.                            *)
MutChanged(file, hash) == FALSE
Changed(file, hash) == file # Missing /\ file # hash
Raises(p) == (Whitelist # Missing /\ whiteHash[p] = Whitelist)
          \/ (blacklist # Missing /\ blackHash[p] = blacklist)
Listed(file) == IF file = Missing THEN {} ELSE file

BlackAfterLoad(p) ==
  IF Changed(blacklist, blackHash[p]) THEN blacklist
  ELSE IF blacklist = Missing THEN {} ELSE black[p]

(* load_filter_list also remembers what it read.                            *)
Remembers(p) ==
  /\ whiteHash' = [whiteHash EXCEPT ![p] = Whitelist]
  /\ blackHash' = [blackHash EXCEPT ![p] = IF blacklist = Missing THEN @ ELSE blacklist]

(* is_allowed, on the lists after they were loaded                          *)
Allowed(a, w, b) == IF w # {} THEN a \in w ELSE a \notin b

(* ip_filter_middleware; then the sanitizer awaits the body, while further  *)
(* requests pass the filter.                                                *)
Arrive(p, a) ==
  /\ Free(p) /\ SumFunction(inbox[p]) < MaxWaiting
  /\ \/ /\ Raises(p)
        /\ errors' = errors \cup {x \in {a} : Allowed(a, Listed(Whitelist), Listed(blacklist))}
        /\ UNCHANGED <<blacklist, whiteHash, blackHash, black, inbox>>
     \/ /\ ~Raises(p) /\ Remembers(p)
        /\ black' = [black EXCEPT ![p] = BlackAfterLoad(p)]
        /\ inbox' = IF Allowed(a, Listed(Whitelist), BlackAfterLoad(p))
                    THEN [inbox EXCEPT ![p][a] = @ + 1] ELSE inbox
        /\ UNCHANGED <<blacklist, errors>>
  /\ UNCHANGED <<accounts, guard, reg, confirmed, refused, bounds>>

Handles(p, a) == Free(p) /\ inbox[p][a] > 0 /\ inbox' = [inbox EXCEPT ![p][a] = @ - 1]

(* time_out_middleware answers 403.                                         *)
LockedOut(p, a) ==
  /\ Handles(p, a) /\ a \in locked[p]
  /\ UNCHANGED <<accounts, lists, guard, reg, confirmed, refused, bounds>>

(* Mutant: the lock-out begins one failure late.                            *)
MutLocks(n) == n > Threshold
Locks(n) == n >= Threshold

(* add_to_blacklist opens the file for appending only; to read its last     *)
(* character raises, unless the file is empty.                              *)
Appends == Listed(blacklist) = {}

(* add_failed_attempt.  Loading the lists may raise before anything is      *)
(* counted, and adding to a non-empty blacklist file raises after, before   *)
(* the lock-out.  An address is never found in the whitelist: text is       *)
(* compared to addresses.                                                   *)
AddFailedAttempt(p, a) ==
  LET n == failures[p][a] + 1
      blacklists == BlacklistAfter # 0 /\ n >= BlacklistAfter /\ a \notin BlackAfterLoad(p)
  IN
  /\ wrong < MaxWrong /\ wrong' = wrong + 1
  /\ misses' = [misses EXCEPT ![a] = @ + 1]
  /\ raised' = [raised EXCEPT ![a] = IF Raises(p) \/ (blacklists /\ ~Appends) THEN @ + 1 ELSE @]
  /\ \/ Raises(p) /\ UNCHANGED <<lists, failures, locked>>
     \/ /\ ~Raises(p) /\ Remembers(p)
        /\ failures' = [failures EXCEPT ![p][a] = n]
        /\ black' = [black EXCEPT ![p] = BlackAfterLoad(p) \cup {x \in {a} : blacklists}]
        /\ blacklist' = IF blacklists /\ Appends THEN {a} ELSE blacklist
        /\ locked' = [locked EXCEPT ![p] = @ \cup {x \in {a} : Locks(n) /\ (blacklists => Appends)}]
        /\ UNCHANGED errors
  /\ UNCHANGED restarts

RemoveFailedAttempts(p, a) ==
  /\ failures' = [failures EXCEPT ![p][a] = 0]
  /\ locked' = [locked EXCEPT ![p] = @ \ {a}]
  /\ misses' = [misses EXCEPT ![a] = 0] /\ raised' = [raised EXCEPT ![a] = 0]

(* the time of a lock-out is over                                           *)
LockEnds(p, a) ==
  /\ a \in locked[p] /\ locked' = [locked EXCEPT ![p] = @ \ {a}]
  /\ misses' = [misses EXCEPT ![a] = 0] /\ raised' = [raised EXCEPT ![a] = 0]
  /\ UNCHANGED <<accounts, lists, inbox, failures, reg, confirmed, refused, bounds>>

-----------------------------------------------------------------------------
(* Mutant: the users are read when the instance starts.                     *)
MutLoaded(p) == known[p]
(* load_users: the file is read when its hash changed.                      *)
Loaded(p) == users

Has(s, name) == \E i \in DOMAIN s : s[i].name = name
Admins(s) == {i \in DOMAIN s : s[i].admin}

(* get_admin_user: the last one in the file                                 *)
AdminName(s) ==
  IF Admins(s) = {} THEN Nobody
  ELSE s[CHOOSE i \in Admins(s) : \A k \in Admins(s) : k <= i].name

(* post_register up to add_user, in the name of `by' with its password.     *)
(* Once there is an administrator a request without a name is refused, and  *)
(* one with a wrong name or password counts as a failed attempt.            *)
Register(p, a, name, by) ==
  LET admin == AdminName(Loaded(p)) IN
  /\ Handles(p, a) /\ a \notin locked[p]
  /\ known' = [known EXCEPT ![p] = Loaded(p)]
  /\ \/ /\ admin # Nobody /\ by \notin {Nobody, admin}
        /\ AddFailedAttempt(p, a)
        /\ UNCHANGED reg
     \/ /\ admin # Nobody => by \in {Nobody, admin}
        /\ reg' = IF Has(Loaded(p), name) \/ (admin # Nobody /\ by = Nobody) THEN reg
                  ELSE [reg EXCEPT ![p] = [name |-> name, from |-> a,
                                           admin |-> admin = Nobody,
                                           early |-> confirmed = {}]]
        /\ UNCHANGED <<lists, guard, bounds>>
  /\ UNCHANGED <<users, confirmed, refused>>

Taken(name) == Has(users, name)

(* Mutant: the cached users are written back.                               *)
MutPresent(p) == known[p]
Present(p) == users

(* add_user, under the file lock; the file is replaced as a whole.          *)
AddUser(p) ==
  LET r == reg[p]
      s == Append(Present(p), [name |-> r.name, admin |-> r.admin, early |-> r.early])
  IN
  /\ ~Free(p) /\ reg' = [reg EXCEPT ![p] = NoRegistration]
  /\ \/ Taken(r.name) /\ UNCHANGED <<accounts, guard, confirmed>>
     \/ /\ ~Taken(r.name)
        /\ users' = s /\ known' = [known EXCEPT ![p] = s]
        /\ confirmed' = confirmed \cup {r.name}
        /\ RemoveFailedAttempts(p, r.from)
  /\ UNCHANGED <<lists, inbox, refused, bounds>>

(* post_login and post_generate_token                                       *)
LogIn(p, a, name, right) ==
  /\ Handles(p, a) /\ a \notin locked[p]
  /\ known' = [known EXCEPT ![p] = Loaded(p)]
  /\ refused' = refused \cup {n \in {name} \cap confirmed : right /\ ~Has(Loaded(p), n)}
  /\ \/ right /\ Has(Loaded(p), name) /\ RemoveFailedAttempts(p, a) /\ UNCHANGED <<lists, bounds>>
     \/ ~(right /\ Has(Loaded(p), name)) /\ AddFailedAttempt(p, a)
  /\ UNCHANGED <<users, reg, confirmed>>

(* The instance is started again: counters and locks are in its memory; the *)
(* lists are loaded by IPFilter's constructor.                              *)
Restart(p) ==
  /\ restarts < MaxRestarts /\ restarts' = restarts + 1
  /\ known' = [known EXCEPT ![p] = users]
  /\ whiteHash' = [whiteHash EXCEPT ![p] = Whitelist]
  /\ blackHash' = [blackHash EXCEPT ![p] = blacklist]
  /\ black' = [black EXCEPT ![p] = Listed(blacklist)]
  /\ inbox' = [inbox EXCEPT ![p] = Zeroes] /\ reg' = [reg EXCEPT ![p] = NoRegistration]
  /\ failures' = [failures EXCEPT ![p] = Zeroes] /\ locked' = [locked EXCEPT ![p] = {}]
  /\ misses' = Zeroes /\ raised' = Zeroes
  /\ UNCHANGED <<users, blacklist, errors, confirmed, refused, wrong>>

Next ==
  \E p \in Instances :
    \/ AddUser(p) \/ Restart(p)
    \/ \E a \in Addresses :
         \/ Arrive(p, a) \/ LockedOut(p, a) \/ LockEnds(p, a)
         \/ \E n \in Names, by \in Names \cup {Nobody} : Register(p, a, n, by)
         \/ \E n \in Names, right \in BOOLEAN : LogIn(p, a, n, right)

Spec == Init /\ [][Next]_vars

-----------------------------------------------------------------------------
(* What the files and the instances hold; an instance keeps an address out  *)
(* only while it counts enough failures for it.                             *)
TypeOK ==
  /\ users \in Seq([name : Names, admin : BOOLEAN, early : BOOLEAN])
  /\ \A p \in Instances :
       /\ known[p] \in Seq([name : Names, admin : BOOLEAN, early : BOOLEAN])
       /\ black[p] \subseteq Addresses /\ inbox[p] \in [Addresses -> Nat]
       /\ reg[p].name \in Names \cup {Nobody} /\ reg[p].from \in Addresses \cup {Nobody}
       /\ \A a \in locked[p] : a \in Addresses /\ failures[p][a] >= Threshold
  /\ blacklist = Missing \/ blacklist \subseteq Addresses

(* No two accounts share a name, although two instances may both find the   *)
(* name free before either adds it.                                         *)
NamesUnique == \A i, k \in DOMAIN users : users[i].name = users[k].name => i = k

(* A registration that was confirmed stays in the file, whatever the other  *)
(* instances have cached when they write it.                                *)
NoRegistrationLost == \A n \in confirmed : Has(users, n)

(* "All workers share users_db.json; no restart is needed after an account  *)
(* was registered": any instance accepts its password.                      *)
RegisteredCanLogIn == refused = {}

(* Every confirmed account is in the file once and accepted everywhere.     *)
UsersFileIntact == NamesUnique /\ NoRegistrationLost /\ RegisteredCanLogIn

(* "Later accounts can only be made by the administrator": administrators   *)
(* are made by nobody but the registrations that began before the first     *)
(* one was confirmed.                                                       *)
LateAccountsNeedAdmin == \A i \in DOMAIN users : users[i].admin => users[i].early

(* Every instance counts for itself, so an address has as many tries as     *)
(* there are instances times the threshold, and no more before a lock-out   *)
(* ends, it logs in, or an instance is restarted.  The tries on which the   *)
(* count itself raises come on top: nothing holds them back but the filter, *)
(* which their requests had passed before it began to raise, and there are  *)
(* none before an address was put on the blacklist file.                    *)
TriesBounded ==
  \A a \in Addresses :
    /\ misses[a] - raised[a] <= Threshold * Cardinality(Instances)
    /\ raised[a] > 0 => BlacklistAfter # 0 /\ blacklist # Missing

(* An address one instance put on the blacklist file is let in by no        *)
(* instance from then on: only what it sent before is still answered.       *)
BlacklistedStaysOut ==
  [][\A p \in Instances, a \in Listed(blacklist) : inbox'[p][a] <= inbox[p][a]]_vars

(* "If the whitelist is empty and IP is not in the blacklist, it is         *)
(* allowed" (is_allowed) holds until so many tries failed that an address   *)
(* was put on the blacklist; from then on the filter may raise instead.     *)
AllowedIsAnswered ==
  errors # {} => Whitelist # Missing \/ (BlacklistAfter # 0 /\ wrong >= BlacklistAfter)
=============================================================================
