--------------------------- MODULE AccountsProofs ---------------------------
(* The users file for every number of instances, names and addresses: what  *)
(* registrations that overlap do to it, who becomes an administrator, when  *)
(* the address filter begins to fail, and how many tries the lock-out       *)
(* leaves an address.                                                       *)
EXTENDS Accounts, FiniteSetTheorems, WellFoundedInduction, TLAPS

User == [name : Names, admin : BOOLEAN, early : BOOLEAN]

Types ==
  /\ users \in Seq(User)
  /\ reg \in [Instances -> [name : Names \cup {Nobody}, admin : BOOLEAN, early : BOOLEAN,
                            from : Addresses \cup {Nobody}]]
  /\ confirmed \subseteq Names

(* Once a registration was confirmed there is an administrator, and one     *)
(* that is under way without the rank knows of one: so only registrations   *)
(* that began before the first confirmation carry the rank.                 *)
FirstIsAdmin ==
  /\ confirmed # {} => Admins(users) # {}
  /\ \A p \in Instances :
       reg[p] # NoRegistration =>
         /\ reg[p].name \in Names /\ reg[p].from \in Addresses
         /\ reg[p].admin => reg[p].early
         /\ ~reg[p].admin => Admins(users) # {}

UsersInv ==
  /\ Types /\ FirstIsAdmin
  /\ NamesUnique /\ NoRegistrationLost /\ RegisteredCanLogIn /\ LateAccountsNeedAdmin

(* A set of positions that is not empty has a last one.                     *)
LEMMA LastIndex ==
  ASSUME NEW n \in Nat, NEW S \in SUBSET (1 .. n), S # {}
  PROVE \E i \in S : \A k \in S : k <= i
<1> DEFINE T == {n - i : i \in S}
           R == {ss \in Nat \X Nat : ss[1] < ss[2]}
<1>1. T \subseteq Nat /\ T # {}
  <2>1. PICK i : i \in S
    OBVIOUS
  <2>2. n - i \in T
    BY <2>1
  <2> QED
    BY <2>2
<1>2. IsWellFoundedOn(R, Nat)
  BY NatLessThanWellFounded DEF OpToRel
<1>3. \E x \in T : \A y \in T : ~ (<<y, x>> \in R)
  <2> HIDE DEF T, R
  <2> QED
    BY <1>1, <1>2, WFMin
<1>4. PICK i \in S : \A y \in T : ~ (<<y, n - i>> \in R)
  BY <1>3
<1>5. ASSUME NEW k \in S PROVE k <= i
  <2>1. n - k \in T /\ n - k \in Nat /\ n - i \in Nat
    OBVIOUS
  <2>2. ~ (n - k < n - i)
    BY <1>4, <2>1
  <2> QED
    BY <2>2
<1> QED
  BY <1>5

(* The file is untouched by everything but AddUser.                         *)
LEMMA AddUserStep ==
  ASSUME UsersInv, NEW p \in Instances, AddUser(p)
  PROVE UsersInv'
<1>1. CASE Taken(reg[p].name)
  BY <1>1, AccountsAssumption
  DEF AddUser, UsersInv, Types, User, FirstIsAdmin, NamesUnique, NoRegistrationLost,
      RegisteredCanLogIn, LateAccountsNeedAdmin, accounts, NoRegistration, Free, Admins, Has
<1>2. CASE ~Taken(reg[p].name)
  <2> DEFINE r == reg[p]
             u == [name |-> r.name, admin |-> r.admin, early |-> r.early]
  <2>1. /\ users' = Append(users, u) /\ confirmed' = confirmed \cup {r.name}
        /\ reg' = [reg EXCEPT ![p] = NoRegistration] /\ refused' = refused
        /\ r # NoRegistration
    BY <1>2 DEF AddUser, Present, Free
  <2>2. /\ r.name \in Names /\ u \in User /\ (r.admin => r.early)
        /\ (~r.admin => Admins(users) # {})
    BY <2>1 DEF UsersInv, Types, FirstIsAdmin, User
  <2>3. /\ users \in Seq(User) /\ users' \in Seq(User) /\ Len(users') = Len(users) + 1
        /\ \A i \in 1 .. Len(users) : users'[i] = users[i]
        /\ users'[Len(users) + 1] = u
    BY <2>1, <2>2 DEF UsersInv, Types
  <2>4. DOMAIN users = 1 .. Len(users) /\ DOMAIN users' = 1 .. Len(users) + 1
    BY <2>3
  <2>5. Types'
    BY <2>1, <2>2, <2>3 DEF UsersInv, Types, NoRegistration
  <2>6. Admins(users') # {}
    <3>1. CASE r.admin
      BY <2>3, <2>4, <3>1 DEF Admins
    <3>2. CASE ~r.admin
      BY <2>2, <2>3, <2>4, <3>2 DEF Admins
    <3> QED
      BY <3>1, <3>2, <2>2 DEF User
  <2>7. FirstIsAdmin'
    BY <2>1, <2>6 DEF UsersInv, Types, FirstIsAdmin
  <2>8. NamesUnique'
    BY <1>2, <2>3, <2>4 DEF UsersInv, NamesUnique, Taken, Has
  <2>9. NoRegistrationLost'
    BY <2>1, <2>3, <2>4 DEF UsersInv, NoRegistrationLost, Has
  <2>10. LateAccountsNeedAdmin'
    BY <2>2, <2>3, <2>4 DEF UsersInv, LateAccountsNeedAdmin
  <2> QED
    BY <2>1, <2>5, <2>7, <2>8, <2>9, <2>10 DEF UsersInv, RegisteredCanLogIn
<1> QED
  BY <1>1, <1>2

(* A registration takes the rank exactly if it finds no administrator.      *)
LEMMA RegisterStep ==
  ASSUME UsersInv, NEW p \in Instances, NEW a \in Addresses, NEW n \in Names,
         NEW by \in Names \cup {Nobody}, Register(p, a, n, by)
  PROVE UsersInv'
<1>1. UNCHANGED <<users, confirmed, refused>>
  BY DEF Register
<1>2. AdminName(users) = Nobody <=> Admins(users) = {}
  <2>1. CASE Admins(users) = {}
    BY <2>1 DEF AdminName
  <2>2. CASE Admins(users) # {}
    <3>1. users \in Seq(User) /\ Len(users) \in Nat /\ Admins(users) \subseteq 1 .. Len(users)
      BY DEF UsersInv, Types, Admins
    <3>2. PICK i \in Admins(users) : \A k \in Admins(users) : k <= i
      BY <3>1, <2>2, LastIndex
    <3>3. \A k \in Admins(users) : users[k].name \in Names
      <4>1. \A k \in 1 .. Len(users) : users[k] \in User
        BY <3>1
      <4> QED
        BY <3>1, <4>1 DEF User
    <3> QED
      BY <2>2, <3>2, <3>3, AccountsAssumption DEF AdminName
  <2> QED
    BY <2>1, <2>2
<1>3. CASE UNCHANGED reg
  BY <1>1, <1>3
  DEF UsersInv, Types, FirstIsAdmin, NamesUnique, NoRegistrationLost, RegisteredCanLogIn,
      LateAccountsNeedAdmin
<1>4. CASE \E x, e \in BOOLEAN :
             /\ x <=> Admins(users) = {}
             /\ e <=> confirmed = {}
             /\ reg' = [reg EXCEPT ![p] = [name |-> n, from |-> a, admin |-> x, early |-> e]]
  <2> PICK x \in BOOLEAN, e \in BOOLEAN :
         /\ x <=> Admins(users) = {}
         /\ e <=> confirmed = {}
         /\ reg' = [reg EXCEPT ![p] = [name |-> n, from |-> a, admin |-> x, early |-> e]]
    BY <1>4
  <2>1. Types'
    BY <1>1 DEF UsersInv, Types
  <2>2. FirstIsAdmin'
    <3>1. Admins(users') = Admins(users) /\ confirmed' = confirmed
      BY <1>1
    <3>2. /\ reg'[p].name = n /\ reg'[p].from = a /\ reg'[p].admin = x /\ reg'[p].early = e
          /\ \A q \in Instances : q # p => reg'[q] = reg[q]
      BY DEF UsersInv, Types
    <3>3. x => e
      BY DEF UsersInv, FirstIsAdmin
    <3> QED
      BY <3>1, <3>2, <3>3 DEF UsersInv, FirstIsAdmin
  <2> QED
    BY <1>1, <2>1, <2>2
    DEF UsersInv, NamesUnique, NoRegistrationLost, RegisteredCanLogIn, LateAccountsNeedAdmin
<1> QED
  BY <1>2, <1>3, <1>4 DEF Register, Loaded

(* Whatever else happens, a confirmed account's password is accepted.       *)
LEMMA UsersStep == UsersInv /\ [Next]_vars => UsersInv'
<1> SUFFICES ASSUME UsersInv, [Next]_vars PROVE UsersInv'
  OBVIOUS
<1>1. ASSUME UNCHANGED <<users, reg, confirmed>>, refused' = refused PROVE UsersInv'
  BY <1>1
  DEF UsersInv, Types, FirstIsAdmin, NamesUnique, NoRegistrationLost, RegisteredCanLogIn,
      LateAccountsNeedAdmin
<1>2. ASSUME NEW p \in Instances, NEW a \in Addresses, NEW n \in Names,
             NEW right \in BOOLEAN, LogIn(p, a, n, right)
      PROVE UsersInv'
  BY <1>1, <1>2 DEF LogIn, Loaded, UsersInv, NoRegistrationLost, RegisteredCanLogIn
<1>3. ASSUME NEW p \in Instances, Restart(p) PROVE UsersInv'
  BY <1>3
  DEF Restart, UsersInv, Types, FirstIsAdmin, NoRegistration, NamesUnique,
      NoRegistrationLost, RegisteredCanLogIn, LateAccountsNeedAdmin
<1> QED
  BY <1>1, <1>2, <1>3, AddUserStep, RegisterStep
  DEF Next, Arrive, LockedOut, LockEnds, vars, accounts

(* An empty file.                                                           *)
LEMMA UsersInit == Init => UsersInv
BY DEF Init, UsersInv, Types, FirstIsAdmin, NoRegistration, Admins, NamesUnique,
       NoRegistrationLost, RegisteredCanLogIn, LateAccountsNeedAdmin

(* The inductive invariant of the users file.                               *)
THEOREM UsersInvHolds == Spec => []UsersInv
BY UsersInit, UsersStep, PTL DEF Spec

(* Overlapping registrations of one name make one account, no instance      *)
(* writes a confirmed account out of the file, and every instance accepts   *)
(* its password.                                                            *)
THEOREM UsersFileIntactHolds == Spec => []UsersFileIntact
<1>1. UsersInv => UsersFileIntact
  BY DEF UsersInv, UsersFileIntact
<1> QED
  BY UsersInvHolds, <1>1, PTL

(* Administrators stem from registrations begun before the first account    *)
(* was confirmed, on however many instances these ran at once.              *)
THEOREM LateAccountsNeedAdminHolds == Spec => []LateAccountsNeedAdmin
<1>1. UsersInv => LateAccountsNeedAdmin
  BY DEF UsersInv
<1> QED
  BY UsersInvHolds, <1>1, PTL

-----------------------------------------------------------------------------
(* The lists and the counters.  The whitelist is read by the constructor    *)
(* and never changes; no counter is ahead of the tries that were made, so   *)
(* the blacklist file does not exist before enough of them were.            *)
ListTypes ==
  /\ known \in [Instances -> Seq(User)]
  /\ black \in [Instances -> SUBSET Addresses] /\ inbox \in [Instances -> [Addresses -> Nat]]
  /\ blacklist = Missing \/ blacklist \subseteq Addresses
  /\ whiteHash = [p \in Instances |-> Whitelist]

CounterTypes ==
  /\ failures \in [Instances -> [Addresses -> Nat]] /\ wrong \in Nat
  /\ locked \in [Instances -> SUBSET Addresses]

Counted ==
  \A p \in Instances, a \in Addresses :
    /\ failures[p][a] <= wrong
    /\ a \in locked[p] => failures[p][a] >= Threshold

ListedLate == blacklist # Missing => BlacklistAfter # 0 /\ wrong >= BlacklistAfter

GuardInv ==
  /\ UsersInv /\ ListTypes /\ CounterTypes /\ Counted /\ ListedLate /\ AllowedIsAnswered

(* The part of the invariant that a counted failure can disturb.            *)
LEMMA FailedAttemptStep ==
  ASSUME GuardInv, NEW p \in Instances, NEW a \in Addresses, AddFailedAttempt(p, a)
  PROVE /\ black' \in [Instances -> SUBSET Addresses]
        /\ blacklist' = Missing \/ blacklist' \subseteq Addresses
        /\ whiteHash' = whiteHash /\ errors' = errors
        /\ CounterTypes' /\ Counted' /\ ListedLate'
<1> USE AccountsAssumption
<1>1. wrong \in Nat /\ wrong' = wrong + 1
  BY DEF AddFailedAttempt, GuardInv, CounterTypes
<1>2. CASE Raises(p) /\ UNCHANGED <<lists, failures, locked>>
  BY <1>1, <1>2
  DEF GuardInv, ListTypes, CounterTypes, Counted, ListedLate, lists
<1>3. CASE ~Raises(p) /\ Remembers(p)
  <2> DEFINE n == failures[p][a] + 1
             blacklists == BlacklistAfter # 0 /\ n >= BlacklistAfter /\ a \notin BlackAfterLoad(p)
  <2>1. /\ failures' = [failures EXCEPT ![p][a] = n] /\ errors' = errors
        /\ black' = [black EXCEPT ![p] = BlackAfterLoad(p) \cup {x \in {a} : blacklists}]
        /\ blacklist' = IF blacklists /\ Appends THEN {a} ELSE blacklist
        /\ locked' = [locked EXCEPT ![p] =
                        @ \cup {x \in {a} : Locks(n) /\ (blacklists => Appends)}]
    BY <1>3 DEF AddFailedAttempt
  <2>2. n \in Nat /\ n <= wrong'
    BY <1>1 DEF GuardInv, CounterTypes, Counted
  <2>3. BlackAfterLoad(p) \subseteq Addresses
    BY DEF GuardInv, ListTypes, BlackAfterLoad, Changed
  <2>4. black' \in [Instances -> SUBSET Addresses]
    BY <2>1, <2>3 DEF GuardInv, ListTypes
  <2>5. blacklist' = Missing \/ blacklist' \subseteq Addresses
    BY <2>1 DEF GuardInv, ListTypes
  <2>6. whiteHash' = whiteHash
    BY <1>3 DEF Remembers, GuardInv, ListTypes
  <2>7. CounterTypes'
    BY <1>1, <2>1, <2>2 DEF GuardInv, CounterTypes
  <2>8. Counted'
    BY <1>1, <2>1, <2>2 DEF GuardInv, CounterTypes, Counted, Locks
  <2>9. ListedLate'
    BY <1>1, <2>1, <2>2 DEF GuardInv, ListedLate
  <2> QED
    BY <2>1, <2>4, <2>5, <2>6, <2>7, <2>8, <2>9
<1> QED
  BY <1>2, <1>3 DEF AddFailedAttempt

(* A success clears the counter and the lock together.                      *)
LEMMA SuccessStep ==
  ASSUME GuardInv, NEW p \in Instances, NEW a \in Addresses, RemoveFailedAttempts(p, a),
         UNCHANGED bounds
  PROVE CounterTypes' /\ Counted'
<1>1. /\ failures' = [failures EXCEPT ![p][a] = 0] /\ wrong' = wrong
      /\ locked' = [locked EXCEPT ![p] = @ \ {a}]
  BY DEF RemoveFailedAttempts, bounds
<1>2. CounterTypes'
  BY <1>1 DEF GuardInv, CounterTypes
<1>3. Counted'
  BY <1>1 DEF GuardInv, CounterTypes, Counted
<1> QED
  BY <1>2, <1>3

(* A request that arrives or is handled changes one count by one.           *)
LEMMA InboxStep ==
  ASSUME inbox \in [Instances -> [Addresses -> Nat]], NEW p \in Instances, NEW a \in Addresses
  PROVE  /\ [inbox EXCEPT ![p][a] = @ + 1] \in [Instances -> [Addresses -> Nat]]
         /\ inbox[p][a] > 0 =>
              [inbox EXCEPT ![p][a] = @ - 1] \in [Instances -> [Addresses -> Nat]]
<1>1. inbox[p] \in [Addresses -> Nat] /\ inbox[p][a] \in Nat
  OBVIOUS
<1>2. [inbox[p] EXCEPT ![a] = @ + 1] \in [Addresses -> Nat]
  BY <1>1
<1>3. inbox[p][a] > 0 => [inbox[p] EXCEPT ![a] = @ - 1] \in [Addresses -> Nat]
  BY <1>1
<1> QED
  BY <1>2, <1>3

(* One case per handler.                                                    *)
LEMMA GuardStep == GuardInv /\ [Next]_vars => GuardInv'
<1> SUFFICES ASSUME GuardInv, [Next]_vars PROVE GuardInv'
  OBVIOUS
<1> USE AccountsAssumption
<1>0. UsersInv'
  BY UsersStep DEF GuardInv
<1>1. users \in Seq(User)
  BY DEF GuardInv, UsersInv, Types
<1>i. inbox \in [Instances -> [Addresses -> Nat]]
  BY DEF GuardInv, ListTypes
<1>2. ASSUME NEW p \in Instances, NEW a \in Addresses, Arrive(p, a) PROVE GuardInv'
  <2>1. UNCHANGED <<known, failures, locked, wrong, blacklist>>
    BY <1>2 DEF Arrive, accounts, guard, bounds
  <2>2. CASE Raises(p)
    <3>1. Whitelist = Missing => ListedLate /\ blacklist # Missing
      BY <2>2 DEF Raises, GuardInv
    <3>2. errors' # {} => Whitelist # Missing \/ (BlacklistAfter # 0 /\ wrong >= BlacklistAfter)
      BY <3>1 DEF ListedLate
    <3> QED
      BY <1>0, <1>2, <2>1, <2>2, <3>2
      DEF Arrive, GuardInv, ListTypes, CounterTypes, Counted, ListedLate, AllowedIsAnswered
  <2>3. CASE ~Raises(p)
    <3>1. /\ Remembers(p) /\ errors' = errors
          /\ black' = [black EXCEPT ![p] = BlackAfterLoad(p)]
          /\ inbox' = [inbox EXCEPT ![p][a] = @ + 1] \/ inbox' = inbox
      BY <1>2, <2>3 DEF Arrive
    <3>2. BlackAfterLoad(p) \subseteq Addresses
      BY DEF GuardInv, ListTypes, BlackAfterLoad, Changed
    <3>4. inbox' \in [Instances -> [Addresses -> Nat]]
      <4>1. CASE inbox' = [inbox EXCEPT ![p][a] = @ + 1]
        BY <1>i, <4>1, InboxStep
      <4> QED
        BY <1>i, <3>1, <4>1
    <3>3. ListTypes'
      BY <2>1, <3>1, <3>2, <3>4 DEF GuardInv, ListTypes, Remembers
    <3> QED
      BY <1>0, <2>1, <3>1, <3>3
      DEF GuardInv, CounterTypes, Counted, ListedLate, AllowedIsAnswered
  <2> QED
    BY <2>2, <2>3
<1>3. ASSUME NEW p \in Instances, NEW a \in Addresses, LockedOut(p, a) \/ LockEnds(p, a)
      PROVE GuardInv'
  <2>1. /\ UNCHANGED <<known, failures, wrong, lists>>
        /\ inbox' = inbox \/ (inbox[p][a] > 0 /\ inbox' = [inbox EXCEPT ![p][a] = @ - 1])
        /\ locked' \in {locked, [locked EXCEPT ![p] = @ \ {a}]}
    BY <1>3 DEF LockedOut, LockEnds, Handles, accounts, guard, bounds
  <2>4. inbox' \in [Instances -> [Addresses -> Nat]]
    <3>1. CASE inbox[p][a] > 0 /\ inbox' = [inbox EXCEPT ![p][a] = @ - 1]
      BY <1>i, <3>1, InboxStep
    <3> QED
      BY <1>i, <2>1, <3>1
  <2>2. ListTypes'
    BY <2>1, <2>4 DEF GuardInv, ListTypes, lists
  <2>3. CounterTypes' /\ Counted'
    BY <2>1 DEF GuardInv, CounterTypes, Counted
  <2> QED
    BY <1>0, <2>1, <2>2, <2>3 DEF GuardInv, ListedLate, AllowedIsAnswered, lists
<1>4. ASSUME NEW p \in Instances, NEW a \in Addresses, Handles(p, a),
             known' = [known EXCEPT ![p] = users],
             \/ AddFailedAttempt(p, a)
             \/ RemoveFailedAttempts(p, a) /\ UNCHANGED <<lists, bounds>>
             \/ UNCHANGED <<lists, guard, bounds>>
      PROVE GuardInv'
  <2>1. /\ known' \in [Instances -> Seq(User)]
        /\ inbox' \in [Instances -> [Addresses -> Nat]]
    BY <1>1, <1>4 DEF Handles, GuardInv, ListTypes
  <2>2. CASE AddFailedAttempt(p, a)
    <3>1. wrong \in Nat /\ wrong' = wrong + 1
      BY <2>2 DEF AddFailedAttempt, GuardInv, CounterTypes
    <3>2. AllowedIsAnswered'
      BY <2>2, <3>1, FailedAttemptStep DEF GuardInv, AllowedIsAnswered
    <3> QED
      BY <1>0, <2>1, <2>2, <3>2, FailedAttemptStep DEF GuardInv, ListTypes
  <2>3. CASE RemoveFailedAttempts(p, a) /\ UNCHANGED <<lists, bounds>>
    BY <1>0, <2>1, <2>3, SuccessStep
    DEF GuardInv, ListTypes, ListedLate, AllowedIsAnswered, lists, bounds
  <2>4. CASE UNCHANGED <<lists, guard, bounds>>
    BY <1>0, <2>1, <2>4
    DEF GuardInv, ListTypes, CounterTypes, Counted, ListedLate, AllowedIsAnswered, lists,
        guard, bounds
  <2> QED
    BY <1>4, <2>2, <2>3, <2>4
<1>5. ASSUME NEW p \in Instances, NEW a \in Addresses, NEW n \in Names,
             NEW by \in Names \cup {Nobody}, Register(p, a, n, by)
      PROVE GuardInv'
  BY <1>4, <1>5 DEF Register, Loaded
<1>6. ASSUME NEW p \in Instances, NEW a \in Addresses, NEW n \in Names,
             NEW right \in BOOLEAN, LogIn(p, a, n, right)
      PROVE GuardInv'
  BY <1>4, <1>6 DEF LogIn, Loaded
<1>7. ASSUME NEW p \in Instances, AddUser(p) PROVE GuardInv'
  <2>1. UNCHANGED <<lists, inbox, bounds>>
    BY <1>7 DEF AddUser
  <2>2. CASE UNCHANGED <<accounts, guard>>
    BY <1>0, <2>1, <2>2
    DEF GuardInv, ListTypes, CounterTypes, Counted, ListedLate, AllowedIsAnswered, lists,
        guard, bounds, accounts
  <2>3. CASE known' = [known EXCEPT ![p] = users'] /\ RemoveFailedAttempts(p, reg[p].from)
    <3>1. users' \in Seq(User)
      BY <1>0 DEF UsersInv, Types
    <3>2. ListTypes'
      BY <2>1, <2>3, <3>1 DEF GuardInv, ListTypes, lists
    <3>3. reg[p].from \in Addresses
      BY <1>7 DEF AddUser, Free, GuardInv, UsersInv, FirstIsAdmin
    <3>4. CounterTypes' /\ Counted'
      BY <2>1, <2>3, <3>3, SuccessStep
    <3> QED
      BY <1>0, <2>1, <3>2, <3>4 DEF GuardInv, ListedLate, AllowedIsAnswered, lists, bounds
  <2> QED
    BY <1>7, <2>2, <2>3 DEF AddUser
<1>8. ASSUME NEW p \in Instances, Restart(p) PROVE GuardInv'
  <2>1. ListTypes'
    BY <1>1, <1>8 DEF Restart, GuardInv, ListTypes, Listed, Zeroes
  <2>2. CounterTypes' /\ Counted'
    BY <1>8 DEF Restart, Zeroes, GuardInv, CounterTypes, Counted
  <2> QED
    BY <1>0, <1>8, <2>1, <2>2 DEF Restart, GuardInv, ListedLate, AllowedIsAnswered
<1>9. CASE UNCHANGED vars
  BY <1>0, <1>9
  DEF GuardInv, ListTypes, CounterTypes, Counted, ListedLate, AllowedIsAnswered, vars, lists,
      guard, bounds, accounts
<1> QED
  BY <1>2, <1>3, <1>5, <1>6, <1>7, <1>8, <1>9 DEF Next

(* At first there is no blacklist and nothing was counted.                  *)
LEMMA GuardInit == Init => GuardInv
<1> SUFFICES ASSUME Init PROVE GuardInv
  OBVIOUS
<1>1. ListTypes
  BY DEF Init, ListTypes, Zeroes
<1>2. CounterTypes /\ Counted
  BY AccountsAssumption DEF Init, CounterTypes, Counted, Zeroes
<1>3. ListedLate /\ AllowedIsAnswered
  BY DEF Init, ListedLate, AllowedIsAnswered
<1> QED
  BY <1>1, <1>2, <1>3, UsersInit DEF GuardInv

(* The inductive invariant of files, lists and counters.                    *)
THEOREM GuardInvHolds == Spec => []GuardInv
BY GuardInit, GuardStep, PTL DEF Spec

(* The files and every instance's memory are typed, and no address is       *)
(* locked out with fewer failures than the threshold.                       *)
THEOREM AccountsTypeCorrect == Spec => []TypeOK
<1>1. GuardInv => TypeOK
  BY DEF GuardInv, UsersInv, Types, User, ListTypes, CounterTypes, Counted, TypeOK
<1> QED
  BY GuardInvHolds, <1>1, PTL

(* Without a whitelist the filter answers everyone it allows until an       *)
(* address was blacklisted.                                                 *)
THEOREM AllowedIsAnsweredHolds == Spec => []AllowedIsAnswered
<1>1. GuardInv => AllowedIsAnswered
  BY DEF GuardInv
<1> QED
  BY GuardInvHolds, <1>1, PTL

(* An instance lets nobody in who is on the blacklist file, whoever put     *)
(* them there and however old its own copy is.                              *)
THEOREM BlacklistedStaysOutHolds == Spec => BlacklistedStaysOut
<1> DEFINE Out == \A p \in Instances, a \in Listed(blacklist) : inbox'[p][a] <= inbox[p][a]
<1>1. GuardInv /\ [Next]_vars => [Out]_vars
  <2> SUFFICES ASSUME GuardInv, Next PROVE Out
    OBVIOUS
  <2>0. /\ inbox \in [Instances -> [Addresses -> Nat]] /\ Listed(blacklist) \subseteq Addresses
        /\ \A q \in Instances, x \in Addresses : inbox[q][x] \in Nat
    BY DEF GuardInv, ListTypes, Listed
  <2>1. ASSUME \A q \in Instances, x \in Addresses : inbox'[q][x] <= inbox[q][x] PROVE Out
    BY <2>0, <2>1
  <2>2. ASSUME NEW p \in Instances, NEW a \in Addresses, Arrive(p, a) PROVE Out
    <3>1. CASE UNCHANGED inbox
      BY <2>0, <3>1
    <3>2. CASE ~Raises(p) /\ Allowed(a, Listed(Whitelist), BlackAfterLoad(p))
               /\ inbox' = [inbox EXCEPT ![p][a] = @ + 1]
      <4>1. Whitelist = Missing
        BY <3>2 DEF Raises, GuardInv, ListTypes
      <4>2. blacklist # Missing => BlackAfterLoad(p) = blacklist
        BY <3>2 DEF Raises, BlackAfterLoad, Changed
      <4>3. a \notin Listed(blacklist)
        BY <3>2, <4>1, <4>2 DEF Allowed, Listed
      <4>4. \A q \in Instances, x \in Addresses : x # a => inbox'[q][x] = inbox[q][x]
        BY <2>0, <3>2
      <4> QED
        BY <2>0, <4>3, <4>4
    <3> QED
      BY <2>2, <3>1, <3>2 DEF Arrive
  <2>3. ASSUME NEW p \in Instances, NEW a \in Addresses, Handles(p, a) PROVE Out
    <3>1. inbox' = [inbox EXCEPT ![p][a] = @ - 1] /\ inbox[p][a] \in Nat
      BY <2>0, <2>3 DEF Handles
    <3>2. \A q \in Instances, x \in Addresses : inbox'[q][x] <= inbox[q][x]
      BY <2>0, <3>1
    <3> QED
      BY <2>1, <3>2
  <2>4. ASSUME NEW p \in Instances, Restart(p) PROVE Out
    BY <2>0, <2>1, <2>4 DEF Restart, Zeroes
  <2>5. CASE UNCHANGED inbox
    BY <2>0, <2>5
  <2> QED
    BY <2>2, <2>3, <2>4, <2>5 DEF Next, LockedOut, LockEnds, Register, LogIn, AddUser
<1> QED
  BY GuardInvHolds, <1>1, PTL DEF Spec, BlacklistedStaysOut

-----------------------------------------------------------------------------
(* The tries an address can have made, not counting those that raised, as   *)
(* tokens: Threshold at an instance that locks it out, otherwise one for    *)
(* each failure counted but the last one.  (After a lock-out the counter    *)
(* stays where it is, and one failure more locks again.)                    *)
Tokens == Instances \X (1 .. Threshold)
Spent(a) == {e \in Tokens :
               a \in locked[e[1]] \/ (e[2] <= failures[e[1]][a] /\ e[2] < Threshold)}
Tries(a) == misses[a] - raised[a]

(* With a whitelist the filter raises from the start and nothing passes it; *)
(* so where a count raises, it is over the blacklist file.                  *)
RaisedLate ==
  /\ blacklist # Missing => blacklist # {}
  /\ Whitelist # Missing => \A p \in Instances, a \in Addresses : inbox[p][a] = 0
  /\ \A a \in Addresses : raised[a] > 0 => BlacklistAfter # 0 /\ blacklist # Missing

TriesInv ==
  /\ misses \in [Addresses -> Nat] /\ raised \in [Addresses -> Nat]
  /\ RaisedLate
  /\ \A a \in Addresses : Tries(a) <= Cardinality(Spent(a))

(* There are Threshold tokens for each instance.                            *)
LEMMA TokenCount ==
  /\ IsFiniteSet(Tokens) /\ Cardinality(Tokens) = Threshold * Cardinality(Instances)
  /\ \A S \in SUBSET Tokens : /\ IsFiniteSet(S) /\ Cardinality(S) \in Nat
                              /\ Cardinality(S) <= Cardinality(Tokens)
<1>1. IsFiniteSet(1 .. Threshold) /\ Cardinality(1 .. Threshold) = Threshold
  <2>1. 1 \in Int /\ Threshold \in Int /\ ~(1 > Threshold) /\ Threshold - 1 + 1 = Threshold
    BY AccountsAssumption
  <2> QED
    BY <2>1, FS_Interval
<1>2. Cardinality(Instances) \in Nat
  BY FS_CardinalityType, AccountsAssumption
<1>3. IsFiniteSet(Tokens) /\ Cardinality(Tokens) = Cardinality(Instances) * Cardinality(1 .. Threshold)
  BY <1>1, FS_Product, AccountsAssumption DEF Tokens
<1>4. Cardinality(Tokens) = Threshold * Cardinality(Instances)
  BY <1>1, <1>2, <1>3, AccountsAssumption
<1>5. ASSUME NEW S \in SUBSET Tokens
      PROVE  IsFiniteSet(S) /\ Cardinality(S) \in Nat /\ Cardinality(S) <= Cardinality(Tokens)
  BY <1>3, FS_Subset, FS_CardinalityType
<1> QED
  BY <1>3, <1>4, <1>5

(* What a step may do with the tries of an address: forget them, leave them *)
(* and keep the tokens, or add one try and one token.                       *)
Tried(a) ==
  \/ misses'[a] = 0 /\ raised'[a] = 0
  \/ Tries(a)' = Tries(a) /\ Spent(a) \subseteq Spent(a)'
  \/ /\ Tries(a)' = Tries(a) + 1 /\ Spent(a) \subseteq Spent(a)'
     /\ \E e \in Tokens : e \notin Spent(a) /\ e \in Spent(a)'

(* A step of that kind keeps the tries within the tokens.                   *)
LEMMA TriedIsBounded ==
  ASSUME TriesInv, misses' \in [Addresses -> Nat], raised' \in [Addresses -> Nat],
         NEW a \in Addresses, Tried(a)
  PROVE  Tries(a)' <= Cardinality(Spent(a)')
<1>0. Spent(a) \in SUBSET Tokens /\ Spent(a)' \in SUBSET Tokens
  BY DEF Spent
<1>1. /\ IsFiniteSet(Spent(a)) /\ IsFiniteSet(Spent(a)')
      /\ Cardinality(Spent(a)) \in Nat /\ Cardinality(Spent(a)') \in Nat
  BY <1>0, TokenCount
<1>2. Tries(a) \in Int /\ Tries(a)' \in Int /\ Tries(a) <= Cardinality(Spent(a))
  BY DEF TriesInv, Tries
<1>3. CASE misses'[a] = 0 /\ raised'[a] = 0
  BY <1>1, <1>3 DEF Tries
<1>4. CASE Tries(a)' = Tries(a) /\ Spent(a) \subseteq Spent(a)'
  <2>1. Cardinality(Spent(a)) <= Cardinality(Spent(a)')
    BY <1>1, <1>4, FS_Subset
  <2> QED
    BY <1>1, <1>2, <1>4, <2>1
<1>5. CASE /\ Tries(a)' = Tries(a) + 1 /\ Spent(a) \subseteq Spent(a)'
           /\ \E e \in Tokens : e \notin Spent(a) /\ e \in Spent(a)'
  <2>1. PICK e \in Tokens : e \notin Spent(a) /\ e \in Spent(a)'
    BY <1>5
  <2>2. Spent(a) \cup {e} \subseteq Spent(a)'
    BY <1>5, <2>1
  <2>3. Cardinality(Spent(a) \cup {e}) = Cardinality(Spent(a)) + 1
    BY <1>1, <2>1, FS_AddElement
  <2>4. Cardinality(Spent(a) \cup {e}) <= Cardinality(Spent(a)')
    BY <1>1, <2>2, FS_Subset
  <2> QED
    BY <1>1, <1>2, <1>5, <2>3, <2>4
<1> QED
  BY <1>3, <1>4, <1>5 DEF Tried

(* Tokens stay spent while no lock-out ends and no counter is cleared.      *)
LEMMA SpentGrows ==
  ASSUME NEW a \in Addresses,
         \A p \in Instances : a \in locked[p] => a \in locked'[p],
         \A p \in Instances : /\ failures[p][a] \in Nat /\ failures'[p][a] \in Nat
                              /\ failures[p][a] <= failures'[p][a]
  PROVE  Spent(a) \subseteq Spent(a)'
<1> SUFFICES ASSUME NEW e \in Spent(a) PROVE e \in Spent(a)'
  OBVIOUS
<1>1. e \in Tokens /\ e[1] \in Instances /\ e[2] \in Int
  BY DEF Spent, Tokens
<1>2. CASE a \in locked[e[1]]
  BY <1>1, <1>2 DEF Spent
<1>3. CASE e[2] <= failures[e[1]][a] /\ e[2] < Threshold
  <2>1. e[2] <= failures'[e[1]][a]
    BY <1>1, <1>3
  <2> QED
    BY <1>1, <1>3, <2>1 DEF Spent
<1> QED
  BY <1>2, <1>3 DEF Spent

(* A failure that is counted is one more at its instance and address.       *)
LEMMA CounterStep ==
  ASSUME failures \in [Instances -> [Addresses -> Nat]], NEW p \in Instances,
         NEW b \in Addresses
  PROVE  LET f == [failures EXCEPT ![p][b] = failures[p][b] + 1] IN
         /\ failures[p][b] = f[p][b] - 1 /\ f[p][b] = failures[p][b] + 1
         /\ \A q \in Instances, a \in Addresses :
              failures[q][a] \in Nat /\ f[q][a] \in Nat /\ failures[q][a] <= f[q][a]
<1> DEFINE f == [failures EXCEPT ![p][b] = failures[p][b] + 1]
<1>1. failures[p] \in [Addresses -> Nat] /\ failures[p][b] \in Nat
  OBVIOUS
<1>2. f[p] = [failures[p] EXCEPT ![b] = failures[p][b] + 1]
  OBVIOUS
<1>3. \A q \in Instances : q # p => f[q] = failures[q]
  OBVIOUS
<1>4. f[p][b] = failures[p][b] + 1 /\ \A a \in Addresses : a # b => f[p][a] = failures[p][a]
  BY <1>1, <1>2
<1>5. \A q \in Instances, a \in Addresses : failures[q][a] \in Nat
  OBVIOUS
<1> QED
  BY <1>1, <1>3, <1>4, <1>5

(* A wrong password spends a token, unless the count of it raises; and it   *)
(* raises over a blacklist file with something in it.                       *)
LEMMA FailureTried ==
  ASSUME GuardInv, TriesInv, NEW p \in Instances, NEW b \in Addresses,
         Handles(p, b), b \notin locked[p], AddFailedAttempt(p, b)
  PROVE  /\ misses' \in [Addresses -> Nat] /\ raised' \in [Addresses -> Nat]
         /\ RaisedLate'
         /\ \A a \in Addresses : Tried(a)
<1> USE AccountsAssumption
<1> DEFINE n == failures[p][b] + 1
           blacklists == BlacklistAfter # 0 /\ n >= BlacklistAfter /\ b \notin BlackAfterLoad(p)
           raises == Raises(p) \/ (blacklists /\ ~Appends)
<1>1. /\ misses' = [misses EXCEPT ![b] = @ + 1] /\ misses \in [Addresses -> Nat]
      /\ raised' = [raised EXCEPT ![b] = IF raises THEN @ + 1 ELSE @]
      /\ raised \in [Addresses -> Nat]
      /\ inbox' = [inbox EXCEPT ![p][b] = @ - 1] /\ inbox[p][b] > 0
      /\ inbox \in [Instances -> [Addresses -> Nat]]
      /\ locked \in [Instances -> SUBSET Addresses]
      /\ failures \in [Instances -> [Addresses -> Nat]] /\ n \in Nat
      /\ whiteHash = [q \in Instances |-> Whitelist]
  BY DEF AddFailedAttempt, Handles, GuardInv, ListTypes, CounterTypes, TriesInv
<1>2. Whitelist = Missing
  BY <1>1 DEF TriesInv, RaisedLate
<1>3. raises => BlacklistAfter # 0 /\ blacklist # Missing
  BY <1>1, <1>2 DEF Raises, Appends, Listed, GuardInv, ListedLate
<1>4. \/ Raises(p) /\ UNCHANGED <<lists, failures, locked>>
      \/ /\ ~Raises(p)
         /\ failures' = [failures EXCEPT ![p][b] = n]
         /\ blacklist' = IF blacklists /\ Appends THEN {b} ELSE blacklist
         /\ locked' = [locked EXCEPT ![p] =
                         @ \cup {x \in {b} : Locks(n) /\ (blacklists => Appends)}]
  BY DEF AddFailedAttempt
<1>5. /\ \A a \in Addresses : a # b => misses'[a] = misses[a] /\ raised'[a] = raised[a]
      /\ misses'[b] = misses[b] + 1 /\ raised'[b] = IF raises THEN raised[b] + 1 ELSE raised[b]
      /\ misses' \in [Addresses -> Nat] /\ raised' \in [Addresses -> Nat]
      /\ \A a \in Addresses : misses[a] \in Nat /\ raised[a] \in Nat
  <2> HIDE DEF raises
  <2> QED
    BY <1>1
<1> HIDE DEF blacklists, raises
<1>6. blacklist # Missing => blacklist' = blacklist
  <2>1. blacklist # Missing => ~Appends
    BY DEF Appends, Listed, TriesInv, RaisedLate
  <2> QED
    BY <1>4, <2>1 DEF lists
<1>7. RaisedLate'
  <2>1. blacklist' # Missing => blacklist' # {}
    BY <1>4 DEF TriesInv, RaisedLate, lists
  <2>2. \A a \in Addresses : raised'[a] > 0 => BlacklistAfter # 0 /\ blacklist # Missing
    BY <1>3, <1>5 DEF TriesInv, RaisedLate
  <2> QED
    BY <1>2, <1>6, <2>1, <2>2 DEF RaisedLate
<1>8. ASSUME NEW a \in Addresses PROVE Spent(a) \subseteq Spent(a)'
  <2>1. \A q \in Instances : a \in locked[q] => a \in locked'[q]
    BY <1>1, <1>4
  <2>2. \A q \in Instances : /\ failures[q][a] \in Nat /\ failures'[q][a] \in Nat
                              /\ failures[q][a] <= failures'[q][a]
    <3>1. failures' = failures \/ failures' = [failures EXCEPT ![p][b] = n]
      BY <1>4
    <3>2. CASE failures' = failures
      BY <1>1, <3>2
    <3>3. CASE failures' = [failures EXCEPT ![p][b] = n]
      BY <1>1, <3>3, CounterStep
    <3> QED
      BY <3>1, <3>2, <3>3
  <2> QED
    BY <2>1, <2>2, SpentGrows
<1>9. ASSUME NEW a \in Addresses, a # b PROVE Tried(a)
  BY <1>5, <1>8, <1>9 DEF Tried, Tries
<1>10. CASE raises
  <2>1. Tries(b)' = Tries(b)
    BY <1>5, <1>10 DEF Tries
  <2>2. Tried(b)
    BY <1>8, <2>1 DEF Tried
  <2> QED
    BY <1>5, <1>7, <1>9, <2>2
<1>11. CASE ~raises
  <2>0. ~Raises(p) /\ (blacklists => Appends)
    BY <1>11 DEF raises
  <2>1. Tries(b)' = Tries(b) + 1
    BY <1>5, <1>11 DEF Tries
  <2>2. \E e \in Tokens : e \notin Spent(b) /\ e \in Spent(b)'
    <3>0. b \notin locked[p] /\ failures[p][b] = n - 1 /\ failures'[p][b] = n
      <4>1. failures' = [failures EXCEPT ![p][b] = n]
        BY <1>4, <2>0
      <4> QED
        BY <1>1, <4>1, CounterStep
    <3>1. CASE n < Threshold
      <4>1. <<p, n>> \in Tokens
        BY <1>1, <3>1 DEF Tokens
      <4>2. <<p, n>> \notin Spent(b)
        BY <1>1, <3>0 DEF Spent
      <4>3. <<p, n>> \in Spent(b)'
        BY <1>1, <3>0, <3>1, <4>1 DEF Spent
      <4> QED
        BY <4>1, <4>2, <4>3
    <3>2. CASE ~(n < Threshold)
      <4>1. <<p, Threshold>> \in Tokens
        BY DEF Tokens
      <4>2. <<p, Threshold>> \notin Spent(b)
        BY <3>0 DEF Spent
      <4>3. b \in locked'[p]
        BY <1>1, <1>4, <2>0, <3>2 DEF Locks
      <4>4. <<p, Threshold>> \in Spent(b)'
        BY <4>1, <4>3 DEF Spent
      <4> QED
        BY <4>1, <4>2, <4>4
    <3> QED
      BY <3>1, <3>2
  <2>3. Tried(b)
    BY <1>8, <2>1, <2>2 DEF Tried
  <2> QED
    BY <1>5, <1>7, <1>9, <2>3
<1> QED
  BY <1>10, <1>11

(* A success, or the end of a lock-out, forgets the tries of the address    *)
(* and touches no other.                                                    *)
LEMMA Forgets ==
  ASSUME GuardInv, TriesInv, NEW p \in Instances, NEW b \in Addresses,
         misses' = [misses EXCEPT ![b] = 0], raised' = [raised EXCEPT ![b] = 0],
         locked' = [locked EXCEPT ![p] = @ \ {b}],
         failures' \in {failures, [failures EXCEPT ![p][b] = 0]},
         UNCHANGED blacklist,
         inbox' = inbox \/ (inbox[p][b] > 0 /\ inbox' = [inbox EXCEPT ![p][b] = @ - 1])
  PROVE  /\ misses' \in [Addresses -> Nat] /\ raised' \in [Addresses -> Nat]
         /\ RaisedLate'
         /\ \A a \in Addresses : Tried(a)
<1>1. /\ misses \in [Addresses -> Nat] /\ raised \in [Addresses -> Nat]
      /\ inbox \in [Instances -> [Addresses -> Nat]]
      /\ locked \in [Instances -> SUBSET Addresses]
      /\ failures \in [Instances -> [Addresses -> Nat]]
  BY DEF GuardInv, ListTypes, CounterTypes, TriesInv
<1>2. RaisedLate'
  BY <1>1 DEF TriesInv, RaisedLate
<1>3. ASSUME NEW a \in Addresses, a # b PROVE Tried(a)
  <2>1. Tries(a)' = Tries(a)
    BY <1>1, <1>3 DEF Tries
  <2>2. \A q \in Instances : failures[q][a] \in Nat /\ failures'[q][a] = failures[q][a]
    BY <1>1, <1>3
  <2>3. \A q \in Instances : a \in locked[q] => a \in locked'[q]
    BY <1>1, <1>3
  <2>4. Spent(a) \subseteq Spent(a)'
    BY <2>2, <2>3, SpentGrows
  <2> QED
    BY <2>1, <2>4 DEF Tried
<1>4. Tried(b)
  BY <1>1 DEF Tried
<1> QED
  BY <1>1, <1>2, <1>3, <1>4

(* One case per handler.                                                    *)
LEMMA TriesStep == GuardInv /\ TriesInv /\ [Next]_vars => TriesInv'
<1> DEFINE Goal == /\ misses' \in [Addresses -> Nat] /\ raised' \in [Addresses -> Nat]
                   /\ RaisedLate'
                   /\ \A a \in Addresses : Tried(a)
<1> SUFFICES ASSUME GuardInv, TriesInv, [Next]_vars PROVE Goal
  BY TriedIsBounded DEF TriesInv
<1>t. /\ misses \in [Addresses -> Nat] /\ raised \in [Addresses -> Nat]
      /\ locked \in [Instances -> SUBSET Addresses]
      /\ inbox \in [Instances -> [Addresses -> Nat]]
      /\ failures \in [Instances -> [Addresses -> Nat]]
      /\ whiteHash = [p \in Instances |-> Whitelist]
  BY DEF GuardInv, ListTypes, CounterTypes, TriesInv
<1>1. ASSUME UNCHANGED <<blacklist, failures, misses, raised, locked>>,
             \/ inbox' = inbox
             \/ \E p \in Instances, b \in Addresses :
                  inbox[p][b] > 0 /\ inbox' = [inbox EXCEPT ![p][b] = @ - 1]
      PROVE  Goal
  <2>1. \A a \in Addresses : Tried(a)
    BY <1>1 DEF Tried, Tries, Spent
  <2>2. RaisedLate'
    BY <1>1, <1>t DEF TriesInv, RaisedLate
  <2> QED
    BY <1>1, <1>t, <2>1, <2>2
<1>2. ASSUME NEW p \in Instances, NEW b \in Addresses, Arrive(p, b) PROVE Goal
  <2>1. UNCHANGED <<failures, locked, misses, raised, blacklist>>
    BY <1>2 DEF Arrive, guard
  <2>2. CASE UNCHANGED inbox
    BY <1>1, <2>1, <2>2
  <2>3. CASE ~Raises(p)
    <3>1. Whitelist = Missing
      BY <1>t, <2>3 DEF Raises
    <3>2. RaisedLate'
      BY <2>1, <3>1 DEF TriesInv, RaisedLate
    <3>3. \A a \in Addresses : Tried(a)
      BY <2>1 DEF Tried, Tries, Spent
    <3> QED
      BY <1>t, <2>1, <3>2, <3>3
  <2> QED
    BY <1>2, <2>2, <2>3 DEF Arrive
<1>3. ASSUME NEW p \in Instances, NEW b \in Addresses, LockedOut(p, b) PROVE Goal
  BY <1>1, <1>3 DEF LockedOut, Handles, lists, guard
<1>4. ASSUME NEW p \in Instances, NEW b \in Addresses, LockEnds(p, b) PROVE Goal
  BY <1>4, Forgets DEF LockEnds, lists
<1>5. ASSUME NEW p \in Instances, NEW b \in Addresses, Handles(p, b), b \notin locked[p],
             \/ AddFailedAttempt(p, b)
             \/ RemoveFailedAttempts(p, b) /\ UNCHANGED <<lists, bounds>>
             \/ UNCHANGED <<lists, guard, bounds>>
      PROVE  Goal
  <2>1. CASE AddFailedAttempt(p, b)
    BY <1>5, <2>1, FailureTried
  <2>2. CASE RemoveFailedAttempts(p, b) /\ UNCHANGED lists
    BY <1>5, <2>2, Forgets DEF Handles, RemoveFailedAttempts, lists
  <2>3. CASE UNCHANGED <<lists, guard>>
    BY <1>1, <1>5, <2>3 DEF Handles, lists, guard
  <2> QED
    BY <1>5, <2>1, <2>2, <2>3
<1>6. ASSUME NEW p \in Instances, NEW b \in Addresses, NEW n \in Names,
             NEW by \in Names \cup {Nobody}, Register(p, b, n, by)
      PROVE  Goal
  BY <1>5, <1>6 DEF Register
<1>7. ASSUME NEW p \in Instances, NEW b \in Addresses, NEW n \in Names,
             NEW right \in BOOLEAN, LogIn(p, b, n, right)
      PROVE  Goal
  BY <1>5, <1>7 DEF LogIn
<1>8. ASSUME NEW p \in Instances, AddUser(p) PROVE Goal
  <2>1. reg[p].from \in Addresses
    BY <1>8 DEF AddUser, Free, GuardInv, UsersInv, FirstIsAdmin
  <2>2. CASE UNCHANGED guard
    BY <1>1, <1>8, <2>2 DEF AddUser, lists, guard
  <2>3. CASE RemoveFailedAttempts(p, reg[p].from)
    BY <1>8, <2>1, <2>3, Forgets DEF AddUser, RemoveFailedAttempts, lists
  <2> QED
    BY <1>8, <2>2, <2>3 DEF AddUser
<1>9. ASSUME NEW p \in Instances, Restart(p) PROVE Goal
  <2>1. /\ misses' = Zeroes /\ raised' = Zeroes /\ blacklist' = blacklist
        /\ inbox' = [inbox EXCEPT ![p] = Zeroes]
    BY <1>9 DEF Restart
  <2>2. RaisedLate'
    BY <1>t, <2>1 DEF RaisedLate, TriesInv, Zeroes
  <2> QED
    BY <2>1, <2>2 DEF Zeroes, Tried
<1>10. CASE UNCHANGED vars
  BY <1>1, <1>10 DEF vars, lists, guard
<1> QED
  BY <1>2, <1>3, <1>4, <1>6, <1>7, <1>8, <1>9, <1>10 DEF Next

(* For every fleet and threshold, an address tries no more passwords than   *)
(* the threshold for each instance before a lock-out ends, it succeeds or   *)
(* an instance is restarted, apart from the tries on which the count        *)
(* raises; and no count raises before there is a blacklist file.            *)
THEOREM TriesBoundedHolds == Spec => []TriesBounded
<1>1. Init => TriesInv
  <2> SUFFICES ASSUME Init PROVE TriesInv
    OBVIOUS
  <2>1. /\ misses \in [Addresses -> Nat] /\ \A a \in Addresses : misses[a] = 0
        /\ raised \in [Addresses -> Nat] /\ \A a \in Addresses : raised[a] = 0
    BY DEF Init, Zeroes
  <2>2. RaisedLate
    BY <2>1 DEF Init, RaisedLate, Zeroes
  <2>3. \A a \in Addresses : Spent(a) \in SUBSET Tokens
    BY DEF Spent
  <2>4. \A a \in Addresses : Cardinality(Spent(a)) \in Nat
    BY <2>3, TokenCount
  <2> QED
    BY <2>1, <2>2, <2>4 DEF TriesInv, Tries
<1>2. GuardInv /\ TriesInv /\ [Next]_vars => TriesInv'
  BY TriesStep
<1>3. TriesInv => TriesBounded
  <2> SUFFICES ASSUME TriesInv, NEW a \in Addresses
               PROVE  /\ misses[a] - raised[a] <= Threshold * Cardinality(Instances)
                      /\ raised[a] > 0 => BlacklistAfter # 0 /\ blacklist # Missing
    BY DEF TriesBounded
  <2>1. Spent(a) \in SUBSET Tokens
    BY DEF Spent
  <2>2. /\ Cardinality(Spent(a)) \in Nat
        /\ Cardinality(Spent(a)) <= Cardinality(Tokens)
        /\ Cardinality(Tokens) = Threshold * Cardinality(Instances)
    BY <2>1, TokenCount
  <2>3. misses[a] - raised[a] \in Int /\ misses[a] - raised[a] <= Cardinality(Spent(a))
    BY DEF TriesInv, Tries
  <2>4. IsFiniteSet(Tokens)
    BY TokenCount
  <2>5. Cardinality(Tokens) \in Nat
    BY <2>4, FS_CardinalityType
  <2>6. raised[a] > 0 => BlacklistAfter # 0 /\ blacklist # Missing
    BY DEF TriesInv, RaisedLate
  <2> QED
    BY <2>2, <2>3, <2>5, <2>6
<1> QED
  BY <1>1, <1>2, <1>3, GuardInvHolds, PTL DEF Spec
=============================================================================
