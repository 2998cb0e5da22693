---------------------------- MODULE DashboardProofs ----------------------------
(***************************************************************************)
(* Proofs about Dashboard: what its pages of session schedules say will    *)
(* run is what the ticks sign in, the global ones included as far as some  *)
(* session selects anybody.  That a page may list all active uids of an    *)
(* account where the tick takes the newest rests on the theorem of         *)
(* UserStore that an account on one platform has one at most.              *)
(***************************************************************************)
EXTENDS Dashboard, UserStoreProofs, FiniteSetTheorems, SequenceTheorems

(* The empty keyword selects every row, an argument left out every value.  *)
LEMMA NothingTyped ==
  ASSUME NEW u \in Uids
  PROVE  Occurs(Texts, TextsOf(u))
BY DEF Occurs, TextsOf, Texts

LEMMA LeftOut ==
  ASSUME NEW v
  PROVE  Selects(Unset, v)
BY DEF Selects

LEMMA SwitchedOn ==
  ASSUME NEW u, NEW S
  PROVE  Selects(TRUE, u \in S) <=> u \in S
<1>1. TRUE # Unset
  BY QueryAssumption
<1>2. (TRUE = (u \in S)) <=> u \in S
  OBVIOUS
<1> QED
  BY <1>1, <1>2 DEF Selects

(* The participants that will run, as a set of rows.                       *)
LEMMA ShownIs ==
  ASSUME NEW params, NEW ex
  PROVE  Shown(params, ex) =
           Appended(IF params = Everyone THEN Bound ELSE RowsOf(params) \cap active, ex)
<1>1. \A u \in Bound : Selects(Unset, u \in ex) /\ Occurs(Texts, TextsOf(u))
  BY NothingTyped, LeftOut DEF Bound
<1>2. RowsOf(params) \subseteq Bound
  BY DEF RowsOf
<1> QED
  BY <1>1, <1>2 DEF Shown, BuildScheduleParticipants, ActiveUsersForAccount, WillRun, Appended

(* The account list under its filters shows the active rows of an account  *)
(* that sign in by themselves.                                             *)
LEMMA FilteredIs ==
  ASSUME NEW a \in Accounts
  PROVE  FilterUsers(Texts, a, Unset, TRUE, TRUE) = (RowsOf(a) \cap active) \cap auto
<1>1. ASSUME NEW u \in Bound
      PROVE  /\ Selects(a, account[u]) <=> account[u] = a
             /\ Selects(Unset, platform[u]) /\ Occurs(Texts, TextsOf(u))
             /\ Selects(TRUE, u \in active) <=> u \in active
             /\ Selects(TRUE, u \in auto) <=> u \in auto
  <2>1. a # Unset
    BY QueryAssumption DEF Texts
  <2>2. Selects(a, account[u]) <=> account[u] = a
    BY <2>1 DEF Selects
  <2>3. Selects(Unset, platform[u]) /\ Occurs(Texts, TextsOf(u))
    BY NothingTyped, LeftOut DEF Bound
  <2>4. Selects(TRUE, u \in active) <=> u \in active
    BY SwitchedOn
  <2>5. Selects(TRUE, u \in auto) <=> u \in auto
    BY SwitchedOn
  <2> QED
    BY <2>2, <2>3, <2>4, <2>5
<1>2. ASSUME NEW u
      PROVE  u \in FilterUsers(Texts, a, Unset, TRUE, TRUE)
               <=> u \in (RowsOf(a) \cap active) \cap auto
  BY <1>1 DEF FilterUsers, RowsOf
<1> QED
  BY <1>2

(* A tick picks at most one active row of its account, and one if there is *)
(* one: a newest row always exists.                                        *)
LEMMA PickIs ==
  ASSUME TypeOK, NEW a \in Accounts
  PROVE  /\ GetActiveForAccount(a) # {}
         /\ \A users \in GetActiveForAccount(a) :
              /\ users \subseteq RowsOf(a) \cap active
              /\ RowsOf(a) \cap active # {} => users # {}
<1> DEFINE found == {u \in Bound : account[u] = a /\ u \in active}
           newest == {v \in found : \A w \in found : updated[w] <= updated[v]}
<1>1. found = RowsOf(a) \cap active
  BY DEF RowsOf
<1>2. GetActiveForAccount(a) = IF found = {} THEN {{}} ELSE {{u} : u \in newest}
  BY DEF GetActiveForAccount
<1>3. ASSUME found # {} PROVE newest # {}
  <2>1. now \in Nat /\ \A u \in found : updated[u] \in 0 .. now
    BY TimeAssumption DEF TypeOK, TableOK, Bound
  <2>2. \E m \in found : \A s \in found : updated[s] <= updated[m]
    BY <1>3, <2>1, NewestExists
  <2> QED
    BY <2>2
<1>4. newest \subseteq found
  OBVIOUS
<1> HIDE DEF found, newest
<1>5. CASE found = {}
  BY <1>1, <1>2, <1>5
<1>6. CASE found # {}
  <2>1. GetActiveForAccount(a) = {{u} : u \in newest}
    BY <1>2, <1>6
  <2>2. \A users \in GetActiveForAccount(a) : \E u \in found : users = {u}
    BY <1>4, <2>1
  <2>3. GetActiveForAccount(a) # {}
    BY <1>3, <1>6, <2>1
  <2> QED
    BY <1>1, <2>2, <2>3
<1> QED
  BY <1>5, <1>6

(* For every account there is an answer, and the answer is one of its      *)
(* active rows, if it has any; the only one, on one platform.              *)
LEMMA AnswersExist ==
  ASSUME TypeOK
  PROVE  Answers # {}
<1> DEFINE answer == [a \in Accounts |-> CHOOSE users : users \in GetActiveForAccount(a)]
<1>1. ASSUME NEW a \in Accounts
      PROVE  answer[a] \in GetActiveForAccount(a) /\ answer[a] \in SUBSET Uids
  <2>1. answer[a] \in GetActiveForAccount(a)
    BY PickIs
  <2>2. answer[a] \subseteq RowsOf(a)
    BY <2>1, PickIs
  <2> QED
    BY <2>1, <2>2 DEF RowsOf, Bound
<1>2. answer \in [Accounts -> SUBSET Uids]
  BY <1>1
<1> HIDE DEF answer
<1> QED
  BY <1>1, <1>2 DEF Answers

LEMMA AnswerIs ==
  ASSUME TypeOK, OneActiveOnOnePlatform, NEW answer \in Answers, NEW a \in Accounts
  PROVE  /\ answer[a] \subseteq RowsOf(a) \cap active
         /\ \A u, v \in answer[a] : u = v
         /\ OnOnePlatform(a) => answer[a] = RowsOf(a) \cap active
<1> DEFINE mine == RowsOf(a) \cap active
<1>1. answer[a] \in GetActiveForAccount(a)
  BY DEF Answers
<1>2. answer[a] \subseteq mine /\ (mine # {} => answer[a] # {})
  BY <1>1, PickIs
<1>3. \A u, v \in answer[a] : u = v
  BY <1>1 DEF GetActiveForAccount
<1>4. OnOnePlatform(a) => \A u, v \in mine : u = v
  BY DEF OnOnePlatform, OneActiveOnOnePlatform
<1> HIDE DEF mine
<1>5. OnOnePlatform(a) => answer[a] = mine
  BY <1>2, <1>4
<1> QED
  BY <1>2, <1>3, <1>5 DEF mine

(* What some subscriptions contribute to a tick, and to their pages.       *)
LEMMA SubscriptionIs ==
  ASSUME TypeOK, OneActiveOnOnePlatform, NEW board \in Board, NEW s \in board.subs,
         NEW answer \in Answers, NEW ex
  PROVE  /\ Appended(answer[s[2]], ex) \subseteq Shown(s[2], ex)
         /\ OnOnePlatform(s[2]) => Appended(answer[s[2]], ex) = Shown(s[2], ex)
<1>1. s[2] \in Accounts /\ s[2] # Everyone
  BY QueryAssumption DEF Board
<1>2. Shown(s[2], ex) = Appended(RowsOf(s[2]) \cap active, ex)
  BY <1>1, ShownIs
<1> QED
  BY <1>1, <1>2, AnswerIs DEF Appended

LEMMA SessionsAre ==
  ASSUME TypeOK, OneActiveOnOnePlatform, NEW board \in Board, NEW umos,
         NEW answer \in Answers
  PROVE  /\ SessionUsers(board, umos, answer) \subseteq ShownFor(board, umos)
         /\ OnOnePlatformEach(SubsOf(board, umos))
              => SessionUsers(board, umos, answer) = ShownFor(board, umos)
<1>1. ASSUME NEW s \in SubsOf(board, umos)
      PROVE  LET ex == ExcludedUids(board, s[1]) IN
             /\ Appended(answer[s[2]], ex) \subseteq Shown(s[2], ex)
             /\ OnOnePlatform(s[2]) => Appended(answer[s[2]], ex) = Shown(s[2], ex)
  BY SubscriptionIs DEF SubsOf
<1>2. SessionUsers(board, umos, answer) \subseteq ShownFor(board, umos)
  BY <1>1 DEF SessionUsers, ShownFor
<1>3. ASSUME OnOnePlatformEach(SubsOf(board, umos))
      PROVE  ShownFor(board, umos) \subseteq SessionUsers(board, umos, answer)
  BY <1>1, <1>3 DEF SessionUsers, ShownFor, OnOnePlatformEach
<1> QED
  BY <1>2, <1>3

(* The tick of a session counts an account once, on however many platforms *)
(* and in however many of its subscriptions.                               *)
LEMMA TickCountsOnce ==
  ASSUME TypeOK, OneActiveOnOnePlatform, NEW board \in Board, NEW umos,
         NEW answer \in Answers,
         NEW u \in SessionUsers(board, umos, answer),
         NEW v \in SessionUsers(board, umos, answer), account[u] = account[v]
  PROVE  u = v
<1>1. PICK s \in SubsOf(board, umos) : u \in answer[s[2]]
  BY DEF SessionUsers, Appended
<1>2. PICK r \in SubsOf(board, umos) : v \in answer[r[2]]
  BY DEF SessionUsers, Appended
<1>3. s[2] \in Accounts /\ r[2] \in Accounts
  BY DEF SubsOf, Board
<1>4. account[u] = s[2] /\ account[v] = r[2]
  BY <1>1, <1>2, <1>3, AnswerIs DEF RowsOf
<1>5. \A x, y \in answer[s[2]] : x = y
  BY <1>3, AnswerIs
<1> QED
  BY <1>1, <1>2, <1>4, <1>5

(* The pages of session schedules show what the tick of their session      *)
(* signs in: exactly, for accounts on one platform, and among others, each *)
(* once, for accounts on several.  Of a global tick they show everything   *)
(* if they show anybody; only then its own page is another matter.         *)
THEOREM PagesFollowTicks == Spec => []ParticipantsFollowTick
<1>1. TypeOK /\ OneActiveOnOnePlatform => ParticipantsFollowTick
  <2> SUFFICES ASSUME TypeOK, OneActiveOnOnePlatform,
                      NEW board \in Boards, NEW umo \in Umos
               PROVE  /\ \A answer \in Answers :
                           /\ SessionPagesFollowTick(umo, board, answer)
                           /\ GlobalTickIsOnPages(umo, board, answer)
                      /\ \A a \in Accounts :
                           FilterUsers(Texts, a, Unset, TRUE, TRUE) \ ExcludedUids(board, umo)
                             = Shown(a, ExcludedUids(board, umo))
    BY AnswersExist DEF ParticipantsFollowTick
  <2>1. board \in Board
    BY QueryAssumption
  <2>2. ASSUME NEW answer \in Answers
        PROVE  SessionPagesFollowTick(umo, board, answer)
    <3>1. CollectTickUsers(umo, "session", board, answer) = SessionUsers(board, {umo}, answer)
      BY DEF CollectTickUsers
    <3> QED
      BY <2>1, <3>1, SessionsAre, TickCountsOnce DEF SessionPagesFollowTick
  <2>3. ASSUME NEW answer \in Answers, OnOnePlatformEach(board.subs)
        PROVE  CollectTickUsers(umo, "all", board, answer) =
                 IF ShownFor(board, Umos) # {} THEN ShownFor(board, Umos)
                                               ELSE Shown(Everyone, ExcludedUids(board, umo))
    <3>1. SubsOf(board, Umos) = board.subs
      BY <2>1 DEF SubsOf, Board
    <3>2. SessionUsers(board, Umos, answer) = ShownFor(board, Umos)
      BY <2>1, <2>3, <3>1, SessionsAre
    <3>3. Shown(Everyone, ExcludedUids(board, umo)) = Appended(Bound, ExcludedUids(board, umo))
      BY ShownIs
    <3> QED
      BY <3>2, <3>3 DEF CollectTickUsers, CollectGlobalUsers
  <2>4. ASSUME NEW a \in Accounts, NEW ex
        PROVE  FilterUsers(Texts, a, Unset, TRUE, TRUE) \ ex = Shown(a, ex)
    <3>1. a # Everyone
      BY QueryAssumption
    <3>2. Shown(a, ex) = Appended(RowsOf(a) \cap active, ex)
      BY <3>1, ShownIs
    <3>3. FilterUsers(Texts, a, Unset, TRUE, TRUE) = (RowsOf(a) \cap active) \cap auto
      BY FilteredIs
    <3> QED
      BY <3>2, <3>3 DEF Appended
  <2> QED
    BY <2>2, <2>3, <2>4 DEF GlobalTickIsOnPages
<1> QED
  BY <1>1, TypeCorrect, OneActive, PTL

--------------------------------------------------------------------------------
(* The completions.  BuildSuggestions is a loop, and so its proof is an    *)
(* induction over the turns of the loop.                                   *)

(* What holds before the first turn, and after a turn if it held before,   *)
(* holds after all: a first turn after which it does not cannot exist.     *)
LEMMA AllTurns ==
  ASSUME NEW N \in Nat, NEW T,
         0 \in T, \A n \in 0 .. N : n < N /\ n \in T => n + 1 \in T
  PROVE  0 .. N \subseteq T
<1> DEFINE bad == {n \in 0 .. N : n \notin T}
<1>1. SUFFICES ASSUME bad # {} PROVE FALSE
  OBVIOUS
<1>2. bad \subseteq Nat
  OBVIOUS
<1>3. PICK x \in bad : \A y \in bad : ~ (<<y, x>> \in OpToRel(<, Nat))
  BY <1>1, <1>2, NatLessThanWellFounded, WFMin, Zenon
<1>4. x # 0 /\ x \in 1 .. N
  OBVIOUS
<1>5. x - 1 \in Nat /\ x - 1 < x /\ x - 1 \in 0 .. N /\ (x - 1) + 1 = x /\ x - 1 < N
  BY <1>4
<1>6. x - 1 \notin bad
  BY <1>2, <1>3, <1>5 DEF OpToRel
<1>7. x \in T
  BY <1>5, <1>6
<1> QED
  BY <1>7

(* The loop runs: after n turns it has what turn n makes of what it had    *)
(* before.                                                                 *)
Turns(got, N, suggestions, kw, limit) ==
  got = [n \in 0 .. N |->
           IF n = 0 THEN [seen |-> {}, items |-> <<>>]
                    ELSE Consider(got[n - 1], suggestions[n], kw, limit)]

LEMMA TurnsExist ==
  ASSUME NEW N \in Nat, NEW suggestions, NEW kw, NEW limit
  PROVE  \E got : Turns(got, N, suggestions, kw, limit)
<1> DEFINE T == {n \in 0 .. N : \E got : Turns(got, n, suggestions, kw, limit)}
<1>1. 0 \in T
  <2> DEFINE got == [n \in 0 .. 0 |-> [seen |-> {}, items |-> <<>>]]
  <2>1. got = [n \in 0 .. 0 |->
           IF n = 0 THEN [seen |-> {}, items |-> <<>>]
                    ELSE Consider(got[n - 1], suggestions[n], kw, limit)]
    OBVIOUS
  <2>2. Turns(got, 0, suggestions, kw, limit)
    <3> HIDE DEF got
    <3> QED
      BY <2>1 DEF Turns
  <2> QED
    BY <2>2
<1>2. ASSUME NEW n \in 0 .. N, n < N, n \in T PROVE n + 1 \in T
  <2>1. PICK got : Turns(got, n, suggestions, kw, limit)
    BY <1>2
  <2> HIDE DEF T
  <2> DEFINE more == [m \in 0 .. n + 1 |->
                        IF m = n + 1 THEN Consider(got[n], suggestions[m], kw, limit) ELSE got[m]]
             turn(g, m) == IF m = 0 THEN [seen |-> {}, items |-> <<>>]
                                    ELSE Consider(g[m - 1], suggestions[m], kw, limit)
  <2>2. ASSUME NEW m \in 0 .. n + 1 PROVE more[m] = turn(more, m)
    <3>1. CASE m = n + 1
      BY <3>1
    <3>2. CASE m # n + 1
      <4>1. more[m] = got[m] /\ (m # 0 => more[m - 1] = got[m - 1]) /\ m \in 0 .. n
        BY <3>2
      <4>2. got[m] = turn(got, m)
        BY <2>1, <4>1 DEF Turns
      <4> QED
        BY <4>1, <4>2
    <3> QED
      BY <3>1, <3>2
  <2>3. more = [m \in 0 .. n + 1 |-> more[m]]
    OBVIOUS
  <2>4. more = [m \in 0 .. n + 1 |-> turn(more, m)]
    <3> HIDE DEF more, turn
    <3> QED
      BY <2>2, <2>3
  <2>5. Turns(more, n + 1, suggestions, kw, limit)
    <3> HIDE DEF more
    <3> QED
      BY <2>4 DEF Turns
  <2>6. n + 1 \in 0 .. N
    BY <1>2
  <2> QED
    BY <2>5, <2>6 DEF T
<1>3. N \in T
  <2> HIDE DEF T
  <2> QED
    BY <1>1, <1>2, AllTurns
<1> QED
  BY <1>3

LEMMA LoopRuns ==
  ASSUME NEW N \in Nat, NEW suggestions, NEW kw, NEW limit, Len(suggestions) = N
  PROVE  \E got : /\ Turns(got, N, suggestions, kw, limit)
                  /\ BuildSuggestions(suggestions, kw, limit) = got[N].items
<1> DEFINE got == CHOOSE g : Turns(g, N, suggestions, kw, limit)
<1>1. Turns(got, N, suggestions, kw, limit)
  BY TurnsExist, Zenon
<1>2. BuildSuggestions(suggestions, kw, limit) = got[N].items
  BY DEF BuildSuggestions, Turns
<1> QED
  BY <1>1, <1>2

(* The indices up to the next one: one more, if that is one.               *)
LEMMA UpToNext ==
  ASSUME NEW N \in Nat, NEW S \in SUBSET (1 .. N), NEW n \in 0 .. N
  PROVE  /\ n + 1 \in S => UpTo(n + 1, S) = UpTo(n, S) \cup {n + 1}
         /\ n + 1 \notin S => UpTo(n + 1, S) = UpTo(n, S)
<1>1. /\ UpTo(n, S) \subseteq S /\ UpTo(n + 1, S) \subseteq S
      /\ \A i \in S : (i \in UpTo(n, S) <=> i <= n) /\ (i \in UpTo(n + 1, S) <=> i <= n + 1)
  BY DEF UpTo
<1>2. \A i \in S : i <= n + 1 <=> i <= n \/ i = n + 1
  OBVIOUS
<1> QED
  BY <1>1, <1>2

LEMMA UpToEnds ==
  ASSUME NEW N \in Nat, NEW S \in SUBSET (1 .. N)
  PROVE  UpTo(0, S) = {} /\ UpTo(N, S) = S
<1>1. \A i \in S : ~(i <= 0) /\ i <= N
  OBVIOUS
<1> QED
  BY <1>1 DEF UpTo

(* The rank of a member is a position, and grows with the next member.     *)
LEMMA Ranks ==
  ASSUME NEW N \in Nat, NEW S \in SUBSET (1 .. N), NEW n \in 0 .. N
  PROVE  /\ Cardinality(UpTo(n, S)) \in Nat
         /\ n + 1 \in S => Cardinality(UpTo(n + 1, S)) = Cardinality(UpTo(n, S)) + 1
         /\ \A i \in UpTo(n, S) : /\ Cardinality(UpTo(i, S)) \in Nat \ {0}
                                  /\ Cardinality(UpTo(i, S)) <= Cardinality(UpTo(n, S))
<1>1. ASSUME NEW i \in 0 .. N
      PROVE  IsFiniteSet(UpTo(i, S)) /\ Cardinality(UpTo(i, S)) \in Nat
  <2>1. UpTo(i, S) \in SUBSET (1 .. N)
    BY DEF UpTo
  <2>2. IsFiniteSet(1 .. N)
    BY FS_Interval
  <2>3. IsFiniteSet(UpTo(i, S))
    BY <2>1, <2>2, FS_Subset
  <2> QED
    BY <2>3, FS_CardinalityType
<1>2. ASSUME n + 1 \in S
      PROVE  Cardinality(UpTo(n + 1, S)) = Cardinality(UpTo(n, S)) + 1
  <2>1. n + 1 \notin UpTo(n, S)
    BY DEF UpTo
  <2>2. UpTo(n + 1, S) = UpTo(n, S) \cup {n + 1}
    BY <1>2, UpToNext
  <2> QED
    BY <1>1, <2>1, <2>2, FS_AddElement
<1>3. ASSUME NEW i \in UpTo(n, S)
      PROVE  /\ Cardinality(UpTo(i, S)) \in Nat \ {0}
             /\ Cardinality(UpTo(i, S)) <= Cardinality(UpTo(n, S))
  <2>1. i \in S /\ i <= n
    BY DEF UpTo
  <2>2. i \in 1 .. N
    BY <2>1
  <2>3. i \in UpTo(i, S)
    BY <2>1, <2>2 DEF UpTo
  <2>4. UpTo(i, S) \in SUBSET UpTo(n, S)
    <3>1. \A k \in S : k <= i => k <= n
      BY <2>1, <2>2
    <3> QED
      BY <3>1 DEF UpTo
  <2>5. Cardinality(UpTo(i, S)) # 0
    BY <1>1, <2>2, <2>3, FS_EmptySet
  <2>6. Cardinality(UpTo(i, S)) <= Cardinality(UpTo(n, S))
    BY <1>1, <2>4, FS_Subset
  <2> QED
    BY <1>1, <2>2, <2>5, <2>6
<1> QED
  BY <1>1, <1>2, <1>3

(* After n turns the loop has the first matches among n suggestions, until *)
(* it has as many as were asked for; until then it remembers every folded  *)
(* value that matched.                                                     *)
LoopOK(got, n, S, suggestions, kw, limit) ==
  LET firsts == FirstMatches(suggestions, kw)
      found == Cardinality(UpTo(n, firsts))
  IN  /\ got.items \in Seq(S)
      /\ Len(got.items) = IF found < AtMost(limit) THEN found ELSE AtMost(limit)
      /\ found < AtMost(limit) =>
           got.seen = {Folded(suggestions, i) : i \in UpTo(n, Matching(suggestions, kw))}
      /\ \A i \in UpTo(n, firsts) :
           LET rank == Cardinality(UpTo(i, firsts))
           IN  rank <= Len(got.items) => got.items[rank] = suggestions[i]

(* A turn keeps it so.  Until there are enough, the next suggestion is     *)
(* taken if and only if it is a first match; then, nothing is.             *)
LEMMA TurnKeepsLoopOK ==
  ASSUME NEW N \in Nat, NEW S, NEW suggestions \in [1 .. N -> S], NEW kw, NEW limit \in Int,
         NEW n \in 0 .. N, n < N, NEW got, LoopOK(got, n, S, suggestions, kw, limit)
  PROVE  LoopOK(Consider(got, suggestions[n + 1], kw, limit), n + 1, S, suggestions, kw, limit)
<1> DEFINE s == suggestions[n + 1]
           next == Consider(got, s, kw, limit)
           matching == Matching(suggestions, kw)
           firsts == FirstMatches(suggestions, kw)
           c(i) == Cardinality(UpTo(i, firsts))
           most == AtMost(limit)
<1>1. matching \in SUBSET (1 .. N) /\ firsts \in SUBSET matching /\ firsts \in SUBSET (1 .. N)
  BY DEF Matching, FirstMatches
<1>2. most \in Nat \ {0}
  BY DEF AtMost
<1>3. n + 1 \in matching <=> Occurs(kw, Haystack(s))
  BY DEF Matching
<1>4. n + 1 \in firsts <=>
        /\ n + 1 \in matching
        /\ CaseFold[s.value] \notin {Folded(suggestions, i) : i \in UpTo(n, matching)}
  BY <1>1 DEF FirstMatches, UpTo, Folded
<1> HIDE DEF firsts, matching
<1>5. /\ c(n) \in Nat
      /\ n + 1 \in firsts => /\ c(n + 1) = c(n) + 1
                             /\ UpTo(n + 1, firsts) = UpTo(n, firsts) \cup {n + 1}
      /\ n + 1 \notin firsts => c(n + 1) = c(n) /\ UpTo(n + 1, firsts) = UpTo(n, firsts)
      /\ \A i \in UpTo(n, firsts) : c(i) \in Nat \ {0} /\ c(i) <= c(n)
  BY <1>1, UpToNext, Ranks
<1>6. /\ n + 1 \in matching => UpTo(n + 1, matching) = UpTo(n, matching) \cup {n + 1}
      /\ n + 1 \notin matching => UpTo(n + 1, matching) = UpTo(n, matching)
  BY <1>1, UpToNext
<1>7. /\ got.items \in Seq(S)
      /\ Len(got.items) = IF c(n) < most THEN c(n) ELSE most
      /\ c(n) < most => got.seen = {Folded(suggestions, i) : i \in UpTo(n, matching)}
      /\ \A i \in UpTo(n, firsts) : c(i) <= Len(got.items) => got.items[c(i)] = suggestions[i]
  BY DEF LoopOK, firsts, matching
<1>8. SUFFICES
      /\ next.items \in Seq(S)
      /\ Len(next.items) = IF c(n + 1) < most THEN c(n + 1) ELSE most
      /\ c(n + 1) < most => next.seen = {Folded(suggestions, i) : i \in UpTo(n + 1, matching)}
      /\ \A i \in UpTo(n + 1, firsts) : c(i) <= Len(next.items) => next.items[c(i)] = suggestions[i]
  BY DEF LoopOK, firsts, matching
<1>9. s \in S
  OBVIOUS
<1>10. Folded(suggestions, n + 1) = CaseFold[s.value]
  BY DEF Folded
<1>11. next = IF \/ Len(got.items) >= most
                 \/ CaseFold[s.value] \in got.seen
                 \/ ~Occurs(kw, Haystack(s))
              THEN got
              ELSE [seen |-> got.seen \cup {CaseFold[s.value]}, items |-> Append(got.items, s)]
  BY DEF Consider
<1> HIDE DEF s, next, c, most
<1>12. CASE c(n) >= most
  <2>1. next = got /\ c(n + 1) >= most /\ Len(got.items) = most
    BY <1>2, <1>5, <1>7, <1>11, <1>12
  <2>2. n + 1 \in firsts => c(n + 1) > Len(got.items)
    BY <1>2, <1>5, <1>12, <2>1
  <2> QED
    BY <1>2, <1>5, <1>7, <2>1, <2>2
<1>13. CASE c(n) < most /\ n + 1 \in firsts
  <2>1. next.seen = got.seen \cup {CaseFold[s.value]} /\ next.items = Append(got.items, s)
    BY <1>2, <1>3, <1>4, <1>5, <1>7, <1>11, <1>13
  <2>2. n + 1 \in matching
    BY <1>1, <1>13
  <2>3. c(n + 1) = c(n) + 1 /\ Len(got.items) = c(n)
    BY <1>5, <1>7, <1>13
  <2>4. /\ next.items \in Seq(S) /\ Len(next.items) = c(n) + 1
        /\ next.items[c(n) + 1] = s
        /\ \A k \in 1 .. c(n) : next.items[k] = got.items[k]
    BY <1>5, <1>7, <1>9, <2>1, <2>3
  <2>5. Len(next.items) = IF c(n + 1) < most THEN c(n + 1) ELSE most
    BY <1>2, <1>5, <1>13, <2>3, <2>4
  <2>6. next.seen = {Folded(suggestions, i) : i \in UpTo(n + 1, matching)}
    BY <1>6, <1>7, <1>10, <1>13, <2>1, <2>2
  <2>7. ASSUME NEW i \in UpTo(n + 1, firsts)
        PROVE  next.items[c(i)] = suggestions[i]
    <3>1. CASE i = n + 1
      BY <2>3, <2>4, <3>1 DEF s
    <3>2. CASE i # n + 1
      <4>1. i \in UpTo(n, firsts) /\ c(i) \in 1 .. c(n)
        BY <1>5, <1>13, <3>2
      <4> QED
        BY <1>5, <1>7, <2>3, <2>4, <4>1
    <3> QED
      BY <3>1, <3>2
  <2> QED
    BY <2>4, <2>5, <2>6, <2>7
<1>14. CASE c(n) < most /\ n + 1 \notin firsts
  <2>1. next = got
    BY <1>3, <1>4, <1>7, <1>11, <1>14
  <2>2. c(n + 1) = c(n) /\ UpTo(n + 1, firsts) = UpTo(n, firsts)
    BY <1>5, <1>14
  <2>3. {Folded(suggestions, i) : i \in UpTo(n + 1, matching)}
          = {Folded(suggestions, i) : i \in UpTo(n, matching)}
    BY <1>4, <1>6, <1>10, <1>14
  <2> QED
    BY <1>7, <1>14, <2>1, <2>2, <2>3
<1> QED
  BY <1>2, <1>5, <1>12, <1>13, <1>14

(* So, whatever the suggestions are, the completions are the first matches *)
(* among them, in order and up to the limit.                               *)
LEMMA CompletionsComplete ==
  ASSUME NEW N \in Nat, NEW S, NEW suggestions \in [1 .. N -> S], NEW kw, NEW limit \in Int
  PROVE  Complete(BuildSuggestions(suggestions, kw, limit), suggestions, kw, limit)
<1> DEFINE firsts == FirstMatches(suggestions, kw)
<1>2. Len(suggestions) = N
  <2>1. suggestions \in Seq(S)
    BY SeqDef
  <2>2. Len(suggestions) \in Nat /\ DOMAIN suggestions = 1 .. Len(suggestions)
    BY <2>1, LenProperties
  <2>3. DOMAIN suggestions = 1 .. N
    OBVIOUS
  <2> QED
    BY <2>2, <2>3
<1>3. PICK got : /\ Turns(got, N, suggestions, kw, limit)
                 /\ BuildSuggestions(suggestions, kw, limit) = got[N].items
  BY <1>2, LoopRuns
<1>4. firsts \in SUBSET (1 .. N) /\ Matching(suggestions, kw) \in SUBSET (1 .. N)
  BY DEF FirstMatches, Matching
<1> DEFINE T == {n \in 0 .. N : LoopOK(got[n], n, S, suggestions, kw, limit)}
<1>5. 0 \in T
  <2>1. got[0] = [seen |-> {}, items |-> <<>>]
    BY <1>3 DEF Turns
  <2>2. UpTo(0, firsts) = {} /\ UpTo(0, Matching(suggestions, kw)) = {}
    BY <1>4, UpToEnds
  <2>3. Cardinality({}) = 0
    BY FS_EmptySet
  <2>4. AtMost(limit) > 0
    BY DEF AtMost
  <2>5. got[0].items = <<>> /\ got[0].seen = {}
    BY <2>1
  <2>6. <<>> \in Seq(S) /\ Len(<<>>) = 0
    OBVIOUS
  <2>7. LoopOK(got[0], 0, S, suggestions, kw, limit)
    BY <2>2, <2>3, <2>4, <2>5, <2>6 DEF LoopOK
  <2> QED
    BY <2>7
<1>6. ASSUME NEW n \in 0 .. N, n < N, n \in T PROVE n + 1 \in T
  <2>0. n + 1 \in 0 .. N /\ n + 1 # 0 /\ (n + 1) - 1 = n
    BY <1>6
  <2>1. got[n + 1] = Consider(got[n], suggestions[n + 1], kw, limit)
    BY <1>3, <2>0 DEF Turns
  <2>2. LoopOK(got[n + 1], n + 1, S, suggestions, kw, limit)
    BY <1>6, <2>1, TurnKeepsLoopOK
  <2> QED
    BY <1>6, <2>2
<1>7. LoopOK(got[N], N, S, suggestions, kw, limit)
  <2>1. N \in T
    <3> HIDE DEF T
    <3>1. 0 .. N \subseteq T
      BY <1>5, <1>6, AllTurns
    <3> QED
      BY <3>1
  <2> QED
    BY <2>1
<1>8. UpTo(N, firsts) = firsts
  BY <1>4, UpToEnds
<1> QED
  BY <1>3, <1>7, <1>8 DEF LoopOK, Complete

--------------------------------------------------------------------------------
(* A table is finite, however many uids there are: a step binds one.       *)
LEMMA TableFinite == Spec => []IsFiniteSet(Bound)
<1>1. Init => IsFiniteSet(Bound)
  <2>1. Init => Bound = {}
    BY DEF Init, Bound
  <2> QED
    BY <2>1, FS_EmptySet
<1>2. ASSUME TypeOK, IsFiniteSet(Bound), [Next]_vars
      PROVE  IsFiniteSet(Bound)'
  <2>1. \E u : Bound' \subseteq Bound \cup {u}
    <3> USE DEF TypeOK, TableOK, Bound
    <3>1. ASSUME NEW u \in Uids, NEW a \in Accounts, NEW p \in PlatformsOf[a],
                 AddOrUpdate(u, a, p)
          PROVE  Bound' \subseteq Bound \cup {u}
      BY <1>2, <3>1 DEF AddOrUpdate
    <3>2. ASSUME NEW u \in Uids, NEW a \in Accounts, DeleteAccount(a, u)
          PROVE  Bound' \subseteq Bound
      BY <1>2, <3>2 DEF DeleteAccount, Remove, Drop
    <3>3. ASSUME FinishCleanup
          PROVE  Bound' \subseteq Bound
      BY <1>2, <3>3 DEF FinishCleanup, Drop
    <3>4. ASSUME UNCHANGED account
          PROVE  Bound' \subseteq Bound
      BY <3>4
    <3>5. \/ \E u \in Uids, a \in Accounts : \E p \in PlatformsOf[a] : AddOrUpdate(u, a, p)
          \/ \E u \in Uids, a \in Accounts : DeleteAccount(a, u)
          \/ FinishCleanup
          \/ UNCHANGED account
      BY <1>2, Zenon
         DEF Next, SwitchActive, SetAutoCheckin, CheckFriend, BeginCleanup, Clock, columns, vars
    <3> HIDE DEF Bound, TypeOK, TableOK
    <3> QED
      BY <3>1, <3>2, <3>3, <3>4, <3>5
  <2>2. PICK u : Bound' \subseteq Bound \cup {u}
    BY <2>1
  <2>3. IsFiniteSet(Bound \cup {u})
    BY <1>2, FS_AddElement
  <2>4. Bound' \in SUBSET (Bound \cup {u})
    BY <2>2
  <2> QED
    BY <2>3, <2>4, FS_Subset, Zenon
<1> QED
  BY <1>1, <1>2, TypeCorrect, PTL DEF Spec

(* So list_all gives lists, and the suggestions made of one are a list.    *)
LEMMA SuggestionsAreLists ==
  ASSUME IsFiniteSet(Bound), NEW rows \in ListAll, NEW field \in Fields
  PROVE  \E N \in Nat : \E S : SuggestionValues(rows, field) \in [1 .. N -> S]
<1>1. Cardinality(Bound) \in Nat /\ rows \in [1 .. Cardinality(Bound) -> Bound]
  <2>1. rows \in [1 .. Cardinality(Bound) -> Bound]
    BY DEF ListAll, Bijection, Injection
  <2> QED
    BY <2>1, FS_CardinalityType
<1>2. DOMAIN rows = 1 .. Cardinality(Bound)
  BY <1>1
<1>3. Len(rows) \in Nat
  <2>1. rows \in Seq(Bound)
    BY <1>1, SeqDef
  <2> QED
    BY <2>1, LenProperties
<1>4. 3 * Len(rows) \in Nat
  BY <1>3
<1>5. CASE field = "keyword"
  <2> DEFINE of(n) == SuggestionsOf(rows[(n + 2) \div 3])[((n - 1) % 3) + 1]
             S == {of(n) : n \in 1 .. 3 * Len(rows)}
  <2>1. SuggestionValues(rows, field) = [n \in 1 .. 3 * Len(rows) |-> of(n)]
    BY <1>5 DEF SuggestionValues, AccountKeyword
  <2>2. [n \in 1 .. 3 * Len(rows) |-> of(n)] \in [1 .. 3 * Len(rows) -> S]
    <3> HIDE DEF of
    <3> QED
      OBVIOUS
  <2> HIDE DEF of, S
  <2> QED
    BY <1>4, <2>1, <2>2
<1>6. CASE field = "sp_uid"
  <2> DEFINE of(i) == Suggestion(rows[i], "uid", {})
             S == {of(i) : i \in DOMAIN rows}
  <2>1. SuggestionValues(rows, field) = [i \in DOMAIN rows |-> of(i)]
    BY <1>6 DEF SuggestionValues
  <2>2. [i \in DOMAIN rows |-> of(i)] \in [1 .. Cardinality(Bound) -> S]
    <3> HIDE DEF of
    <3> QED
      BY <1>2
  <2> HIDE DEF of, S
  <2> QED
    BY <1>1, <2>1, <2>2
<1>7. CASE field = "account"
  <2> DEFINE of(i) == Suggestion(account[rows[i]], "user", {})
             S == {of(i) : i \in DOMAIN rows}
  <2>1. SuggestionValues(rows, field) = [i \in DOMAIN rows |-> of(i)]
    BY <1>7 DEF SuggestionValues
  <2>2. [i \in DOMAIN rows |-> of(i)] \in [1 .. Cardinality(Bound) -> S]
    <3> HIDE DEF of
    <3> QED
      BY <1>2
  <2> HIDE DEF of, S
  <2> QED
    BY <1>1, <2>1, <2>2
<1>8. CASE field = "platform"
  <2> DEFINE of(i) == Suggestion(platform[rows[i]], "platform", {})
             S == {of(i) : i \in DOMAIN rows}
  <2>1. SuggestionValues(rows, field) = [i \in DOMAIN rows |-> of(i)]
    BY <1>8 DEF SuggestionValues
  <2>2. [i \in DOMAIN rows |-> of(i)] \in [1 .. Cardinality(Bound) -> S]
    <3> HIDE DEF of
    <3> QED
      BY <1>2
  <2> HIDE DEF of, S
  <2> QED
    BY <1>1, <2>1, <2>2
<1> QED
  BY <1>5, <1>6, <1>7, <1>8 DEF Fields

(* The completions of any field, keyword and limit over any table miss     *)
(* nothing: they are the first matches of each folded value, in the order  *)
(* of the suggestions, up to the limit.                                    *)
THEOREM CompletionsMissNothing == Spec => []SuggestionsComplete
<1>1. IsFiniteSet(Bound) => SuggestionsComplete
  <2> SUFFICES ASSUME IsFiniteSet(Bound), NEW rows \in ListAll, NEW field \in Fields,
                      NEW kw \in Keywords, NEW limit \in Limits,
                      NEW suggestions, suggestions = SuggestionValues(rows, field)
               PROVE  Complete(BuildSuggestions(suggestions, kw, limit), suggestions, kw, limit)
    BY DEF SuggestionsComplete
  <2>1. PICK N \in Nat : \E S : suggestions \in [1 .. N -> S]
    BY SuggestionsAreLists
  <2>2. PICK S : suggestions \in [1 .. N -> S]
    BY <2>1
  <2>3. limit \in Int
    BY QueryAssumption
  <2> QED
    BY <2>2, <2>3, CompletionsComplete
<1> QED
  BY <1>1, TableFinite, PTL
================================================================================
