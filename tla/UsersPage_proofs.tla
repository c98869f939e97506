--------------------------- MODULE UsersPage_proofs -------------------------
(***************************************************************************)
(* Proofs about the page of the users, for any number of pages, of loads   *)
(* and of edits in flight.                                                 *)
(***************************************************************************)
EXTENDS UsersPage, SequenceTheorems, TLAPS

\* What a load in flight holds.
LoadRows == [token : Pages, next : Pages \cup {None}]

\* Every answer announces the page after its own, or none.
AnswersFollow ==
    /\ \A l \in InFlight : load[l].next \in {None, 0, load[l].token + 1}
    /\ nextToken # 0 => shown # None /\ nextToken = shown + 1

PathInv == TypeOK /\ AnswersFollow /\ StackIsPath

\* As long as loads have not overlapped there is one at most; it is for the
\* page the user is on, unless it is an edit's of a page the user had left.
OneLoad ==
    ~mixed => /\ \A l, m \in InFlight : l = m
              /\ ~left => \A l \in InFlight : load[l].token = currentToken

DisplayInv == TypeOK /\ OneLoad /\ ShowsCurrent /\ SpinnerTells

-----------------------------------------------------------------------------
(* Types.                                                                  *)

\* Tokens are natural numbers, and that of the first page is one of them.
LEMMA PagesAreNat == Pages \subseteq Nat /\ (TypeOK => 0 \in Pages)
BY UsersPageAssumption DEF Pages, TypeOK

\* The token of an answer leads to a page, the one after the token's own or
\* the first.
LEMMA TokenAfterType ==
  ASSUME TypeOK, NEW page \in Pages
  PROVE  TokenAfter(page) \in Pages /\ TokenAfter(page) \in {0, page + 1}
<1>1. CASE page < lastPage
  <2>1. lastPage \in LastPages /\ lastPage \in Nat /\ page \in Nat
    BY UsersPageAssumption, PagesAreNat DEF TypeOK
  <2>2. page + 1 \in 0..lastPage
    BY <1>1, <2>1
  <2> QED
    BY <1>1, <2>1, <2>2 DEF TokenAfter, Pages
<1>2. CASE ~(page < lastPage)
  BY <1>2, PagesAreNat DEF TokenAfter
<1> QED
  BY <1>1, <1>2

\* A load is not None.
LEMMA LoadIsNotNone == None \notin LoadRows
BY PagesAreNat, UsersPageAssumption DEF LoadRows

\* A load in flight has a token.
LEMMA LoadType ==
  ASSUME TypeOK, NEW l \in InFlight
  PROVE  l \in Loads /\ load[l] # None /\ load[l] \in LoadRows
BY DEF TypeOK, InFlight, NoLoad, LoadRows

\* What StartLoad adds.
LEMMA StartLoadType ==
  ASSUME TypeOK, NEW token \in Pages, StartLoad(token)
  PROVE  /\ load' \in [Loads -> LoadRows \cup {None}]
         /\ loading' = TRUE /\ mixed' \in BOOLEAN
BY DEF TypeOK, StartLoad, LoadRows, NoLoad

\* What a click that turns the page does to the loads.
LEMMA SetCurrentTokenType ==
  ASSUME TypeOK, NEW token \in Pages, SetCurrentToken(token)
  PROVE  /\ currentToken' = token
         /\ load' \in [Loads -> LoadRows \cup {None}]
         /\ {loading', mixed', left'} \subseteq BOOLEAN
BY StartLoadType DEF TypeOK, SetCurrentToken, LoadRows

\* The mounted page has asked for its first page.
LEMMA InitTypeOK == Init => TypeOK
<1> SUFFICES ASSUME Init
             PROVE  TypeOK
  OBVIOUS
<1>1. 0 \in Pages
  BY UsersPageAssumption DEF Init, Pages
<1>2. [token |-> 0, next |-> None] \in LoadRows
  BY <1>1 DEF LoadRows
<1>3. load \in [Loads -> LoadRows \cup {None}]
  BY <1>2 DEF Init
<1>4. prevTokens \in Seq(Pages) /\ Len(prevTokens) <= MaxStack
  BY UsersPageAssumption DEF Init
<1>5. edit \in [Edits -> Pages \cup {None}]
  BY DEF Init
<1> QED
  BY <1>1, <1>3, <1>4, <1>5 DEF Init, TypeOK, LoadRows

\* Every click, answer and failure keeps the types.
LEMMA NextTypeOK == TypeOK /\ [Next]_vars => TypeOK'
<1> SUFFICES ASSUME TypeOK, [Next]_vars
             PROVE  TypeOK'
  OBVIOUS
<1> USE DEF TypeOK
<1>1. CASE ClickNext
  <2>1. /\ prevTokens' \in Seq(Pages)
        /\ Len(prevTokens') <= MaxStack
    BY <1>1, UsersPageAssumption DEF ClickNext
  <2>2. nextToken \in Pages /\ SetCurrentToken(nextToken)
    BY <1>1 DEF ClickNext
  <2> QED
    BY <1>1, <2>1, <2>2, SetCurrentTokenType DEF ClickNext, LoadRows
<1>2. CASE ClickPrev
  <2>1. /\ Len(prevTokens) \in 1..MaxStack
        /\ prevTokens[Len(prevTokens)] \in Pages
    BY <1>2, UsersPageAssumption DEF ClickPrev
  <2>2. /\ prevTokens' \in Seq(Pages)
        /\ Len(prevTokens') <= MaxStack
    BY <1>2, <2>1, UsersPageAssumption DEF ClickPrev
  <2>3. SetCurrentToken(prevTokens[Len(prevTokens)])
    BY <1>2 DEF ClickPrev
  <2> QED
    BY <1>2, <2>1, <2>2, <2>3, SetCurrentTokenType DEF ClickPrev, LoadRows
<1>3. CASE OthersEdit
  BY <1>3 DEF OthersEdit, pageVars
<1>4. ASSUME NEW e \in Edits, ClickEdit(e) \/ EditFails(e)
      PROVE  TypeOK'
  BY <1>4 DEF ClickEdit, EditFails, pageVars
<1>5. ASSUME NEW e \in Edits, EditAnswered(e)
      PROVE  TypeOK'
  <2>1. edit[e] \in Pages /\ StartLoad(edit[e])
    BY <1>5 DEF EditAnswered
  <2> QED
    BY <1>5, <2>1, StartLoadType DEF EditAnswered, LoadRows
<1>6. ASSUME NEW l \in Loads, Serve(l)
      PROVE  TypeOK'
  <2>1. load[l] \in LoadRows
    BY <1>6 DEF Serve, LoadRows
  <2>2. TokenAfter(load[l].token) \in Pages
    BY <2>1, TokenAfterType DEF LoadRows
  <2>3. [load[l] EXCEPT !.next = TokenAfter(load[l].token)] \in LoadRows
    BY <2>1, <2>2 DEF LoadRows
  <2>4. load' \in [Loads -> LoadRows \cup {None}]
    BY <1>6, <2>3 DEF Serve, LoadRows
  <2> QED
    BY <1>6, <2>4 DEF Serve, pageVars, LoadRows
<1>7. ASSUME NEW l \in Loads, LoadAnswered(l) \/ LoadFails(l)
      PROVE  TypeOK'
  BY <1>7 DEF LoadAnswered, LoadFails
<1>8. CASE UNCHANGED vars
  BY <1>8 DEF vars, pageVars
<1> QED
  BY <1>1, <1>2, <1>3, <1>4, <1>5, <1>6, <1>7, <1>8 DEF Next

\* The state of the page, its loads and its edits keep their types.
THEOREM TypeCorrect == Spec => []TypeOK
<1>1. Init => TypeOK
  BY InitTypeOK
<1>2. TypeOK /\ [Next]_vars => TypeOK'
  BY NextTypeOK
<1> QED
  BY <1>1, <1>2, PTL DEF Spec

-----------------------------------------------------------------------------
(* The stack.                                                              *)

\* A token that SetCurrentToken loads is not yet answered.
LEMMA StartedLoadsUnanswered ==
  ASSUME TypeOK, NEW token \in Pages, StartLoad(token) \/ UNCHANGED load
  PROVE  \A l \in InFlight' : load'[l].next = None \/ (l \in InFlight /\ load'[l] = load[l])
<1>1. CASE UNCHANGED load
  BY <1>1 DEF InFlight, NoLoad
<1>2. CASE StartLoad(token)
  BY <1>2 DEF TypeOK, StartLoad, InFlight, NoLoad
<1> QED
  BY <1>1, <1>2

\* Answers go on announcing the page after their own.
LEMMA AnswersFollowStep ==
  ASSUME TypeOK, AnswersFollow, [Next]_vars
  PROVE  AnswersFollow'
<1>1. ASSUME NEW token \in Pages, StartLoad(token) \/ UNCHANGED load, UNCHANGED <<nextToken, shown>>
      PROVE  AnswersFollow'
  BY <1>1, StartedLoadsUnanswered DEF AnswersFollow
<1>2. CASE ClickNext
  BY <1>1, <1>2 DEF TypeOK, ClickNext, SetCurrentToken
<1>3. CASE ClickPrev
  <2>1. prevTokens[Len(prevTokens)] \in Pages
    BY <1>3 DEF TypeOK, ClickPrev
  <2> QED
    BY <1>1, <1>3, <2>1 DEF ClickPrev, SetCurrentToken
<1>4. ASSUME NEW e \in Edits, ClickEdit(e) \/ EditAnswered(e) \/ EditFails(e)
      PROVE  AnswersFollow'
  <2>1. (StartLoad(edit[e]) /\ edit[e] \in Pages) \/ UNCHANGED load
    BY <1>4 DEF TypeOK, ClickEdit, EditAnswered, EditFails
  <2>2. UNCHANGED <<nextToken, shown>>
    BY <1>4 DEF ClickEdit, EditAnswered, EditFails, pageVars
  <2> QED
    BY <1>1, <2>1, <2>2, PagesAreNat
<1>5. ASSUME NEW l \in Loads, Serve(l)
      PROVE  AnswersFollow'
  <2>1. load[l] \in LoadRows
    BY <1>5 DEF TypeOK, Serve, LoadRows
  <2>2. TokenAfter(load[l].token) \in {0, load[l].token + 1}
    BY <2>1, TokenAfterType DEF LoadRows
  <2>3. load'[l].token = load[l].token /\ load'[l].next = TokenAfter(load[l].token)
    BY <1>5, <2>1 DEF TypeOK, Serve, LoadRows
  <2>4. \A m \in Loads : m # l => load'[m] = load[m]
    BY <1>5 DEF TypeOK, Serve
  <2>5. UNCHANGED <<nextToken, shown>>
    BY <1>5 DEF Serve, pageVars
  <2> QED
    BY <2>2, <2>3, <2>4, <2>5 DEF AnswersFollow, InFlight, NoLoad
<1>6. ASSUME NEW l \in Loads, LoadAnswered(l)
      PROVE  AnswersFollow'
  <2>1. l \in InFlight /\ load[l] \in LoadRows /\ load[l].token # None
    BY <1>6, PagesAreNat, UsersPageAssumption DEF TypeOK, LoadAnswered, InFlight, NoLoad, LoadRows
  <2>2. nextToken' # 0 => shown' # None /\ nextToken' = shown' + 1
    BY <1>6, <2>1 DEF AnswersFollow, LoadAnswered
  <2>3. \A m \in InFlight' : m \in InFlight /\ load'[m] = load[m]
    BY <1>6 DEF TypeOK, LoadAnswered, InFlight, NoLoad
  <2> QED
    BY <2>2, <2>3 DEF AnswersFollow
<1>7. ASSUME NEW l \in Loads, LoadFails(l)
      PROVE  AnswersFollow'
  BY <1>7 DEF TypeOK, LoadFails, AnswersFollow, InFlight, NoLoad
<1>8. CASE OthersEdit \/ UNCHANGED vars
  BY <1>8 DEF OthersEdit, vars, pageVars, AnswersFollow, InFlight, NoLoad
<1> QED
  BY <1>2, <1>3, <1>4, <1>5, <1>6, <1>7, <1>8 DEF Next

\* Pressed on the page it belongs to, Next goes one page on; Previous goes
\* back to where Next came from.
LEMMA PathStep == PathInv /\ [Next]_vars => PathInv'
<1> SUFFICES ASSUME PathInv, [Next]_vars
             PROVE  StackIsPath'
  BY NextTypeOK, AnswersFollowStep DEF PathInv
<1>1. /\ TypeOK /\ prevTokens \in Seq(Nat) /\ currentToken \in Nat /\ nextToken \in Nat
      /\ ~hasty => /\ \A i \in 1..Len(prevTokens) : prevTokens[i] = i - 1
                   /\ currentToken = Len(prevTokens)
  <2>1. prevTokens \in Seq(Nat) /\ currentToken \in Nat /\ nextToken \in Nat
    BY PagesAreNat DEF PathInv, TypeOK
  <2>2. Len(prevTokens) \in Nat /\ DOMAIN prevTokens = 1..Len(prevTokens)
    BY <2>1
  <2>3. ASSUME NEW i \in 1..Len(prevTokens)
        PROVE  Append(prevTokens, currentToken)[i] = prevTokens[i]
    BY <2>1, <2>3
  <2>4. Append(prevTokens, currentToken)[Len(prevTokens) + 1] = currentToken
    BY <2>1
  <2>5. ASSUME ~hasty, NEW i \in 1..Len(prevTokens)
        PROVE  prevTokens[i] = i - 1
    BY <2>2, <2>3, <2>5 DEF PathInv, StackIsPath
  <2>6. ASSUME ~hasty
        PROVE  currentToken = Len(prevTokens)
    <3>1. Append(prevTokens, currentToken)[Len(prevTokens) + 1] = Len(prevTokens) + 1 - 1
      BY <2>2, <2>6 DEF PathInv, StackIsPath
    <3> QED
      BY <2>2, <2>4, <3>1
  <2> QED
    BY <2>1, <2>5, <2>6 DEF PathInv
<1>2. ASSUME prevTokens' \in Seq(Nat), currentToken' \in Nat,
             ~hasty' => /\ \A i \in 1..Len(prevTokens') : prevTokens'[i] = i - 1
                        /\ currentToken' = Len(prevTokens')
      PROVE  StackIsPath'
  BY <1>2 DEF StackIsPath
<1>3. CASE ClickNext
  <2>1. prevTokens' = Append(prevTokens, currentToken) /\ currentToken' = nextToken
    BY <1>3 DEF ClickNext, SetCurrentToken
  <2>2. ASSUME ~hasty'
        PROVE  ~hasty /\ nextToken = currentToken + 1
    BY <1>3, <2>2, <1>1, UsersPageAssumption DEF ClickNext, PathInv, AnswersFollow
  <2>3. /\ Len(prevTokens') = Len(prevTokens) + 1
        /\ \A i \in 1..Len(prevTokens) : prevTokens'[i] = prevTokens[i]
        /\ prevTokens'[Len(prevTokens) + 1] = currentToken
    BY <2>1, <1>1
  <2> QED
    BY <1>1, <1>2, <2>1, <2>2, <2>3
<1>4. CASE ClickPrev
  <2>1. /\ prevTokens # <<>>
        /\ prevTokens' = SubSeq(prevTokens, 1, Len(prevTokens) - 1)
        /\ currentToken' = prevTokens[Len(prevTokens)]
        /\ hasty' = hasty
    BY <1>4 DEF ClickPrev, SetCurrentToken
  <2>2. Len(prevTokens) \in Nat \ {0}
    BY <2>1, <1>1
  <2>3. /\ prevTokens' \in Seq(Nat)
        /\ Len(prevTokens') = Len(prevTokens) - 1
        /\ \A i \in 1..(Len(prevTokens) - 1) : prevTokens'[i] = prevTokens[i]
    <3>1. \A i \in 1..(Len(prevTokens) - 1) : prevTokens[i] \in Nat
      BY <2>2, <1>1
    <3> DEFINE s == SubSeq(prevTokens, 1, Len(prevTokens) - 1)
    <3>2. /\ s \in Seq(Nat)
          /\ Len(s) = IF 1 <= Len(prevTokens) - 1 THEN Len(prevTokens) - 1 - 1 + 1 ELSE 0
          /\ \A i \in 1..(Len(prevTokens) - 1 - 1 + 1) : s[i] = prevTokens[1 + i - 1]
      BY <2>2, <3>1, SubSeqProperties
    <3> HIDE DEF s
    <3>3. \A i \in 1..(Len(prevTokens) - 1) : s[i] = prevTokens[i]
      BY <2>2, <3>2
    <3>4. s = prevTokens'
      BY <2>1 DEF s
    <3> QED
      BY <2>2, <3>2, <3>3, <3>4
  <2>4. currentToken' \in Nat
    BY <2>1, <2>2, <1>1
  <2> QED
    BY <1>1, <1>2, <2>1, <2>2, <2>3, <2>4
<1>5. ASSUME UNCHANGED <<prevTokens, currentToken, hasty>>
      PROVE  StackIsPath'
  BY <1>5 DEF PathInv, StackIsPath
<1>6. ASSUME NEW e \in Edits, ClickEdit(e) \/ EditAnswered(e) \/ EditFails(e)
      PROVE  StackIsPath'
  BY <1>5, <1>6 DEF ClickEdit, EditAnswered, EditFails, pageVars
<1>7. ASSUME NEW l \in Loads, Serve(l) \/ LoadAnswered(l) \/ LoadFails(l)
      PROVE  StackIsPath'
  BY <1>5, <1>7 DEF Serve, LoadAnswered, LoadFails, pageVars
<1>8. CASE OthersEdit \/ UNCHANGED vars
  BY <1>5, <1>8 DEF OthersEdit, vars, pageVars
<1> QED
  BY <1>3, <1>4, <1>6, <1>7, <1>8 DEF Next

\* The stack leads back one page at a time, unless Next was pressed while
\* another page was on display.
THEOREM StackHolds == Spec => []StackIsPath
<1>1. Init => PathInv
  <2> SUFFICES ASSUME Init
               PROVE  AnswersFollow /\ StackIsPath
    BY InitTypeOK DEF PathInv
  <2>1. AnswersFollow
    BY DEF Init, AnswersFollow, InFlight, NoLoad
  <2>2. Append(prevTokens, currentToken) = <<0>> /\ Len(prevTokens) = 0
    BY DEF Init
  <2> QED
    BY <2>1, <2>2 DEF StackIsPath
<1>2. PathInv /\ [Next]_vars => PathInv'
  BY PathStep
<1>3. PathInv => StackIsPath
  BY DEF PathInv
<1> QED
  BY <1>1, <1>2, <1>3, PTL DEF Spec

-----------------------------------------------------------------------------
(* What is on display.                                                     *)

\* A load that starts alone is the only one, and makes the spinner turn; one
\* that starts among others mixes them.
LEMMA StartedLoad ==
  ASSUME TypeOK, NEW token \in Pages, StartLoad(token)
  PROVE  /\ InFlight' # {} /\ loading'
         /\ mixed' = (InFlight # {})
         /\ InFlight = {} => \A l, m \in InFlight' : l = m /\ load'[l].token = token
<1>1. [token |-> token, next |-> None] \in LoadRows
  BY DEF LoadRows
<1>2. [token |-> token, next |-> None] # None
  BY <1>1, LoadIsNotNone
<1> QED
  BY <1>2 DEF TypeOK, StartLoad, InFlight, NoLoad

\* Nothing of what is claimed changes with these variables.
LEMMA DisplayKept ==
  ASSUME DisplayInv, UNCHANGED <<currentToken, loading, shown, load, mixed, failed, left>>
  PROVE  (OneLoad /\ ShowsCurrent /\ SpinnerTells)'
BY DEF DisplayInv, OneLoad, ShowsCurrent, SpinnerTells, InFlight, NoLoad

\* Turning the page keeps what is claimed of the display.
LEMMA DisplayTurns ==
  ASSUME DisplayInv, NEW token \in Pages, SetCurrentToken(token), UNCHANGED <<shown, failed>>
  PROVE  (OneLoad /\ ShowsCurrent /\ SpinnerTells)'
<1>1. CASE token = currentToken
  BY <1>1, DisplayKept DEF SetCurrentToken
<1>2. CASE token # currentToken
  BY <1>2, StartedLoad DEF DisplayInv, SetCurrentToken, OneLoad, ShowsCurrent, SpinnerTells
<1> QED
  BY <1>1, <1>2

\* The end of a load that was alone leaves none.
LEMMA LoadEnds ==
  ASSUME DisplayInv, NEW l \in Loads, load[l] # None, load' = [load EXCEPT ![l] = None],
         ~mixed
  PROVE  InFlight' = {} /\ l \in InFlight
BY DEF DisplayInv, TypeOK, OneLoad, InFlight, NoLoad

\* Every step keeps what is claimed of the display.
LEMMA DisplayStep == DisplayInv /\ [Next]_vars => DisplayInv'
<1> SUFFICES ASSUME DisplayInv, [Next]_vars
             PROVE  (OneLoad /\ ShowsCurrent /\ SpinnerTells)'
  BY NextTypeOK DEF DisplayInv
<1>1. CASE ClickNext
  BY <1>1, DisplayTurns DEF DisplayInv, TypeOK, ClickNext
<1>2. CASE ClickPrev
  <2>1. prevTokens[Len(prevTokens)] \in Pages
    BY <1>2 DEF DisplayInv, TypeOK, ClickPrev
  <2> QED
    BY <1>2, <2>1, DisplayTurns DEF ClickPrev
<1>3. ASSUME NEW e \in Edits, EditAnswered(e)
      PROVE  (OneLoad /\ ShowsCurrent /\ SpinnerTells)'
  BY <1>3, StartedLoad DEF DisplayInv, TypeOK, EditAnswered, OneLoad, ShowsCurrent, SpinnerTells
<1>4. ASSUME NEW e \in Edits, ClickEdit(e) \/ EditFails(e)
      PROVE  (OneLoad /\ ShowsCurrent /\ SpinnerTells)'
  BY <1>4, DisplayKept DEF ClickEdit, EditFails, pageVars
<1>5. ASSUME NEW l \in Loads, Serve(l)
      PROVE  (OneLoad /\ ShowsCurrent /\ SpinnerTells)'
  <2>1. load[l] \in LoadRows
    BY <1>5 DEF DisplayInv, TypeOK, Serve, LoadRows
  <2>2. load'[l] \in LoadRows /\ load'[l].token = load[l].token
    <3>1. TokenAfter(load[l].token) \in Pages
      BY <2>1, TokenAfterType DEF DisplayInv, LoadRows
    <3> QED
      BY <1>5, <2>1, <3>1 DEF DisplayInv, TypeOK, Serve, LoadRows
  <2>3. load[l] # None /\ load'[l] # None
    BY <1>5, <2>2, LoadIsNotNone DEF Serve
  <2>4. \A m \in Loads : m # l => load'[m] = load[m]
    BY <1>5 DEF DisplayInv, TypeOK, Serve
  <2>5. /\ InFlight' = InFlight
        /\ \A m \in InFlight : load'[m].token = load[m].token
    BY <2>2, <2>3, <2>4 DEF InFlight, NoLoad
  <2> QED
    BY <1>5, <2>5 DEF Serve, pageVars, DisplayInv, OneLoad, ShowsCurrent, SpinnerTells
<1>6. ASSUME NEW l \in Loads, LoadAnswered(l) \/ LoadFails(l)
      PROVE  (OneLoad /\ ShowsCurrent /\ SpinnerTells)'
  <2>1. /\ load[l] # None
        /\ load' = [load EXCEPT ![l] = None]
        /\ loading' = FALSE
        /\ UNCHANGED <<currentToken, mixed, left>>
        /\ failed' \/ (~failed' /\ shown' = load[l].token)
    BY <1>6 DEF LoadAnswered, LoadFails
  <2>2. ~mixed => InFlight' = {} /\ l \in InFlight
    BY <2>1, LoadEnds
  <2> QED
    BY <2>1, <2>2 DEF DisplayInv, OneLoad, ShowsCurrent, SpinnerTells
<1>7. CASE OthersEdit \/ UNCHANGED vars
  BY <1>7, DisplayKept DEF OthersEdit, vars, pageVars
<1> QED
  BY <1>1, <1>2, <1>3, <1>4, <1>5, <1>6, <1>7 DEF Next

\* What is claimed of the display holds when the page is mounted.
LEMMA DisplayInit == Init => DisplayInv
<1> SUFFICES ASSUME Init
             PROVE  OneLoad /\ ShowsCurrent /\ SpinnerTells
  BY InitTypeOK DEF DisplayInv
<1>1. PICK l \in Loads :
         load = [m \in Loads |-> IF m = l THEN [token |-> 0, next |-> None] ELSE None]
  BY DEF Init
<1>2. [token |-> 0, next |-> None] # None
  <2>1. [token |-> 0, next |-> None] \in LoadRows
    BY InitTypeOK, PagesAreNat DEF LoadRows
  <2> QED
    BY <2>1, LoadIsNotNone
<1>3. InFlight = {l} /\ load[l].token = 0
  BY <1>1, <1>2 DEF InFlight, NoLoad
<1> QED
  BY <1>3 DEF Init, OneLoad, ShowsCurrent, SpinnerTells

\* When every load has come back, the users on display are those of the page
\* the user is on, unless loads overlapped, failed or were an edit's.
THEOREM DisplayHolds == Spec => []ShowsCurrent
<1>1. DisplayInv => ShowsCurrent
  BY DEF DisplayInv
<1> QED
  BY <1>1, DisplayInit, DisplayStep, PTL DEF Spec

\* The spinner turns as long as a load is in flight, unless loads overlapped.
THEOREM SpinnerHolds == Spec => []SpinnerTells
<1>1. DisplayInv => SpinnerTells
  BY DEF DisplayInv
<1> QED
  BY <1>1, DisplayInit, DisplayStep, PTL DEF Spec

=============================================================================
