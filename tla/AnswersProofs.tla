--------------------------- MODULE AnswersProofs ---------------------------
(***************************************************************************)
(* Theorems about Answers: for every input that satisfies its assumption,  *)
(* whatever the tools, the paths and the names are.                        *)
(***************************************************************************)
EXTENDS Answers, TLAPS, SequenceTheorems, FiniteSetTheorems, WellFoundedInduction

\* The question that was asked stays the question.
LEMMA StaysAsked == AnswersSpec => []Asked
<1>1. Asked /\ [Next]_vars => Asked'
  BY DEF Asked, Next, vars
<1> QED
  BY <1>1, PTL DEF AnswersSpec

-----------------------------------------------------------------------------
\* Tool groups

Count(said) == IF said THEN 1 ELSE 0

\* A selection the server has not stopped at.
Selection(s) ==
    /\ s \in [env : [tools : Listed, disable : Listed],
              block : [found : BOOLEAN, tools : Listed, disable : Listed, badKey : BOOLEAN]]
    /\ ~EnvMistake(s.env)

\* The names of t in a list that takes tools out.
Against(names, t) ==
    IF names = Unset THEN 0 ELSE Count(t \in names) + Count(GroupOf[t] \in names)

\* Whether the allowlist leaves t out.
LeftOut(s, t) ==
    LET tools == Tools(s.env, s.block)
    IN  tools # Unset /\ All \notin tools /\ ~Matches(tools, t)

\* How many lines can still be to blame: each list that takes out t or its group, whether it
\* is in force yet or not, and the allowlist.
Turns(s, t) == Against(s.env.disable, t) + Against(s.block.disable, t) + Count(LeftOut(s, t))

\* A tool that is not exposed is kept out by the list that takes tools out or by the allowlist.
LEMMA KeptOut ==
    ASSUME NEW s, Selection(s), NEW t \in Tool, ~Open(s, t)
    PROVE  LET disable == Disable(s.env, s.block)
           IN  /\ GroupOf[t] # Core
               /\ \/ disable # Unset /\ Matches(disable, t)
                  \/ ~(disable # Unset /\ Matches(disable, t)) /\ LeftOut(s, t)
BY DEF Open, Enabled, LeftOut

\* A name taken out of a list is no longer against the tool; the other one stays as it was.
LEMMA OneNameLess ==
    ASSUME NEW names \in SUBSET Word, NEW t \in Tool, NEW name \in names \cap {t, GroupOf[t]}
    PROVE  /\ Against(names \ {name}, t) < Against(names, t)
           /\ Against(Blank(names \ {name}), t) < Against(names, t)
<1>1. /\ t # GroupOf[t]
      /\ names # Unset
      /\ names \ {name} # Unset
  BY ToolGroupsAssumption DEF Group
<1> QED
  BY <1>1 DEF Against, Blank, Count

\* The number of turns is a number.
LEMMA TurnsType == \A s, t : Turns(s, t) \in Nat
BY DEF Turns, Against, Count

\* Where no line is left to blame the tool is there.
LEMMA NoTurns ==
    ASSUME NEW s, Selection(s), NEW t \in Tool, Turns(s, t) = 0
    PROVE  Open(s, t)
<1> SUFFICES ASSUME ~Open(s, t) PROVE FALSE
  OBVIOUS
<1> DEFINE disable == Disable(s.env, s.block)
<1>1. \/ disable # Unset /\ Matches(disable, t)
      \/ LeftOut(s, t)
  BY KeptOut
<1>2. /\ Against(s.env.disable, t) = 0
      /\ Against(s.block.disable, t) = 0
      /\ ~LeftOut(s, t)
  BY DEF Turns, Against, Count
<1>3. disable = s.env.disable \/ disable = s.block.disable \/ disable = Unset
  BY DEF Disable
<1> QED
  BY <1>1, <1>2, <1>3 DEF Against, Count, Matches

\* A refused tool's turn: there is a name to follow, and following it takes one line less.
LEMMA OneTurnLess ==
    ASSUME NEW s, Selection(s), NEW t \in Tool, ~Open(s, t)
    PROVE  LET refusal == Refusal(s.env, s.block, t)
           IN  /\ refusal.names # {}
               /\ \A name \in refusal.names :
                    /\ Selection(Followed(s, refusal, name))
                    /\ Turns(Followed(s, refusal, name), t) < Turns(s, t)
<1> DEFINE refusal == Refusal(s.env, s.block, t)
           disable == Disable(s.env, s.block)
           g == GroupOf[t]
<1>0. /\ g \in Group /\ t \notin Group /\ g \notin Tool /\ g # Core /\ g # All /\ t # All
      /\ {t, g} \subseteq Word
  BY KeptOut, ToolGroupsAssumption DEF Group, Word
<1>1. ASSUME disable # Unset, Matches(disable, t)
      PROVE  /\ refusal.names # {}
             /\ \A name \in refusal.names :
                  /\ Selection(Followed(s, refusal, name))
                  /\ Turns(Followed(s, refusal, name), t) < Turns(s, t)
  <2>1. /\ refusal = [line |-> "disable", source |-> Source(s.env.disable), names |-> disable \cap {t, g}]
        /\ refusal.names # {}
    BY <1>1 DEF Refusal, Matches
  <2>2. SUFFICES ASSUME NEW name \in disable \cap {t, g}
                 PROVE  /\ Selection(Followed(s, refusal, name))
                        /\ Turns(Followed(s, refusal, name), t) < Turns(s, t)
    BY <2>1
  <2>3. CASE s.env.disable # Unset
    <3> DEFINE less == Blank(s.env.disable \ {name})
               next == [s EXCEPT !.env.disable = less]
    <3>1. disable = s.env.disable /\ s.env.disable \in SUBSET Word
      BY <2>3 DEF Disable, Selection, Listed
    <3>2. Followed(s, refusal, name) = [s EXCEPT !.env["disable"] = less]
      <4>1. refusal.line = "disable" /\ refusal.source = "env"
        BY <2>1, <2>3 DEF Source
      <4> HIDE DEF refusal, disable
      <4> QED
        BY <4>1, <3>1 DEF Followed
    <3>3. Followed(s, refusal, name) = next
      BY <3>2
    <3>4. less \in Listed /\ (less # Unset => GoodDisable(less))
      <4>1. GoodDisable(s.env.disable)
        BY <2>3 DEF Selection, EnvMistake
      <4> QED
        BY <3>1, <4>1 DEF Blank, Listed, GoodDisable, Known, NamesCore
    <3>5. Selection(next)
      BY <3>4 DEF Selection, EnvMistake
    <3>6. LeftOut(next, t) = LeftOut(s, t)
      BY DEF LeftOut, Tools, Selection
    <3>7. Against(less, t) < Against(s.env.disable, t)
      BY <3>1, OneNameLess
    <3>8. /\ next.env.disable = less /\ next.block.disable = s.block.disable
      BY DEF Selection
    <3> HIDE DEF next, less
    <3> QED
      BY <3>3, <3>5, <3>6, <3>7, <3>8 DEF Turns, Count, Against
  <2>4. CASE s.env.disable = Unset
    <3> DEFINE less == s.block.disable \ {name}
               next == [s EXCEPT !.block.disable = less]
    <3>1. /\ disable = s.block.disable /\ s.block.disable \in SUBSET Word
          /\ s.block.disable # Unset
      BY <1>1, <2>4 DEF Disable, Selection, Listed
    <3>2. Followed(s, refusal, name) = [s EXCEPT !.block["disable"] = less]
      <4>1. refusal.line = "disable" /\ refusal.source = "block"
        BY <2>1, <2>4 DEF Source
      <4> HIDE DEF refusal, disable
      <4> QED
        BY <4>1, <3>1 DEF Followed
    <3>3. Followed(s, refusal, name) = next
      BY <3>2
    <3>4. less \in Listed
      BY <3>1 DEF Listed
    <3>5. Selection(next)
      BY <3>4 DEF Selection, EnvMistake
    <3>6. LeftOut(next, t) = LeftOut(s, t)
      BY DEF LeftOut, Tools, Selection
    <3>7. Against(less, t) < Against(s.block.disable, t)
      BY <3>1, OneNameLess
    <3>8. /\ next.block.disable = less /\ next.env.disable = s.env.disable
      BY DEF Selection
    <3> HIDE DEF next, less
    <3> QED
      BY <3>3, <3>5, <3>6, <3>7, <3>8 DEF Turns, Count, Against
  <2> QED
    BY <2>3, <2>4
<1>2. ASSUME ~(disable # Unset /\ Matches(disable, t))
      PROVE  /\ refusal.names # {}
             /\ \A name \in refusal.names :
                  /\ Selection(Followed(s, refusal, name))
                  /\ Turns(Followed(s, refusal, name), t) < Turns(s, t)
  <2>1. refusal = [line |-> "tools", source |-> Source(s.env.tools), names |-> {g}]
    BY <1>2 DEF Refusal
  <2>2. LeftOut(s, t)
    BY <1>2, KeptOut
  <2>3. SUFFICES /\ Selection(Followed(s, refusal, g))
                 /\ Turns(Followed(s, refusal, g), t) < Turns(s, t)
    BY <2>1
  <2>4. CASE s.env.tools # Unset
    <3> DEFINE more == s.env.tools \cup {g}
               next == [s EXCEPT !.env.tools = more]
    <3>1. s.env.tools \in SUBSET Word /\ GoodTools(s.env.tools)
      BY <2>4 DEF Selection, Listed, EnvMistake
    <3>2. more \in SUBSET Word /\ more # Unset /\ Blank(more) = more
      BY <3>1, <1>0, ToolGroupsAssumption DEF Blank
    <3>3. Followed(s, refusal, g) = next
      <4>1. Followed(s, refusal, g) = [s EXCEPT !.env["tools"] = Blank(more)]
        <5>1. refusal.line = "tools" /\ refusal.source = "env"
          BY <2>1, <2>4 DEF Source
        <5> HIDE DEF refusal
        <5> QED
          BY <5>1 DEF Followed
      <4> QED
        BY <4>1, <3>2
    <3>4. GoodTools(more)
      BY <3>1, <1>0 DEF GoodTools, Known
    <3>5. Selection(next)
      BY <3>2, <3>4 DEF Selection, EnvMistake, Listed
    <3>6. ~LeftOut(next, t)
      <4>1. Tools(next.env, next.block) = more
        BY <3>2 DEF Tools, Selection
      <4> QED
        BY <4>1 DEF LeftOut, Matches
    <3>7. /\ next.env.disable = s.env.disable /\ next.block.disable = s.block.disable
      BY DEF Selection
    <3> HIDE DEF next, more
    <3> QED
      BY <3>3, <3>5, <3>6, <3>7, <2>2 DEF Turns, Count, Against
  <2>5. CASE s.env.tools = Unset
    <3> DEFINE more == s.block.tools \cup {g}
               next == [s EXCEPT !.block.tools = more]
    <3>1. /\ s.block.tools \in SUBSET Word /\ GoodTools(s.block.tools)
      BY <2>2, <2>5 DEF LeftOut, Tools, Selection, Listed
    <3>2. more \in SUBSET Word /\ more # Unset
      BY <3>1, <1>0, ToolGroupsAssumption
    <3>3. Followed(s, refusal, g) = next
      <4>1. Followed(s, refusal, g) = [s EXCEPT !.block["tools"] = more]
        <5>1. refusal.line = "tools" /\ refusal.source = "block"
          BY <2>1, <2>5 DEF Source
        <5> HIDE DEF refusal
        <5> QED
          BY <5>1 DEF Followed
      <4> QED
        BY <4>1
    <3>4. GoodTools(more)
      BY <3>1, <1>0 DEF GoodTools, Known
    <3>5. Selection(next)
      BY <3>2 DEF Selection, EnvMistake, Listed
    <3>6. ~LeftOut(next, t)
      <4>1. Tools(next.env, next.block) = more
        BY <2>5, <3>2, <3>4 DEF Tools, Selection
      <4> QED
        BY <4>1 DEF LeftOut, Matches
    <3>7. /\ next.env.disable = s.env.disable /\ next.block.disable = s.block.disable
      BY DEF Selection
    <3> HIDE DEF next, more
    <3> QED
      BY <3>3, <3>5, <3>6, <3>7, <2>2 DEF Turns, Count, Against
  <2> QED
    BY <2>4, <2>5
<1> QED
  BY <1>1, <1>2

\* One more turn for everyone who is still refused.
LEMMA Asking ==
    ASSUME NEW t \in Tool, NEW n \in Nat, NEW S,
           \A s \in S : Selection(s) /\ (Open(s, t) \/ Turns(s, t) =< n + 1)
    PROVE  \A s \in Advised(S, t) : Selection(s) /\ (Open(s, t) \/ Turns(s, t) =< n)
<1> SUFFICES ASSUME NEW next \in Advised(S, t)
             PROVE  Selection(next) /\ (Open(next, t) \/ Turns(next, t) =< n)
  OBVIOUS
<1>1. PICK s \in S :
        LET refusal == Refusal(s.env, s.block, t)
        IN  next \in IF Open(s, t) \/ refusal.names = {} THEN {s}
                     ELSE {Followed(s, refusal, name) : name \in refusal.names}
  BY DEF Advised
<1>2. CASE Open(s, t)
  BY <1>1, <1>2
<1>3. CASE ~Open(s, t)
  <2>1. PICK name \in Refusal(s.env, s.block, t).names :
          next = Followed(s, Refusal(s.env, s.block, t), name)
    BY <1>1, <1>3, OneTurnLess
  <2>2. Selection(next) /\ Turns(next, t) < Turns(s, t)
    BY <1>3, <2>1, OneTurnLess
  <2>3. Turns(s, t) =< n + 1
    BY <1>3
  <2> QED
    BY <2>2, <2>3, TurnsType
<1> QED
  BY <1>2, <1>3

\* An agent that does what the refusals of the MCP server say gets the tool in five turns
\* (AdviceOpensTool), for any tools and groups, environment and agent-tools block.
THEOREM AdviceAlwaysOpens == AnswersSpec => []AdviceOpensTool
<1>1. Asked => AdviceOpensTool
  <2> SUFFICES ASSUME Asked, kind = "selection", ~EnvMistake(input.env), NEW t \in Tool
               PROVE  LET twice(S) == Advised(Advised(S, t), t)
                      IN  \A s \in twice(twice(Advised({input}, t))) : Open(s, t)
    BY DEF AdviceOpensTool
  <2> DEFINE after(n, S) == \A s \in S : Selection(s) /\ (Open(s, t) \/ Turns(s, t) =< n)
             one == Advised({input}, t)
             two == Advised(one, t)
             three == Advised(two, t)
             four == Advised(three, t)
             five == Advised(four, t)
  <2>1. after(5, {input})
    <3>1. input \in Selections
      BY DEF Asked
    <3>2. Selection(input)
      <4>1. input \in [env : [tools : Listed, disable : Listed],
                       block : [found : BOOLEAN, tools : Listed, disable : Listed, badKey : BOOLEAN]]
        BY <3>1, AnswersAssumption
      <4> QED
        BY <4>1 DEF Selection
    <3>3. Turns(input, t) =< 5
      BY DEF Turns, Against, Count
    <3> QED
      BY <3>2, <3>3
  <2> HIDE DEF one, two, three, four, five
  <2>2. after(4, one)
    <3>1. after(4 + 1, {input})
      BY <2>1
    <3> QED
      BY <3>1, Asking DEF one
  <2>3. after(3, two)
    <3>1. after(3 + 1, one)
      BY <2>2
    <3> QED
      BY <3>1, Asking DEF two
  <2>4. after(2, three)
    <3>1. after(2 + 1, two)
      BY <2>3
    <3> QED
      BY <3>1, Asking DEF three
  <2>5. after(1, four)
    <3>1. after(1 + 1, three)
      BY <2>4
    <3> QED
      BY <3>1, Asking DEF four
  <2>6. after(0, five)
    <3>1. after(0 + 1, four)
      BY <2>5
    <3> QED
      BY <3>1, Asking DEF five
  <2>7. \A s \in five : Open(s, t)
    BY <2>6, NoTurns, TurnsType
  <2> QED
    BY <2>7 DEF one, two, three, four, five
<1> QED
  BY <1>1, StaysAsked, PTL

-----------------------------------------------------------------------------
\* Scope

\* A map root that is missing stops the walk and no walk leaves the roots
\* (MissingNeverWidens), for any tree and any map_paths.txt.
THEOREM MissingStops == AnswersSpec => []MissingNeverWidens
<1>1. Asked => MissingNeverWidens
  <2> SUFFICES ASSUME Asked, kind = "tree", NEW maps \in Lists, maps # {}
               PROVE  LET scope == Detect(input, maps, {})
                          files == Collect(input, scope, {})
                      IN  /\ (\E e \in maps : /\ LooksLikeDir(e)
                                              /\ e.path \notin input.dirs \cup input.files) => files = {}
                          /\ \A f \in files : \E e \in maps :
                               \/ Below(f, e.path)
                               \/ e.path \in input.files /\ Below(f, Parent(e.path))
    BY DEF MissingNeverWidens
  <2> DEFINE scope == Detect(input, maps, {})
             files == Collect(input, scope, {})
  <2>1. /\ scope.prefixes = UNION {Prefix(input, e) : e \in maps}
        /\ scope.missing = {e.path : e \in {e \in maps : Prefix(input, e) = {} /\ LooksLikeDir(e)}}
        /\ ~scope.full
    BY DEF Detect, ResolvePrefixes, Split
  <2>2. \A e \in maps : e.path # <<>>
    BY AnswersAssumption
  <2>3. ASSUME NEW e \in maps, LooksLikeDir(e), e.path \notin input.dirs \cup input.files
        PROVE  files = {}
    <3>1. Prefix(input, e) = {}
      BY <2>2, <2>3 DEF Prefix
    <3>2. e.path \in scope.missing
      BY <2>1, <2>3, <3>1
    <3> HIDE DEF scope
    <3> QED
      BY <3>2 DEF Collect, Errs
  <2>4. ASSUME NEW f \in files
        PROVE  \E e \in maps : \/ Below(f, e.path)
                               \/ e.path \in input.files /\ Below(f, Parent(e.path))
    <3>1. PICK p \in scope.prefixes : f \in Walk(input, p, {})
      <4> HIDE DEF scope
      <4> QED
        BY <2>1, <2>4 DEF Collect
    <3>2. PICK e \in maps : p \in Prefix(input, e)
      BY <2>1
    <3>3. Below(f, p)
      BY <3>1 DEF Walk
    <3> QED
      BY <3>2, <3>3 DEF Prefix
  <2> QED
    BY <2>3, <2>4
<1> QED
  BY <1>1, StaysAsked, PTL

\* The roots that init writes map the sources it looked for (InitRootsWork), for any tree
\* and any depth.
THEOREM InitMapsSources == AnswersSpec => []InitRootsWork
<1>1. Asked => InitRootsWork
  <2> SUFFICES ASSUME Asked, kind = "tree" PROVE InitRootsWork
    BY DEF InitRootsWork
  <2> DEFINE roots == DefaultMapRoots(input, src, depth)
             entries == {[path |-> r, ext |-> FALSE] : r \in roots}
             scope == Detect(input, entries, {})
             found == {f \in input.files : /\ Name(f) \in input.sources
                                           /\ Len(f) \in 2 .. depth + 2
                                           /\ \A i \in 1 .. Len(f) - 1 : ~SkipDir(input, f[i])}
             sourced == {d \in input.dirs : /\ Len(d) = 1 /\ ~SkipDir(input, d[1])
                                            /\ HasSource(input, d, depth)}
  <2>0. IsTree(input) /\ depth \in Nat
    BY AnswersAssumption DEF Asked
  <2>1. roots = IF <<src>> \in input.dirs \/ sourced = {} THEN {<<src>>} ELSE sourced
    BY DEF DefaultMapRoots
  <2>p. \A p \in input.files \cup input.dirs :
          /\ DOMAIN p = 1 .. Len(p) /\ Len(p) \in Nat \ {0}
          /\ SubSeq(p, 1, 1) = <<p[1]>>
    <3> TAKE p \in input.files \cup input.dirs
    <3>1. p \in Seq(ToSet(p)) /\ p # <<>>
      BY <2>0 DEF IsTree
    <3>2. DOMAIN p = 1 .. Len(p) /\ Len(p) \in Nat \ {0}
      BY <3>1, EmptySeq, LenProperties
    <3>3. /\ SubSeq(p, 1, 1) \in Seq(ToSet(p))
          /\ Len(SubSeq(p, 1, 1)) = 1
          /\ SubSeq(p, 1, 1)[1] = p[1]
      BY <3>1, <3>2, SubSeqProperties
    <3>4. SubSeq(p, 1, 1) = <<p[1]>>
      <4>1. <<p[1]>> \in Seq(ToSet(p)) /\ Len(<<p[1]>>) = 1 /\ <<p[1]>>[1] = p[1]
        BY <3>2 DEF ToSet
      <4> QED
        <5>1. \A i \in 1 .. Len(SubSeq(p, 1, 1)) : SubSeq(p, 1, 1)[i] = <<p[1]>>[i]
          BY <3>3, <4>1
        <5> QED
          BY <3>3, <4>1, <5>1, SeqEqual
    <3> QED
      BY <3>2, <3>4
  <2>2. ASSUME NEW f \in found
        PROVE  /\ <<f[1]>> \in sourced
               /\ f \in Walk(input, <<f[1]>>, {})
    <3>1. /\ f \in input.files /\ Name(f) \in input.sources /\ Len(f) \in 2 .. depth + 2
          /\ \A i \in 1 .. Len(f) - 1 : ~SkipDir(input, f[i])
      BY <2>2
    <3>2. DOMAIN f = 1 .. Len(f) /\ Len(f) \in Nat
      BY <2>p, <3>1
    <3>3. SubSeq(f, 1, 1) = <<f[1]>> /\ SubSeq(f, 1, 1) \in input.dirs
      BY <2>0, <2>p, <3>1, <3>2 DEF IsTree
    <3>4. Below(f, <<f[1]>>)
      BY <3>1, <3>2, <3>3 DEF Below
    <3>5. HasSource(input, <<f[1]>>, depth)
      BY <2>0, <3>1, <3>2, <3>4 DEF HasSource
    <3>6. \A i \in 2 .. Len(f) : f[i] \notin Excluded
      <4> SUFFICES ASSUME NEW i \in 2 .. Len(f) PROVE f[i] \notin Excluded
        OBVIOUS
      <4>1. CASE i = Len(f)
        BY <2>0, <3>1, <4>1 DEF IsTree, Name
      <4>2. CASE i # Len(f)
        <5>1. i \in 1 .. Len(f) - 1
          <6>1. \A n \in Nat : \A j \in 2 .. n : j # n => j \in 1 .. n - 1
            OBVIOUS
          <6> QED
            BY <3>2, <4>2, <6>1, Zenon
        <5>2. ~SkipDir(input, f[i])
          BY <3>1, <5>1
        <5> QED
          BY <5>2 DEF SkipDir
      <4> QED
        BY <4>1, <4>2
    <3>7. f \in Walk(input, <<f[1]>>, {})
      BY <3>1, <3>4, <3>6 DEF Walk, Excludes
    <3> QED
      <4>1. <<f[1]>> \in input.dirs /\ Len(<<f[1]>>) = 1 /\ <<f[1]>>[1] = f[1]
        BY <3>3
      <4>2. ~SkipDir(input, f[1])
        BY <3>1, <3>2
      <4> QED
        BY <3>5, <3>7, <4>1, <4>2
  <2>3. /\ scope.prefixes = UNION {Prefix(input, e) : e \in entries}
        /\ scope.missing = {e.path : e \in {e \in entries : Prefix(input, e) = {} /\ LooksLikeDir(e)}}
        /\ ~scope.full
        /\ scope.container = Container(input)
    <3>1. entries # {}
      BY <2>1
    <3> QED
      BY <3>1 DEF Detect, ResolvePrefixes, Split
  <2>4. roots \subseteq input.dirs => scope.missing = {} /\ scope.prefixes = roots
    <3> SUFFICES ASSUME roots \subseteq input.dirs
                 PROVE  scope.missing = {} /\ scope.prefixes = roots
      OBVIOUS
    <3>1. \A e \in entries : e.path \in roots /\ Prefix(input, e) = {e.path}
      BY DEF Prefix
    <3>2. \A r \in roots : \E e \in entries : e.path = r
      <4> TAKE r \in roots
      <4> WITNESS [path |-> r, ext |-> FALSE] \in entries
      <4> QED
        OBVIOUS
    <3> HIDE DEF entries, roots, scope
    <3> QED
      BY <2>3, <3>1, <3>2
  <2>5. ASSUME found # {}
        PROVE  roots \subseteq input.dirs
    <3>1. sourced # {} /\ sourced \subseteq input.dirs
      <4> HIDE DEF found
      <4> QED
        BY <2>2, <2>5
    <3> HIDE DEF found, sourced, roots
    <3> QED
      BY <2>1, <3>1
  <2>6. (found # {} /\ ~scope.container) => AllowsWalk(scope)
    <3>1. roots # {}
      BY <2>1
    <3> HIDE DEF found, roots, scope
    <3> QED
      BY <2>4, <2>5, <3>1 DEF AllowsWalk
  <2>7. ASSUME <<src>> \notin input.dirs \cup input.files, found = {}
        PROVE  scope.missing = {<<src>>}
    <3>1. sourced = {}
      <4> SUFFICES ASSUME NEW d \in sourced PROVE FALSE
        OBVIOUS
      <4>1. d \in input.dirs /\ Len(d) = 1 /\ ~SkipDir(input, d[1]) /\ DOMAIN d = 1 .. 1
        BY <2>p
      <4>2. PICK f \in input.files : /\ Below(f, d) /\ Name(f) \in input.sources
                                     /\ Len(f) - Len(d) =< depth + 1
                                     /\ \A i \in Len(d) + 1 .. Len(f) - 1 : ~SkipDir(input, f[i])
        BY DEF HasSource
      <4>3. Len(f) \in Nat /\ Len(f) \in 2 .. depth + 2 /\ DOMAIN f = 1 .. Len(f)
        BY <2>0, <2>p, <4>1, <4>2 DEF Below
      <4>4. f[1] = d[1]
        <5>1. SubSeq(f, 1, 1) = d
          BY <4>1, <4>2 DEF Below
        <5>2. SubSeq(f, 1, 1)[1] = f[1]
          BY <2>p
        <5> QED
          BY <5>1, <5>2
      <4>5. \A i \in 1 .. Len(f) - 1 : ~SkipDir(input, f[i])
        BY <4>1, <4>2, <4>3, <4>4
      <4> QED
        BY <2>7, <4>2, <4>3, <4>5
    <3>2. roots = {<<src>>}
      BY <2>1, <3>1
    <3>3. entries = {[path |-> <<src>>, ext |-> FALSE]}
      BY <3>2
    <3>4. Prefix(input, [path |-> <<src>>, ext |-> FALSE]) = {}
      BY <2>7 DEF Prefix
    <3> HIDE DEF entries, roots, scope
    <3> QED
      BY <2>3, <3>3, <3>4 DEF LooksLikeDir
  <2>8. ASSUME <<src>> \notin input.dirs, found # {}, ~scope.container
        PROVE  found \subseteq Collect(input, scope, {})
    <3>1. roots = sourced /\ roots \subseteq input.dirs
      BY <2>1, <2>2, <2>5, <2>8
    <3>2. /\ ~Errs(scope) /\ ~scope.full
          /\ scope.prefixes = roots
      <4> HIDE DEF scope, roots
      <4> QED
        BY <2>3, <2>4, <2>8, <3>1 DEF Errs
    <3> SUFFICES ASSUME NEW f \in found PROVE f \in Collect(input, scope, {})
      OBVIOUS
    <3>3. <<f[1]>> \in roots /\ f \in Walk(input, <<f[1]>>, {})
      BY <2>2, <3>1
    <3> HIDE DEF scope, roots, found, sourced
    <3> QED
      BY <3>1, <3>2, <3>3 DEF Collect
  <2> QED
    BY <2>6, <2>7, <2>8 DEF InitRootsWork
<1> QED
  BY <1>1, StaysAsked, PTL

-----------------------------------------------------------------------------
\* Induction: what fails of a number fails of a least one.

\* Any set of numbers with a member has a least one.
LEMMA Least == \A S \in SUBSET Nat : S # {} => \E x \in S : \A y \in S : x =< y
<1> SUFFICES ASSUME NEW S \in SUBSET Nat, S # {} PROVE \E x \in S : \A y \in S : x =< y
  OBVIOUS
<1> DEFINE below(x) == {y \in S : y =< x}
           T == {below(x) : x \in S}
<1>1. T \subseteq FiniteSubsetsOf(S)
  <2>1. \A x \in S : IsFiniteSet(below(x))
    <3> TAKE x \in S
    <3>1. below(x) \in SUBSET Nat /\ x \in Nat /\ \A y \in below(x) : y =< x
      OBVIOUS
    <3> HIDE DEF below
    <3> QED
      BY <3>1, FS_BoundedSetOfNaturals
  <2> QED
    BY <2>1 DEF FiniteSubsetsOf
<1>2. T # {}
  OBVIOUS
<1>3. PICK t \in T : \A u \in T : ~(<<u, t>> \in StrictSubsetOrdering(S))
  <2> HIDE DEF T
  <2> QED
    BY <1>1, <1>2, FS_StrictSubsetOrderingWellFounded, WFMin
<1>4. PICK x \in S : t = below(x)
  OBVIOUS
<1>5. \A y \in S : x =< y
  <2> SUFFICES ASSUME NEW y \in S, y < x PROVE FALSE
    OBVIOUS
  <2>1. below(y) \in T
    OBVIOUS
  <2>2. \A z \in below(y) : z \in Nat /\ z \in S /\ z =< y
    OBVIOUS
  <2>3. x \in Nat /\ y \in Nat
    OBVIOUS
  <2>4. \A z \in below(y) : z \in below(x)
    BY <2>2, <2>3
  <2>5. x \in below(x) /\ x \notin below(y)
    BY <2>3
  <2> HIDE DEF below, T
  <2>6. below(y) \in SUBSET S /\ below(x) \in SUBSET S
    BY DEF below
  <2> QED
    BY <1>3, <1>4, <2>1, <2>4, <2>5, <2>6 DEF StrictSubsetOrdering
<1> QED
  BY <1>5

\* Where there is no least number that fails, none does.
LEMMA NoLeastFailure ==
    ASSUME NEW bad \in SUBSET Nat,
           \A n \in bad : \E m \in bad : m < n
    PROVE  bad = {}
<1> SUFFICES ASSUME bad # {} PROVE FALSE
  OBVIOUS
<1>1. PICK n \in bad : \A m \in bad : n =< m
  BY Least
<1> QED
  BY <1>1

-----------------------------------------------------------------------------
\* Sequences of sequences

\* The functions that FlattenSeq chooses from.
Partial(s, n, f) == f = [i \in 1 .. n |-> IF i = 1 THEN s[i] ELSE f[i - 1] \o s[i]]

\* There is one of any length.
LEMMA PartialExists == \A s : \A n \in Nat : \E f : Partial(s, n, f)
<1> SUFFICES ASSUME NEW s PROVE \A n \in Nat : \E f : Partial(s, n, f)
  OBVIOUS
<1> DEFINE bad == {n \in Nat : ~\E f : Partial(s, n, f)}
<1>1. ASSUME NEW n \in bad PROVE \E m \in bad : m < n
  <2>1. CASE n = 0
    <3>1. Partial(s, 0, [i \in 1 .. 0 |-> s])
      BY DEF Partial
    <3> QED
      BY <1>1, <2>1, <3>1
  <2>2. CASE n # 0
    <3> SUFFICES ASSUME n - 1 \notin bad PROVE FALSE
      BY <1>1, <2>2
    <3>1. PICK g : Partial(s, n - 1, g)
      BY <1>1, <2>2
    <3> DEFINE f == [i \in 1 .. n |-> IF i < n THEN g[i] ELSE IF n = 1 THEN s[n] ELSE g[n - 1] \o s[n]]
    <3>2. \A i \in 1 .. n : f[i] = IF i = 1 THEN s[i] ELSE f[i - 1] \o s[i]
      <4> TAKE i \in 1 .. n
      <4>1. CASE i < n
        <5>1. i \in 1 .. n - 1 /\ f[i] = g[i]
          BY <1>1, <4>1
        <5>2. g[i] = IF i = 1 THEN s[i] ELSE g[i - 1] \o s[i]
          BY <3>1, <5>1 DEF Partial
        <5>3. i # 1 => f[i - 1] = g[i - 1]
          BY <1>1, <4>1
        <5> QED
          BY <5>1, <5>2, <5>3
      <4>2. CASE i = n
        BY <1>1, <4>2
      <4> QED
        BY <1>1, <4>1, <4>2
    <3>3. Partial(s, n, f)
      BY <3>2 DEF Partial
    <3> QED
      BY <1>1, <3>3
  <2> QED
    BY <2>1, <2>2
<1>2. bad = {}
  <2> HIDE DEF bad
  <2>1. bad \in SUBSET Nat
    BY DEF bad
  <2> QED
    BY <1>1, <2>1, NoLeastFailure
<1> QED
  BY <1>2

\* Two of them agree as far as their sequences do.
LEMMA PartialAgrees ==
    \A s, t : \A n, m \in Nat : n =< m => \A f, g :
        (Partial(s, n, f) /\ Partial(t, m, g) /\ \A i \in 1 .. n : s[i] = t[i])
        => \A i \in 1 .. n : f[i] = g[i]
<1> SUFFICES ASSUME NEW s, NEW t, NEW n \in Nat, NEW m \in Nat, n =< m, NEW f, NEW g,
                    Partial(s, n, f), Partial(t, m, g), \A i \in 1 .. n : s[i] = t[i]
             PROVE  \A i \in 1 .. n : f[i] = g[i]
  OBVIOUS
<1> DEFINE bad == {i \in 1 .. n : f[i] # g[i]}
<1>1. ASSUME NEW i \in bad PROVE \E j \in bad : j < i
  <2>1. f[i] = IF i = 1 THEN s[i] ELSE f[i - 1] \o s[i]
    BY <1>1 DEF Partial
  <2>2. g[i] = IF i = 1 THEN t[i] ELSE g[i - 1] \o t[i]
    <3>1. i \in 1 .. m
      BY <1>1
    <3> QED
      BY <3>1 DEF Partial
  <2>3. i # 1 /\ f[i - 1] # g[i - 1]
    BY <1>1, <2>1, <2>2
  <2> QED
    BY <2>3
<1>2. bad = {}
  <2> HIDE DEF bad
  <2>1. bad \in SUBSET Nat
    BY DEF bad
  <2> QED
    BY <1>1, <2>1, NoLeastFailure
<1> QED
  BY <1>2

\* What FlattenSeq gives, as an entry of such a function.
LEMMA FlattenIsPartial ==
    ASSUME NEW s, Len(s) \in Nat \ {0}
    PROVE  \E f : Partial(s, Len(s), f) /\ FlattenSeq(s) = f[Len(s)]
<1> DEFINE f == CHOOSE f : f = [i \in 1 .. Len(s) |-> IF i = 1 THEN s[i] ELSE f[i - 1] \o s[i]]
<1>1. FlattenSeq(s) = f[Len(s)]
  BY DEF FlattenSeq
<1>2. \E h : h = [i \in 1 .. Len(s) |-> IF i = 1 THEN s[i] ELSE h[i - 1] \o s[i]]
  BY PartialExists DEF Partial
<1>3. Partial(s, Len(s), f)
  BY <1>2 DEF Partial
<1> QED
  BY <1>1, <1>3

\* One sequence more is put at the end.
LEMMA FlattenLonger ==
    ASSUME NEW s, NEW t, Len(s) \in Nat \ {0}, Len(t) = Len(s) + 1,
           \A i \in 1 .. Len(s) : s[i] = t[i]
    PROVE  FlattenSeq(t) = FlattenSeq(s) \o t[Len(t)]
<1>1. ASSUME NEW n \in Nat \ {0}, NEW m \in Nat, m = n + 1, NEW f, NEW g,
             Partial(s, n, f), Partial(t, m, g), \A i \in 1 .. n : s[i] = t[i]
      PROVE  g[m] = f[n] \o t[m]
  <2>1. f[n] = g[n]
    <3>1. n =< m /\ n \in 1 .. n
      BY <1>1
    <3>2. Partial(s, n, f) /\ Partial(t, m, g) /\ \A i \in 1 .. n : s[i] = t[i]
      BY <1>1
    <3>3. \A i \in 1 .. n : f[i] = g[i]
      BY <3>1, <3>2, PartialAgrees
    <3> QED
      BY <3>1, <3>3
  <2>2. m \in 1 .. m /\ m - 1 = n /\ m # 1
    BY <1>1
  <2>3. g[m] = IF m = 1 THEN t[m] ELSE g[m - 1] \o t[m]
    BY <1>1, <2>2 DEF Partial
  <2> QED
    BY <2>1, <2>2, <2>3
<1>2. PICK f : Partial(s, Len(s), f) /\ FlattenSeq(s) = f[Len(s)]
  BY FlattenIsPartial
<1>3. PICK g : Partial(t, Len(t), g) /\ FlattenSeq(t) = g[Len(t)]
  BY FlattenIsPartial
<1>4. Len(s) \in Nat \ {0} /\ Len(t) \in Nat
  OBVIOUS
<1>5. Partial(s, Len(s), f) /\ Partial(t, Len(t), g)
  BY <1>2, <1>3
<1>6. g[Len(t)] = f[Len(s)] \o t[Len(t)]
  BY <1>1, <1>4, <1>5, Zenon
<1> QED
  BY <1>2, <1>3, <1>6, Zenon

\* One more sequence in a sequence of sequences.
LEMMA FlattenAppend ==
    ASSUME NEW T, NEW s \in Seq(Seq(T)), NEW e \in Seq(T)
    PROVE  FlattenSeq(Append(s, e)) = FlattenSeq(s) \o e
<1> DEFINE t == Append(s, e)
<1>1. /\ Len(s) \in Nat /\ Len(t) = Len(s) + 1
      /\ \A i \in 1 .. Len(s) : s[i] = t[i]
      /\ t[Len(t)] = e
  BY AppendProperties, LenProperties
<1> HIDE DEF t
<1>2. CASE s = <<>>
  <2>1. FlattenSeq(s) = <<>> /\ Len(s) = 0
    BY <1>2, EmptySeq DEF FlattenSeq
  <2>2. <<>> \o e = e
    BY ConcatEmptySeq
  <2>3. PICK g : Partial(t, Len(t), g) /\ FlattenSeq(t) = g[Len(t)]
    BY <1>1, FlattenIsPartial
  <2>4. g[1] = e
    BY <1>1, <2>1, <2>3 DEF Partial
  <2> QED
    BY <1>1, <2>1, <2>2, <2>3, <2>4 DEF t
<1>3. CASE s # <<>>
  <2>1. Len(s) \in Nat \ {0}
    BY <1>1, <1>3, EmptySeq
  <2>2. FlattenSeq(t) = FlattenSeq(s) \o t[Len(t)]
    BY <1>1, <2>1, FlattenLonger
  <2> QED
    BY <1>1, <2>2 DEF t
<1> QED
  BY <1>2, <1>3

\* A sequence that is not empty has an end.
LEMMA LastEntry ==
    ASSUME NEW S, NEW s \in Seq(S), s # <<>>
    PROVE  \E u \in Seq(S), e \in S : s = Append(u, e) /\ Len(u) = Len(s) - 1
<1> DEFINE u == SubSeq(s, 1, Len(s) - 1)
           e == s[Len(s)]
<1>1. Len(s) \in Nat \ {0}
  BY EmptySeq, LenProperties
<1>2. e \in S
  BY <1>1, ElementOfSeq
<1>3. /\ u \in Seq(S) /\ Len(u) = Len(s) - 1
      /\ \A i \in 1 .. Len(s) - 1 : u[i] = s[i]
  <2>1. \A i \in 1 .. Len(s) - 1 : s[i] \in S
    BY <1>1, ElementOfSeq
  <2>2. \A n \in Nat \ {0} :
          /\ 1 \in Int /\ n - 1 \in Int /\ (n - 1) - 1 + 1 = n - 1
          /\ (IF 1 =< n - 1 THEN (n - 1) - 1 + 1 ELSE 0) = n - 1
          /\ \A i \in 1 .. n - 1 : 1 + i - 1 = i
    OBVIOUS
  <2>3. /\ u \in Seq(S)
        /\ Len(u) = IF 1 =< Len(s) - 1 THEN (Len(s) - 1) - 1 + 1 ELSE 0
        /\ \A i \in 1 .. (Len(s) - 1) - 1 + 1 : u[i] = s[1 + i - 1]
    BY <1>1, <2>1, <2>2, SubSeqProperties
  <2> HIDE DEF u
  <2> QED
    BY <1>1, <2>2, <2>3
<1> HIDE DEF u, e
<1>4. /\ Append(u, e) \in Seq(S) /\ Len(Append(u, e)) = Len(s)
      /\ \A i \in 1 .. Len(s) : Append(u, e)[i] = s[i]
  <2>1. /\ Append(u, e) \in Seq(S) /\ Len(Append(u, e)) = Len(u) + 1
        /\ \A i \in 1 .. Len(u) : Append(u, e)[i] = u[i]
        /\ Append(u, e)[Len(u) + 1] = e
    BY <1>2, <1>3, AppendProperties
  <2> QED
    BY <1>1, <1>3, <2>1 DEF e
<1>5. s = Append(u, e)
  BY <1>4, SeqEqual
<1> QED
  BY <1>2, <1>3, <1>5

\* The entries of one sequence after another are those of both.
LEMMA EntriesOfBoth ==
    ASSUME NEW S, NEW s \in Seq(S), NEW t \in Seq(S)
    PROVE  ToSet(s \o t) = ToSet(s) \cup ToSet(t)
<1>1. /\ Len(s) \in Nat /\ Len(t) \in Nat
      /\ DOMAIN s = 1 .. Len(s) /\ DOMAIN t = 1 .. Len(t)
  BY LenProperties
<1>2. /\ DOMAIN (s \o t) = 1 .. Len(s) + Len(t)
      /\ \A i \in 1 .. Len(s) + Len(t) : (s \o t)[i] = IF i =< Len(s) THEN s[i] ELSE t[i - Len(s)]
  BY ConcatProperties, LenProperties
<1>3. \A i \in DOMAIN (s \o t) : (s \o t)[i] \in ToSet(s) \cup ToSet(t)
  BY <1>1, <1>2 DEF ToSet
<1>4. \A i \in DOMAIN s : s[i] \in ToSet(s \o t)
  BY <1>1, <1>2 DEF ToSet
<1>5. \A i \in DOMAIN t : t[i] \in ToSet(s \o t)
  <2> TAKE i \in DOMAIN t
  <2>1. Len(s) + i \in DOMAIN (s \o t) /\ (s \o t)[Len(s) + i] = t[i]
    BY <1>1, <1>2
  <2> QED
    BY <2>1 DEF ToSet
<1> QED
  BY <1>3, <1>4, <1>5 DEF ToSet

\* FlattenSeq gives a sequence of the entries of all the sequences.
LEMMA FlattenEntries ==
    ASSUME NEW T, NEW s \in Seq(Seq(T))
    PROVE  /\ FlattenSeq(s) \in Seq(T)
           /\ \A x : x \in ToSet(FlattenSeq(s)) <=> \E i \in DOMAIN s : x \in ToSet(s[i])
<1> DEFINE good(r) == /\ FlattenSeq(r) \in Seq(T)
                      /\ \A x : x \in ToSet(FlattenSeq(r)) <=> \E i \in DOMAIN r : x \in ToSet(r[i])
           bad == {n \in Nat : \E r \in Seq(Seq(T)) : Len(r) = n /\ ~good(r)}
<1>1. ASSUME NEW n \in bad PROVE \E m \in bad : m < n
  <2>1. PICK r \in Seq(Seq(T)) : Len(r) = n /\ ~good(r)
    BY <1>1
  <2>2. r # <<>>
    <3> SUFFICES ASSUME r = <<>> PROVE FALSE
      OBVIOUS
    <3>1. FlattenSeq(r) = r /\ DOMAIN r = {}
      BY EmptySeq DEF FlattenSeq
    <3> QED
      BY <2>1, <3>1 DEF ToSet
  <2>3. PICK u \in Seq(Seq(T)), e \in Seq(T) : r = Append(u, e) /\ Len(u) = n - 1
    <3> HIDE DEF good
    <3> QED
      BY <2>1, <2>2, LastEntry
  <2>4. ASSUME good(u) PROVE good(r)
    <3>1. FlattenSeq(r) = FlattenSeq(u) \o e
      BY <2>3, FlattenAppend
    <3>2. FlattenSeq(r) \in Seq(T)
      BY <2>4, <3>1, ConcatProperties
    <3>3. ToSet(FlattenSeq(r)) = ToSet(FlattenSeq(u)) \cup ToSet(e)
      BY <2>4, <3>1, EntriesOfBoth
    <3>4. /\ DOMAIN r = 1 .. Len(u) + 1 /\ DOMAIN u = 1 .. Len(u) /\ Len(u) \in Nat
          /\ \A i \in DOMAIN u : r[i] = u[i]
          /\ r[Len(u) + 1] = e
      BY <2>3, AppendProperties, LenProperties
    <3>5. \A x : (\E i \in DOMAIN r : x \in ToSet(r[i]))
                   <=> (\E i \in DOMAIN u : x \in ToSet(u[i])) \/ x \in ToSet(e)
      <4>1. DOMAIN r = DOMAIN u \cup {Len(u) + 1}
        BY <3>4
      <4>2. \A i \in DOMAIN u : ToSet(r[i]) = ToSet(u[i])
        BY <3>4
      <4>3. ToSet(r[Len(u) + 1]) = ToSet(e)
        BY <3>4
      <4> QED
        BY <4>1, <4>2, <4>3
    <3>6. \A x : x \in ToSet(FlattenSeq(u)) <=> \E i \in DOMAIN u : x \in ToSet(u[i])
      BY <2>4
    <3>7. \A x : x \in ToSet(FlattenSeq(r)) <=> \E i \in DOMAIN r : x \in ToSet(r[i])
      BY <3>3, <3>5, <3>6
    <3> QED
      BY <3>2, <3>7
  <2>5. ~good(u)
    BY <2>1, <2>4
  <2>6. n \in Nat /\ Len(u) \in Nat
    BY <1>1, LenProperties
  <2> HIDE DEF good
  <2> QED
    BY <2>3, <2>5, <2>6
<1>2. bad = {}
  <2> HIDE DEF bad
  <2>1. bad \in SUBSET Nat
    BY DEF bad
  <2> QED
    BY <1>1, <2>1, NoLeastFailure
<1>3. good(s)
  <2> HIDE DEF good
  <2> QED
    BY <1>2, LenProperties
<1> QED
  BY <1>3

\* FlattenSeq of one sequence after another.
LEMMA FlattenBoth ==
    ASSUME NEW T, NEW a \in Seq(Seq(T)), NEW b \in Seq(Seq(T))
    PROVE  FlattenSeq(a \o b) = FlattenSeq(a) \o FlattenSeq(b)
<1> DEFINE good(r) == FlattenSeq(a \o r) = FlattenSeq(a) \o FlattenSeq(r)
           bad == {n \in Nat : \E r \in Seq(Seq(T)) : Len(r) = n /\ ~good(r)}
<1>1. ASSUME NEW n \in bad PROVE \E m \in bad : m < n
  <2>1. PICK r \in Seq(Seq(T)) : Len(r) = n /\ ~good(r)
    BY <1>1
  <2>2. r # <<>>
    <3> SUFFICES ASSUME r = <<>> PROVE FALSE
      OBVIOUS
    <3>1. FlattenSeq(r) = <<>>
      BY EmptySeq DEF FlattenSeq
    <3>2. a \o r = a /\ FlattenSeq(a) \o <<>> = FlattenSeq(a)
      BY ConcatEmptySeq, FlattenEntries
    <3> QED
      BY <2>1, <3>1, <3>2
  <2>3. PICK u \in Seq(Seq(T)), e \in Seq(T) : r = Append(u, e) /\ Len(u) = n - 1
    <3> HIDE DEF good
    <3> QED
      BY <2>1, <2>2, LastEntry
  <2>4. ASSUME good(u) PROVE good(r)
    <3>1. a \o r = Append(a \o u, e) /\ a \o u \in Seq(Seq(T))
      <4>1. <<e>> \in Seq(Seq(T))
        OBVIOUS
      <4>2. a \o u \in Seq(Seq(T))
        BY ConcatProperties
      <4>3. r = u \o <<e>>
        BY <2>3, AppendIsConcat
      <4>4. a \o (u \o <<e>>) = (a \o u) \o <<e>>
        BY <4>2, <4>3, <4>4, AppendIsConcat, SMTT(30)
      <4> QED
        BY <4>2, <4>3, <4>4, AppendIsConcat
    <3>2. FlattenSeq(a \o r) = FlattenSeq(a \o u) \o e
      BY <3>1, FlattenAppend
    <3>3. FlattenSeq(r) = FlattenSeq(u) \o e
      BY <2>3, FlattenAppend
    <3>4. FlattenSeq(a) \in Seq(T) /\ FlattenSeq(u) \in Seq(T)
      BY FlattenEntries
    <3>5. (FlattenSeq(a) \o FlattenSeq(u)) \o e = FlattenSeq(a) \o (FlattenSeq(u) \o e)
      <4> HIDE DEF good, bad
      <4>1. ASSUME NEW x \in Seq(T), NEW y \in Seq(T) PROVE (x \o y) \o e = x \o (y \o e)
        BY ConcatAssociative, SMTT(30)
      <4> QED
        BY <3>4, <4>1
    <3> QED
      BY <2>4, <3>2, <3>3, <3>5
  <2>5. ~good(u)
    BY <2>1, <2>4
  <2>6. n \in Nat /\ Len(u) \in Nat
    BY <1>1, LenProperties
  <2> HIDE DEF good
  <2> QED
    BY <2>3, <2>5, <2>6
<1>2. bad = {}
  <2> HIDE DEF bad
  <2>1. bad \in SUBSET Nat
    BY DEF bad
  <2> QED
    BY <1>1, <2>1, NoLeastFailure
<1>3. good(b)
  <2> HIDE DEF good
  <2> QED
    BY <1>2, LenProperties
<1> QED
  BY <1>3

\* SetToSeq lists the members of a finite set.
LEMMA ListsTheSet ==
    ASSUME NEW S, IsFiniteSet(S)
    PROVE  SetToSeq(S) \in Seq(S) /\ ToSet(SetToSeq(S)) = S
<1> DEFINE n == Cardinality(S)
           f == SetToSeq(S)
<1>1. n \in Nat /\ ExistsBijection(1 .. n, S)
  BY FS_CardinalityType
<1>2. \E g \in [1 .. n -> S] : IsInjective(g)
  BY <1>1 DEF ExistsBijection, Bijection, Injection, IsInjective
<1>3. f \in [1 .. n -> S] /\ IsInjective(f)
  BY <1>2 DEF SetToSeq
<1> HIDE DEF f
<1>4. f \in Injection(1 .. n, S)
  BY <1>3 DEF Injection, IsInjective
<1>5. IsFiniteSet(1 .. n) /\ Cardinality(1 .. n) = n
  BY <1>1, FS_Interval
<1>6. f \in Surjection(1 .. n, S)
  BY <1>4, <1>5, FS_Injection
<1>7. \A x \in S : \E i \in 1 .. n : f[i] = x
  BY <1>6 DEF Surjection
<1>8. f \in Seq(S)
  BY <1>1, <1>3 DEF n
<1>9. ToSet(f) = S
  BY <1>3, <1>7 DEF ToSet
<1> QED
  BY <1>8, <1>9 DEF f

-----------------------------------------------------------------------------
\* record-changes: the reasons

\* What is selected are the changes that are not Wikifier's own and that the call is about.
LEMMA SelectedAre ==
    ASSUME NEW T, NEW changes \in Seq(T), NEW only
    PROVE  /\ Selected(changes, only) \in Seq(T)
           /\ \A c : c \in ToSet(Selected(changes, only)) <=>
                /\ c \in ToSet(changes)
                /\ c.path \notin Artifact /\ OnlyAllows(only, c.path)
<1> DEFINE chosen(c) == c.path \notin Artifact /\ OnlyAllows(only, c.path)
           parts == [i \in DOMAIN changes |-> Kept(chosen(changes[i]), changes[i])]
<1>1. DOMAIN changes = 1 .. Len(changes) /\ Len(changes) \in Nat
      /\ \A i \in DOMAIN changes : changes[i] \in T
  BY LenProperties, ElementOfSeq
<1>2. Selected(changes, only) = FlattenSeq(parts)
  BY DEF Selected
<1>3. parts \in Seq(Seq(T))
  <2>1. \A i \in DOMAIN changes : parts[i] \in Seq(T)
    BY <1>1 DEF Kept
  <2>2. parts \in [1 .. Len(changes) -> Seq(T)]
    BY <1>1, <2>1
  <2> HIDE DEF parts
  <2> QED
    BY <1>1, <2>2
<1>4. /\ FlattenSeq(parts) \in Seq(T)
      /\ \A x : x \in ToSet(FlattenSeq(parts)) <=> \E i \in DOMAIN parts : x \in ToSet(parts[i])
  BY <1>3, FlattenEntries
<1>5. \A i \in DOMAIN changes : ToSet(parts[i]) = IF chosen(changes[i]) THEN {changes[i]} ELSE {}
  BY DEF Kept, ToSet
<1>6. DOMAIN parts = DOMAIN changes
  OBVIOUS
<1> HIDE DEF parts
<1>7. \A c : c \in ToSet(FlattenSeq(parts)) <=> \E i \in DOMAIN changes : chosen(changes[i]) /\ c = changes[i]
  BY <1>4, <1>5, <1>6
<1>8. \A c : c \in ToSet(FlattenSeq(parts)) <=> c \in ToSet(changes) /\ chosen(c)
  <2> HIDE DEF chosen
  <2> QED
    BY <1>7 DEF ToSet
<1> QED
  BY <1>2, <1>4, <1>8

\* Of the keys of one kind that cover a path there is a first of the longest.
LEMMA LongestExists ==
    ASSUME NEW reasons, NEW n \in Nat, DOMAIN reasons = 1 .. n,
           \A i \in 1 .. n : reasons[i].len \in Nat,
           NEW sort, NEW p, \E i \in 1 .. n : reasons[i].kind = sort /\ p \in reasons[i].covers
    PROVE  Longest(reasons, sort, p) # {}
<1> DEFINE hits == {i \in DOMAIN reasons : reasons[i].kind = sort /\ p \in reasons[i].covers}
           before(i, j) == \/ reasons[j].len < reasons[i].len
                           \/ reasons[j].len = reasons[i].len /\ i =< j
           some(m) == \E i \in hits : i =< m
           first(m) == \E i \in hits : i =< m /\ \A j \in hits : j =< m => before(i, j)
           bad == {m \in Nat : some(m) /\ ~first(m)}
<1>0. /\ hits # {}
      /\ \A i \in hits : i \in Nat /\ 1 =< i /\ i =< n /\ reasons[i].len \in Nat
  OBVIOUS
<1> HIDE DEF hits
<1>1. ASSUME NEW m \in bad PROVE \E k \in bad : k < m
  <2>1. m \in Nat /\ m # 0 /\ m - 1 \in Nat /\ m - 1 < m
    <3>1. m \in Nat /\ some(m)
      BY <1>1
    <3>2. m # 0
      BY <1>0, <3>1
    <3> QED
      BY <3>1, <3>2
  <2> SUFFICES ASSUME m - 1 \notin bad PROVE FALSE
    BY <1>1, <2>1
  <2>2. CASE m \notin hits
    <3>1. \A i \in hits : i =< m <=> i =< m - 1
      <4> TAKE i \in hits
      <4>1. i \in Nat /\ i # m
        BY <1>0, <2>2
      <4> QED
        BY <2>1, <4>1
    <3> QED
      BY <1>1, <2>1, <3>1
  <2>3. CASE m \in hits
    <3>1. CASE some(m - 1)
      <4>1. PICK i \in hits : i =< m - 1 /\ \A j \in hits : j =< m - 1 => before(i, j)
        BY <1>1, <2>1, <3>1
      <4>2. \A j \in hits : j =< m => j =< m - 1 \/ j = m
        BY <1>0, <1>1, <2>1
      <4>3. CASE reasons[i].len < reasons[m].len
        <5>1. \A j \in hits : j =< m => before(m, j)
          <6> SUFFICES ASSUME NEW j \in hits, j =< m PROVE before(m, j)
            OBVIOUS
          <6>1. /\ reasons[i].len \in Nat /\ reasons[j].len \in Nat /\ reasons[m].len \in Nat
                /\ j \in Nat
            BY <1>0, <2>3
          <6>2. j # m => before(i, j)
            BY <4>1, <4>2
          <6>3. \A x, y, z \in Nat : /\ x < y /\ z < x => z < y
                                     /\ x < y /\ z = x => z < y
            OBVIOUS
          <6>4. j # m => reasons[j].len < reasons[i].len \/ reasons[j].len = reasons[i].len
            BY <6>2
          <6>5. j # m => reasons[j].len < reasons[m].len
            BY <4>3, <6>1, <6>3, <6>4
          <6>6. j = m => reasons[j].len = reasons[m].len /\ m =< j
            BY <2>1
          <6> QED
            BY <6>5, <6>6, <2>1
        <5> QED
          BY <1>1, <2>3, <5>1
      <4>4. CASE ~(reasons[i].len < reasons[m].len)
        <5>1. before(i, m)
          <6>1. reasons[i].len \in Nat /\ reasons[m].len \in Nat /\ i \in Nat
            BY <1>0, <2>3
          <6>2. \A x, y \in Nat : ~(x < y) => y < x \/ y = x
            OBVIOUS
          <6>3. \/ reasons[m].len < reasons[i].len
                \/ reasons[m].len = reasons[i].len
            BY <4>4, <6>1, <6>2
          <6>4. i =< m
            BY <2>1, <4>1, <6>1
          <6> QED
            BY <6>3, <6>4
        <5>2. \A j \in hits : j =< m => before(i, j)
          BY <4>1, <4>2, <5>1
        <5>3. i \in hits /\ i =< m
          BY <1>0, <2>1, <4>1
        <5>4. first(m)
          <6> HIDE DEF before, hits
          <6> QED
            BY <5>2, <5>3
        <5> HIDE DEF first, some
        <5> QED
          BY <5>4
      <4> QED
        BY <4>3, <4>4
    <3>2. CASE ~some(m - 1)
      <4>1. \A j \in hits : j =< m => j = m
        BY <1>0, <1>1, <2>1, <3>2
      <4> QED
        BY <1>0, <1>1, <2>3, <4>1
    <3> QED
      BY <3>1, <3>2
  <2> QED
    BY <2>2, <2>3
<1>2. bad = {}
  <2> HIDE DEF bad
  <2>1. bad \in SUBSET Nat
    BY DEF bad
  <2> QED
    BY <1>1, <2>1, NoLeastFailure
<1>3. first(n)
  <2>1. some(n)
    BY <1>0
  <2> QED
    BY <1>2, <2>1
<1>4. PICK i \in hits : i =< n /\ \A j \in hits : j =< n => before(i, j)
  BY <1>3
<1>5. \A j \in hits : before(i, j)
  BY <1>0, <1>4
<1> QED
  BY <1>4, <1>5 DEF Longest, hits

\* A path that some key covers has a reason, and the reason is a key that covers it.
LEMMA ReasonCovers ==
    ASSUME NEW reasons, NEW n \in Nat, DOMAIN reasons = 1 .. n,
           \A i \in 1 .. n : reasons[i].len \in Nat, NEW p
    PROVE  /\ ReasonFor(reasons, p) # NoReason =>
                ReasonFor(reasons, p) \in 1 .. n /\ p \in reasons[ReasonFor(reasons, p)].covers
           /\ \A i \in 1 .. n :
                (reasons[i].kind \in {"exact", "dir", "glob"} /\ p \in reasons[i].covers)
                => ReasonFor(reasons, p) # NoReason
           /\ ReasonFor(reasons, p) # NoReason =>
                reasons[ReasonFor(reasons, p)].kind \in {"exact", "dir", "glob"}
<1> DEFINE exact == {i \in DOMAIN reasons : reasons[i].kind = "exact" /\ p \in reasons[i].covers}
<1>1. ASSUME exact # {}
      PROVE  ReasonFor(reasons, p) \in exact
  <2>1. exact \in SUBSET Nat
    OBVIOUS
  <2>2. \E i \in exact : \A j \in exact : i =< j
    <3> HIDE DEF exact
    <3> QED
      BY <1>1, <2>1, Least
  <2>3. ReasonFor(reasons, p) = CHOOSE i \in exact : \A j \in exact : i =< j
    BY <1>1 DEF ReasonFor
  <2> HIDE DEF exact
  <2> QED
    BY <2>2, <2>3
<1>2. ASSUME NEW sort
      PROVE  Longest(reasons, sort, p)
               \subseteq {i \in DOMAIN reasons : reasons[i].kind = sort /\ p \in reasons[i].covers}
  BY DEF Longest
<1>3. CASE exact # {}
  BY <1>1, <1>3, GitPlanAssumption
<1>4. CASE exact = {} /\ Longest(reasons, "dir", p) # {}
  <2>1. ReasonFor(reasons, p) \in Longest(reasons, "dir", p)
    BY <1>4 DEF ReasonFor
  <2>2. ReasonFor(reasons, p) \in {i \in DOMAIN reasons : reasons[i].kind = "dir" /\ p \in reasons[i].covers}
    BY <2>1, <1>2
  <2> QED
    BY <2>2, GitPlanAssumption
<1>5. CASE exact = {} /\ Longest(reasons, "dir", p) = {} /\ Longest(reasons, "glob", p) # {}
  <2>1. ReasonFor(reasons, p) \in Longest(reasons, "glob", p)
    BY <1>5 DEF ReasonFor
  <2>2. ReasonFor(reasons, p) \in {i \in DOMAIN reasons : reasons[i].kind = "glob" /\ p \in reasons[i].covers}
    BY <2>1, <1>2
  <2> QED
    BY <2>2, GitPlanAssumption
<1>6. CASE exact = {} /\ Longest(reasons, "dir", p) = {} /\ Longest(reasons, "glob", p) = {}
  <2>1. ReasonFor(reasons, p) = NoReason
    BY <1>6 DEF ReasonFor
  <2>2. \A i \in 1 .. n : p \in reasons[i].covers => reasons[i].kind \notin {"exact", "dir", "glob"}
    <3> SUFFICES ASSUME NEW i \in 1 .. n, p \in reasons[i].covers
                 PROVE  reasons[i].kind \notin {"exact", "dir", "glob"}
      OBVIOUS
    <3>1. reasons[i].kind # "exact"
      BY <1>6
    <3>2. reasons[i].kind # "dir"
      BY <1>6, LongestExists
    <3>3. reasons[i].kind # "glob"
      BY <1>6, LongestExists
    <3> QED
      BY <3>1, <3>2, <3>3
  <2> QED
    BY <2>1, <2>2
<1> QED
  BY <1>3, <1>4, <1>5, <1>6

\* The paths of a list of changes are finitely many.
LEMMA FinitelyMany ==
    ASSUME NEW T, NEW changes \in Seq(T), NEW paths \in SUBSET {c.path : c \in ToSet(changes)}
    PROVE  IsFiniteSet(paths)
<1> DEFINE n == Len(changes)
           all == {changes[i].path : i \in 1 .. n}
           f == [i \in 1 .. n |-> changes[i].path]
<1>1. n \in Nat /\ DOMAIN changes = 1 .. n
  BY LenProperties
<1>2. f \in Surjection(1 .. n, all)
  BY DEF Surjection
<1>3. IsFiniteSet(1 .. n)
  BY <1>1, FS_Interval
<1>4. IsFiniteSet(all)
  <2> HIDE DEF f, all
  <2> QED
    BY <1>2, <1>3, FS_Surjection
<1>5. paths \in SUBSET all
  BY <1>1 DEF ToSet
<1> QED
  BY <1>4, <1>5, FS_Subset

\* Whatever is changed and whatever reasons are given: no selected change is left out of the
\* account, no reason that is used is called unused, and adding the template is enough for
\* the call to go through (ReasonsAreAccounted).
THEOREM EveryReasonAccounted == AnswersSpec => []ReasonsAreAccounted
<1>1. Asked => ReasonsAreAccounted
  <2> SUFFICES ASSUME Asked, kind = "record" PROVE ReasonsAreAccounted
    BY DEF ReasonsAreAccounted
  <2> DEFINE changes == input.changes
             reasons == input.reasons
             only == input.only
             selected == Selected(changes, only)
             missing == MissingReasons(changes, reasons, FALSE, only)
             unused == UnusedReasons(changes, reasons, only)
             template == Template(missing)
             again == reasons \o template
             n == Len(reasons)
             m == Len(template)
  <2>1. /\ changes \in Seq(ToSet(changes))
        /\ reasons \in Seq(ToSet(reasons))
        /\ \A i \in DOMAIN reasons : reasons[i].len \in Nat
    <3>1. IsRequest(input)
      BY AnswersAssumption DEF Asked
    <3> QED
      BY <3>1 DEF IsRequest, ToSet
  <2>2. n \in Nat /\ DOMAIN reasons = 1 .. n
    BY <2>1, LenProperties
  <2>3. \A c : c \in ToSet(selected) <=>
          c \in ToSet(changes) /\ c.path \notin Artifact /\ OnlyAllows(only, c.path)
    BY <2>1, SelectedAre
  <2>4. missing = {c.path : c \in {c \in ToSet(selected) : ReasonFor(reasons, c.path) = NoReason}}
    BY DEF MissingReasons
  <2>5. SetToSeq(missing) \in Seq(missing) /\ ToSet(SetToSeq(missing)) = missing
    <3>1. missing \in SUBSET {c.path : c \in ToSet(changes)}
      BY <2>3, <2>4
    <3> HIDE DEF missing, changes
    <3>2. IsFiniteSet(missing)
      BY <2>1, <3>1, FinitelyMany
    <3> QED
      BY <3>2, ListsTheSet
  <2>6. /\ m \in Nat /\ DOMAIN template = 1 .. m
        /\ template \in Seq(ToSet(template))
        /\ \A i \in 1 .. m : template[i].kind = "exact" /\ template[i].len = 1
        /\ \A p \in missing : \E i \in 1 .. m : p \in template[i].covers
    <3> DEFINE list == SetToSeq(missing)
    <3>1. Len(list) \in Nat /\ DOMAIN list = 1 .. Len(list)
      BY <2>5, LenProperties
    <3>2. template = [i \in 1 .. Len(list) |->
                        [kind |-> "exact", len |-> 1, covers |-> {list[i]}, self |-> list[i]]]
      BY <3>1 DEF Template
    <3>3. \A p \in missing : \E i \in DOMAIN list : list[i] = p
      BY <2>5 DEF ToSet
    <3> HIDE DEF missing, template, list
    <3>4. DOMAIN template = 1 .. Len(list)
      BY <3>2
    <3>5. template \in [1 .. Len(list) -> ToSet(template)]
      BY <3>2 DEF ToSet
    <3>6. template \in Seq(ToSet(template))
      BY <3>1, <3>5
    <3>7. m = Len(list)
      BY <3>1, <3>4, <3>6, LenProperties
    <3> QED
      BY <3>1, <3>2, <3>3, <3>6, <3>7
  <2> HIDE DEF changes, reasons, only, selected, missing, unused, template
  <2>7. /\ DOMAIN again = 1 .. n + m /\ n + m \in Nat
        /\ \A i \in 1 .. n : again[i] = reasons[i]
        /\ \A i \in 1 .. m : n + i \in 1 .. n + m /\ again[n + i] = template[i]
    <3> DEFINE S == ToSet(reasons) \cup ToSet(template)
    <3>1. reasons \in Seq(S) /\ template \in Seq(S)
      BY <2>1, <2>6, SeqMonotonic
    <3> HIDE DEF S
    <3>2. /\ again \in Seq(S) /\ Len(again) = n + m
          /\ \A i \in 1 .. n + m : again[i] = IF i =< n THEN reasons[i] ELSE template[i - n]
      BY <3>1, ConcatProperties
    <3>3. DOMAIN again = 1 .. n + m
      BY <3>2, LenProperties
    <3> HIDE DEF again, n, m
    <3> QED
      BY <2>2, <2>6, <3>2, <3>3
  <2> HIDE DEF again, n, m
  <2>8. \A i \in 1 .. n + m : again[i].len \in Nat
    <3> TAKE i \in 1 .. n + m
    <3>1. CASE i \in 1 .. n
      <4>1. again[i] = reasons[i] /\ reasons[i].len \in Nat
        BY <2>1, <2>2, <2>7, <3>1
      <4> QED
        BY <4>1
    <3>2. CASE i \notin 1 .. n
      <4>1. PICK j \in 1 .. m : i = n + j
        <5>1. i - n \in 1 .. m /\ i = n + (i - n)
          BY <2>2, <2>6, <3>2
        <5> QED
          BY <5>1
      <4>2. again[i] = template[j] /\ template[j].len = 1
        BY <2>6, <2>7, <4>1
      <4> QED
        BY <4>2
    <3> QED
      BY <3>1, <3>2
  <2>9. ASSUME NEW c \in ToSet(selected), c.path \notin missing
        PROVE  /\ ReasonFor(reasons, c.path) \in 1 .. n
               /\ ReasonFor(reasons, c.path) \in DOMAIN reasons \ unused
               /\ ReasonFor(again, c.path) # NoReason
    <3> DEFINE r == ReasonFor(reasons, c.path)
    <3>1. r # NoReason
      BY <2>4, <2>9
    <3>2. /\ r \in 1 .. n /\ c.path \in reasons[r].covers
          /\ reasons[r].kind \in {"exact", "dir", "glob"}
      BY <2>1, <2>2, <3>1, ReasonCovers
    <3> HIDE DEF r
    <3>3. r \notin unused
      BY <2>9, <3>2 DEF unused, UnusedReasons, KeyMatches, selected
    <3>4. /\ r \in 1 .. n + m /\ c.path \in again[r].covers
          /\ again[r].kind \in {"exact", "dir", "glob"}
      BY <2>2, <2>6, <2>7, <3>2
    <3>5. ReasonFor(again, c.path) # NoReason
      BY <2>7, <2>8, <3>4, ReasonCovers
    <3> QED
      BY <2>2, <3>2, <3>3, <3>5 DEF r
  <2>10. ASSUME NEW c \in ToSet(selected)
         PROVE  ReasonFor(again, c.path) # NoReason
    <3>1. CASE c.path \in missing
      <4>1. PICK i \in 1 .. m : c.path \in template[i].covers
        BY <2>6, <3>1
      <4>2. /\ n + i \in 1 .. n + m /\ c.path \in again[n + i].covers
            /\ again[n + i].kind = "exact"
        BY <2>6, <2>7, <4>1
      <4> QED
        BY <2>7, <2>8, <4>2, ReasonCovers
    <3>2. CASE c.path \notin missing
      BY <2>9, <3>2
    <3> QED
      BY <3>1, <3>2
  <2>11. Planned(changes, again, FALSE, only) = selected
    <3>1. MissingReasons(changes, again, FALSE, only) = {}
      BY <2>10 DEF MissingReasons, selected
    <3> QED
      BY <3>1 DEF Planned, selected
  <2>12. \A c \in ToSet(selected) : \/ c.path \in missing
                                    \/ ReasonFor(reasons, c.path) \in DOMAIN reasons \ unused
    BY <2>9
  <2>13. \A c \in ToSet(changes) : OnlyAllows(only, c.path) =>
           \/ c.path \in Artifact
           \/ ReasonFor(again, c.path) # NoReason /\ c \in ToSet(Planned(changes, again, FALSE, only))
    BY <2>3, <2>10, <2>11
  <2> QED
    BY <2>12, <2>13 DEF ReasonsAreAccounted, changes, reasons, only, selected, missing, unused,
       template, again, n, m
<1> QED
  BY <1>1, StaysAsked, PTL

-----------------------------------------------------------------------------
\* record-changes: the changes git reports

\* Of the entries of two lists about a path the last is one of the second list if there is one.
LEMMA LastSaid ==
    ASSUME NEW T, NEW a \in Seq(T), NEW b \in Seq(T), NEW p
    PROVE  /\ (\E c \in ToSet(b) : c.path = p) =>
                \E c \in ToSet(b) : c.path = p /\ LastWord(a \o b, p) = c.deleted
           /\ (~(\E c \in ToSet(b) : c.path = p) /\ \E c \in ToSet(a) : c.path = p) =>
                \E c \in ToSet(a) : c.path = p /\ LastWord(a \o b, p) = c.deleted
<1> DEFINE ab == a \o b
           n == Len(a)
           m == Len(b)
           about == {i \in DOMAIN ab : ab[i].path = p}
<1>1. /\ n \in Nat /\ m \in Nat /\ n + m \in Nat
      /\ DOMAIN a = 1 .. n /\ DOMAIN b = 1 .. m
  BY LenProperties
<1>2. /\ DOMAIN ab = 1 .. n + m
      /\ \A i \in 1 .. n + m : ab[i] = IF i =< n THEN a[i] ELSE b[i - n]
  BY ConcatProperties, LenProperties
<1> HIDE DEF n, m
<1>3. LastWord(ab, p) = ab[Max(about)].deleted
  BY DEF LastWord
<1> HIDE DEF ab
<1>4. about # {} => Max(about) \in about /\ \A j \in about : j =< Max(about)
  <2> SUFFICES ASSUME about # {} PROVE Max(about) \in about /\ \A j \in about : j =< Max(about)
    OBVIOUS
  <2> DEFINE left == {k \in Nat : \E i \in about : k = n + m - i}
  <2>1. \A i \in about : i \in 1 .. n + m
    BY <1>2
  <2>2. left # {} /\ left \in SUBSET Nat
    <3>1. PICK i \in about : TRUE
      OBVIOUS
    <3>2. n + m - i \in Nat
      BY <1>1, <2>1
    <3> QED
      BY <3>2
  <2>3. PICK k \in left : \A j \in left : k =< j
    <3> HIDE DEF left
    <3> QED
      BY <2>2, Least
  <2>4. PICK i \in about : k = n + m - i
    OBVIOUS
  <2>5. \A j \in about : i >= j
    <3> TAKE j \in about
    <3>1. n + m - j \in left /\ i \in 1 .. n + m /\ j \in 1 .. n + m
      BY <1>1, <2>1
    <3>2. n + m - i =< n + m - j
      BY <2>3, <2>4, <3>1
    <3> QED
      BY <1>1, <3>1, <3>2
  <2>6. \E x \in about : \A y \in about : x >= y
    BY <2>5
  <2>7. Max(about) \in about /\ \A y \in about : Max(about) >= y
    <3> HIDE DEF about
    <3> QED
      BY <2>6 DEF Max
  <2> QED
    BY <1>1, <2>1, <2>7
<1> DEFINE last == Max(about)
<1> HIDE DEF last
<1>5. ASSUME NEW c \in ToSet(b), c.path = p
      PROVE  last \in about /\ n < last
  <2>1. PICK i \in 1 .. m : b[i] = c
    BY <1>1 DEF ToSet
  <2>2. n + i \in 1 .. n + m /\ ~(n + i =< n) /\ (n + i) - n = i
    BY <1>1
  <2>3. n + i \in about
    BY <1>2, <1>5, <2>1, <2>2
  <2>4. last \in about /\ n + i =< last
    BY <1>4, <2>3 DEF last
  <2>5. last \in Nat
    BY <1>1, <1>2, <2>4
  <2> QED
    BY <1>1, <2>4, <2>5
<1>6. ASSUME NEW c \in ToSet(a), c.path = p
      PROVE  last \in about
  <2>1. PICK i \in 1 .. n : a[i] = c
    BY <1>1 DEF ToSet
  <2>2. i \in 1 .. n + m /\ i =< n
    BY <1>1
  <2>3. i \in about
    BY <1>2, <1>6, <2>1, <2>2
  <2> QED
    BY <1>4, <2>3 DEF last
<1>7. last \in about => /\ last \in 1 .. n + m
                        /\ ab[last].path = p
                        /\ LastWord(ab, p) = ab[last].deleted
  BY <1>2, <1>3 DEF last
<1>8. last \in 1 .. n + m => IF last =< n THEN ab[last] \in ToSet(a) ELSE ab[last] \in ToSet(b)
  <2> SUFFICES ASSUME last \in 1 .. n + m
               PROVE  IF last =< n THEN ab[last] \in ToSet(a) ELSE ab[last] \in ToSet(b)
    OBVIOUS
  <2>1. last =< n => last \in 1 .. n
    BY <1>1
  <2>2. ~(last =< n) => last - n \in 1 .. m
    BY <1>1
  <2> QED
    BY <1>1, <1>2, <2>1, <2>2 DEF ToSet
<1>9. ASSUME NEW c \in ToSet(b), c.path = p
      PROVE  \E d \in ToSet(b) : d.path = p /\ LastWord(ab, p) = d.deleted
  <2>1. last \in about /\ n < last /\ last \in 1 .. n + m
    BY <1>5, <1>7, <1>9
  <2>2. ab[last] \in ToSet(b)
    BY <1>1, <1>8, <2>1
  <2> QED
    BY <1>7, <2>1, <2>2
<1>10. ASSUME NEW c \in ToSet(a), c.path = p, ~(\E d \in ToSet(b) : d.path = p)
       PROVE  \E d \in ToSet(a) : d.path = p /\ LastWord(ab, p) = d.deleted
  <2>1. last \in about /\ last \in 1 .. n + m
    BY <1>6, <1>7, <1>10
  <2>2. ab[last] \in ToSet(a)
    BY <1>7, <1>8, <1>10, <2>1
  <2> QED
    BY <1>7, <2>1, <2>2
<1> QED
  BY <1>9, <1>10 DEF ab

\* Every entry of a list replaced by a list: what is in the result.
LEMMA FlattenMap ==
    ASSUME NEW L, NEW T, NEW r \in [L -> Seq(T)], NEW x \in Seq(L),
           NEW parts \in [DOMAIN x -> Seq(T)], \A i \in DOMAIN x : parts[i] = r[x[i]]
    PROVE  /\ parts \in Seq(Seq(T)) /\ Len(parts) = Len(x)
           /\ FlattenSeq(parts) \in Seq(T)
           /\ \A e : e \in ToSet(FlattenSeq(parts)) <=> \E l \in ToSet(x) : e \in ToSet(r[l])
<1>1. DOMAIN x = 1 .. Len(x) /\ Len(x) \in Nat
  BY LenProperties
<1>2. parts \in Seq(Seq(T)) /\ Len(parts) = Len(x)
  <2>1. \A n \in Nat : \A S, f : f \in [1 .. n -> S] => f \in Seq(S)
    OBVIOUS
  <2>2. parts \in Seq(Seq(T)) /\ DOMAIN parts = 1 .. Len(x)
    BY <1>1, <2>1
  <2> QED
    BY <1>1, <2>2, LenProperties
<1>3. /\ FlattenSeq(parts) \in Seq(T)
      /\ \A e : e \in ToSet(FlattenSeq(parts)) <=> \E i \in DOMAIN parts : e \in ToSet(parts[i])
  BY <1>2, FlattenEntries
<1>4. \A e : (\E i \in DOMAIN parts : e \in ToSet(parts[i])) <=> \E l \in ToSet(x) : e \in ToSet(r[l])
  <2>1. \A l : l \in ToSet(x) <=> \E i \in DOMAIN x : l = x[i]
    BY DEF ToSet
  <2>2. DOMAIN parts = DOMAIN x
    OBVIOUS
  <2> TAKE e
  <2>3. ASSUME NEW i \in DOMAIN parts, e \in ToSet(parts[i])
        PROVE  \E l \in ToSet(x) : e \in ToSet(r[l])
    <3>1. x[i] \in ToSet(x) /\ parts[i] = r[x[i]]
      BY <2>1, <2>2
    <3> QED
      BY <2>3, <3>1
  <2>4. ASSUME NEW l \in ToSet(x), e \in ToSet(r[l])
        PROVE  \E i \in DOMAIN parts : e \in ToSet(parts[i])
    <3>1. PICK i \in DOMAIN x : l = x[i]
      BY <2>1
    <3>2. i \in DOMAIN parts /\ parts[i] = r[l]
      BY <2>2, <3>1
    <3> QED
      BY <2>4, <3>2
  <2> QED
    BY <2>3, <2>4
<1>5. \A e : e \in ToSet(FlattenSeq(parts)) <=> \E l \in ToSet(x) : e \in ToSet(r[l])
  BY <1>3, <1>4
<1> QED
  BY <1>2, <1>3, <1>5

\* The entries of short lists.
LEMMA FewEntries ==
    /\ ToSet(<<>>) = {}
    /\ \A x : ToSet(<<x>>) = {x}
    /\ \A x, y : ToSet(<<x, y>>) = {x, y}
<1>1. ToSet(<<>>) = {}
  BY EmptySeq DEF ToSet
<1>2. \A x : ToSet(<<x>>) = {x}
  BY DEF ToSet
<1>3. \A x, y : ToSet(<<x, y>>) = {x, y}
  BY DEF ToSet
<1> QED
  BY <1>1, <1>2, <1>3

\* What the lines of git status say of what is in the commit or the index.
StatusTold(s) ==
    UNION {ToSet(ReadStatus(line)) : line \in UNION {ToSet(StatusLine(s, q)) : q \in Path}}

\* What the lines of git diff --name-status say.
NamesTold(s) ==
    UNION {ToSet(ReadNameStatus(line)) : line \in UNION {ToSet(NameLine(s, q)) : q \in Path}}

\* What the untracked files add.
Newly(s) == {Change(q, FALSE) : q \in {q \in Path : Untracked(s, q)}}

\* The changes are one list after the other, with these entries.
InTwo(changes, earlier, later) ==
    \E T : \E a, b \in Seq(T) : changes = a \o b /\ ToSet(a) = earlier /\ ToSet(b) = later

\* What git sees of a path it does not list as untracked.
LEMMA Seen ==
    ASSUME NEW s, NEW p \in Path, p \notin DOMAIN s.clash, ~Untracked(s, p)
    PROVE  Sight(s, p) = Shown(s)[p]
BY DEF Untracked, Sight, Shown

\* What is said of a path that git has no conflict about, and that is not gone from under a new
\* name, by the lines of other paths and its own: it is gone if git does not see it, it is there
\* if it does, and if nothing is said it is as in the commit.
LEMMA StatusFits ==
    ASSUME NEW s, Paired(s), NEW p \in Path, p \notin DOMAIN s.clash, ~Untracked(s, p),
           ~(s.work[p] = Away /\ OldNames(Renames(s, s.index), p) # {})
    PROVE  LET said == {c \in StatusTold(s) : c.path = p}
           IN  /\ \A c \in said : c.deleted = (Sight(s, p) = Away)
               /\ said = {} => Sight(s, p) = s.head[p]
<1> DEFINE renames == Renames(s, s.index)
           from(q) == OldNames(renames, q)
           staged(q) == Letter(s.head[q], s.index[q])
           edited(q) == IF s.index[q] = Away THEN " " ELSE Letter(s.index[q], s.work[q])
           moved(q) == \E r \in renames : r[1] = q
           pick(q) == CHOOSE f \in from(q) : TRUE
           Tell(q, c) == \E line \in ToSet(StatusLine(s, q)) : c \in ToSet(ReadStatus(line))
<1>1. \A q \in Path : from(q) # {} => pick(q) \in from(q)
  OBVIOUS
<1>2. \A r \in renames : /\ r[1] \in Path /\ r[2] \in Path /\ r[2] \notin DOMAIN s.clash
                            /\ s.head[r[1]] # Away /\ s.index[r[1]] = Away
                            /\ s.head[r[2]] = Away /\ s.index[r[2]] = s.head[r[1]]
  BY DEF Renames
<1>3. \A q, f : f \in from(q) <=> \E r \in renames : r[2] = q /\ r[1] = f
  BY DEF OldNames
<1>4. NoPath \notin Path
  BY GitPlanAssumption
<1> HIDE DEF renames, from
<1>5. \A q \in Path : \A c :
        /\ q \in DOMAIN s.clash => (Tell(q, c) => c.path = q)
        /\ (q \notin DOMAIN s.clash /\ from(q) # {}) =>
              (Tell(q, c) <=> c \in {Change(pick(q), TRUE), Change(q, FALSE)})
        /\ (q \notin DOMAIN s.clash /\ from(q) = {} /\ (moved(q) \/ <<staged(q), edited(q)>> = <<" ", " ">>))
              => ~Tell(q, c)
        /\ (/\ q \notin DOMAIN s.clash /\ from(q) = {}
            /\ ~(moved(q) \/ <<staged(q), edited(q)>> = <<" ", " ">>)) =>
              (Tell(q, c) <=> c = Change(q, "D" \in {staged(q), edited(q)}))
  <2> TAKE q \in Path
  <2> TAKE c
  <2> DEFINE plain(code) == [code |-> code, from |-> NoPath, path |-> q]
  <2>1. \A a, b : LET line == plain(<<a, b>>)
                  IN  ToSet(ReadStatus(line)) = {Change(q, "D" \in {a, b})}
    <3> TAKE a, b
    <3>1. ToSet(<<a, b>>) = {a, b}
      BY FewEntries
    <3> QED
      BY <3>1, FewEntries DEF ReadStatus
  <2>2. ASSUME q \in DOMAIN s.clash, Tell(q, c) PROVE c.path = q
    <3>1. ToSet(StatusLine(s, q)) = {plain(s.clash[q])}
      BY <2>2, FewEntries DEF StatusLine
    <3>2. ToSet(ReadStatus(plain(s.clash[q]))) = {Change(q, "D" \in ToSet(s.clash[q]))}
      BY FewEntries DEF ReadStatus
    <3> QED
      BY <2>2, <3>1, <3>2 DEF Change
  <2>3. ASSUME q \notin DOMAIN s.clash, from(q) # {}
        PROVE  Tell(q, c) <=> c \in {Change(pick(q), TRUE), Change(q, FALSE)}
    <3> DEFINE line == [code |-> <<"R", edited(q)>>, from |-> pick(q), path |-> q]
    <3>1. ToSet(StatusLine(s, q)) = {line}
      BY <2>3, FewEntries DEF StatusLine, renames, from
    <3>2. pick(q) # NoPath
      BY <1>1, <1>2, <1>3, <1>4, <2>3
    <3>3. ToSet(ReadStatus(line)) = {Change(pick(q), TRUE), Change(q, FALSE)}
      BY <3>2, FewEntries DEF ReadStatus
    <3> QED
      BY <3>1, <3>3
  <2>4. ASSUME q \notin DOMAIN s.clash, from(q) = {},
               moved(q) \/ <<staged(q), edited(q)>> = <<" ", " ">>
        PROVE  ~Tell(q, c)
    <3>1. StatusLine(s, q) = <<>>
      BY <2>4 DEF StatusLine, renames, from
    <3> QED
      BY <3>1, FewEntries
  <2>5. ASSUME q \notin DOMAIN s.clash, from(q) = {},
               ~(moved(q) \/ <<staged(q), edited(q)>> = <<" ", " ">>)
        PROVE  Tell(q, c) <=> c = Change(q, "D" \in {staged(q), edited(q)})
    <3>1. ToSet(StatusLine(s, q)) = {plain(<<staged(q), edited(q)>>)}
      BY <2>5, FewEntries DEF StatusLine, renames, from
    <3> HIDE DEF plain, staged, edited
    <3> QED
      BY <2>1, <3>1
  <2> QED
    BY <2>2, <2>3, <2>4, <2>5
<1> HIDE DEF moved, pick, staged, edited
<1> DEFINE said == {c \in StatusTold(s) : c.path = p}
<1>6. \A c : c \in said <=> c.path = p /\ \E q \in Path : Tell(q, c)
  BY DEF StatusTold
<1>7. \A q \in Path : \A gone :
        Change(q, gone).path = q /\ Change(q, gone).deleted = gone
  BY DEF Change
<1> HIDE DEF Tell, said
<1>8. /\ s.index[p] = Away => Sight(s, p) = Away
      /\ s.index[p] # Away => Sight(s, p) = s.work[p]
  BY DEF Untracked, Sight
<1>9. (\E r \in renames : r[2] = p) => Sight(s, p) # Away
  <2> SUFFICES ASSUME NEW r \in renames, r[2] = p PROVE Sight(s, p) # Away
    OBVIOUS
  <2>1. r[1] \in from(p)
    BY <1>3
  <2>2. s.work[p] # Away
    BY <2>1 DEF from, renames
  <2>3. s.index[p] # Away
    BY <1>2
  <2> QED
    BY <1>8, <2>2, <2>3
<1>10. (p \notin DOMAIN s.clash /\ from(p) = {}) => ("D" \in {staged(p), edited(p)}) =
         (Sight(s, p) = Away /\ <<staged(p), edited(p)>> # <<" ", " ">>)
  <2>1. CASE s.index[p] = Away
    BY <1>8, <2>1 DEF staged, edited, Letter
  <2>2. CASE s.index[p] # Away
    BY <1>8, <2>2 DEF staged, edited, Letter
  <2> QED
    BY <2>1, <2>2
<1>11. ASSUME NEW c \in said PROVE c.deleted = (Sight(s, p) = Away)
  <2>1. PICK q \in Path : c.path = p /\ Tell(q, c)
    BY <1>6, <1>11
  <2>2. q \notin DOMAIN s.clash
    BY <1>5, <2>1
  <2>3. CASE from(q) # {}
    <3>1. c = Change(pick(q), TRUE) \/ c = Change(q, FALSE)
      BY <1>5, <2>1, <2>2, <2>3
    <3>2. PICK r \in renames : r[2] = q /\ r[1] = pick(q)
      BY <1>1, <1>3, <2>3
    <3>3. r[1] \in Path /\ s.index[r[1]] = Away
      BY <1>2
    <3>4. CASE c = Change(pick(q), TRUE)
      <4>1. pick(q) = p /\ c.deleted = TRUE
        BY <1>7, <2>1, <3>2, <3>3, <3>4
      <4>2. Sight(s, p) = Away
        BY <1>8, <3>2, <3>3, <4>1
      <4> QED
        BY <4>1, <4>2
    <3>5. CASE c = Change(q, FALSE)
      <4>1. q = p /\ c.deleted = FALSE
        BY <1>7, <2>1, <3>5
      <4>2. Sight(s, p) # Away
        BY <1>9, <3>2, <4>1
      <4> QED
        BY <4>1, <4>2
    <3> QED
      BY <3>1, <3>4, <3>5
  <2>4. CASE from(q) = {}
    <3>1. ~(moved(q) \/ <<staged(q), edited(q)>> = <<" ", " ">>)
      BY <1>5, <2>1, <2>2, <2>4
    <3>2. c = Change(q, "D" \in {staged(q), edited(q)})
      BY <1>5, <2>1, <2>2, <2>4, <3>1
    <3>3. q = p /\ c.deleted = ("D" \in {staged(q), edited(q)})
      BY <2>1, <3>2 DEF Change
    <3> QED
      BY <1>10, <2>4, <3>1, <3>3
  <2> QED
    BY <2>3, <2>4
<1>12. ASSUME said = {} PROVE Sight(s, p) = s.head[p]
  <2>1. \A q \in Path : \A gone : Tell(q, Change(p, gone)) => FALSE
    BY <1>6, <1>7, <1>12
  <2>2. from(p) = {}
    <3> SUFFICES ASSUME from(p) # {} PROVE FALSE
      OBVIOUS
    <3>1. Tell(p, Change(p, FALSE))
      BY <1>5
    <3> QED
      BY <2>1, <3>1
  <2>3. ~moved(p)
    <3> SUFFICES ASSUME moved(p) PROVE FALSE
      OBVIOUS
    <3>1. PICK r \in renames : r[1] = p
      BY DEF moved
    <3> DEFINE q == r[2]
    <3>2. q \in Path /\ q \notin DOMAIN s.clash
      BY <1>2
    <3>3. p \in from(q)
      BY <1>3, <3>1
    <3>4. PICK t \in renames : t[2] = q /\ t[1] = pick(q)
      BY <1>1, <1>3, <3>2, <3>3
    <3>5. pick(q) = p
      BY <3>1, <3>4 DEF Paired, renames
    <3>6. Tell(q, Change(p, TRUE))
      BY <1>5, <3>2, <3>3, <3>5
    <3> QED
      BY <2>1, <3>2, <3>6
  <2>4. <<staged(p), edited(p)>> = <<" ", " ">>
    <3> SUFFICES ASSUME <<staged(p), edited(p)>> # <<" ", " ">> PROVE FALSE
      OBVIOUS
    <3>1. Tell(p, Change(p, "D" \in {staged(p), edited(p)}))
      BY <1>5, <2>2, <2>3
    <3> QED
      BY <2>1, <3>1
  <2>5. staged(p) = " " /\ edited(p) = " "
    BY <2>4
  <2>6. s.head[p] = s.index[p]
    BY <2>5 DEF staged, Letter
  <2>7. CASE s.index[p] = Away
    BY <1>8, <2>6, <2>7
  <2>8. CASE s.index[p] # Away
    BY <1>8, <2>5, <2>6, <2>8 DEF edited, Letter
  <2> QED
    BY <2>7, <2>8
<1> QED
  BY <1>11, <1>12 DEF said

\* The same of git diff --name-status, with no case left out.
LEMMA NamesFit ==
    ASSUME NEW s, Paired(s), NEW p \in Path, p \notin DOMAIN s.clash, ~Untracked(s, p)
    PROVE  LET said == {c \in NamesTold(s) : c.path = p}
           IN  /\ \A c \in said : c.deleted = (Sight(s, p) = Away)
               /\ said = {} => Sight(s, p) = s.head[p]
<1> DEFINE now == Shown(s)
           renames == Renames(s, now)
           from(q) == OldNames(renames, q)
           letter(q) == Letter(s.head[q], now[q])
           moved(q) == \E r \in renames : r[1] = q
           pick(q) == CHOOSE f \in from(q) : TRUE
           Tell(q, c) == \E line \in ToSet(NameLine(s, q)) : c \in ToSet(ReadNameStatus(line))
<1>1. Sight(s, p) = now[p]
  BY Seen
<1>2. \A q \in Path : from(q) # {} => pick(q) \in from(q)
  OBVIOUS
<1>3. \A r \in renames : /\ r[1] \in Path /\ r[2] \in Path /\ now[r[1]] = Away
                         /\ s.head[r[1]] # Away /\ now[r[2]] = s.head[r[1]]
  BY DEF Renames
<1>4. \A q, f : f \in from(q) <=> \E r \in renames : r[2] = q /\ r[1] = f
  BY DEF OldNames
<1>5. \A r, q \in renames : (r[1] = q[1]) = (r[2] = q[2])
  BY DEF Paired
<1>6. \A q : /\ letter(q) \in {" ", "A", "D", "M"}
             /\ (letter(q) = " ") = (s.head[q] = now[q])
             /\ letter(q) # " " => (letter(q) = "D") = (now[q] = Away)
  BY DEF Letter
<1> HIDE DEF now, renames, from, letter
<1>7. \A q \in Path : \A c :
        /\ from(q) # {} => (Tell(q, c) <=> c \in {Change(pick(q), TRUE), Change(q, FALSE)})
        /\ (from(q) = {} /\ (moved(q) \/ letter(q) = " ")) => ~Tell(q, c)
        /\ (from(q) = {} /\ ~(moved(q) \/ letter(q) = " ")) =>
              (Tell(q, c) <=> c = Change(q, letter(q) = "D"))
  <2> TAKE q \in Path
  <2> TAKE c
  <2>1. ASSUME from(q) # {}
        PROVE  Tell(q, c) <=> c \in {Change(pick(q), TRUE), Change(q, FALSE)}
    <3> DEFINE line == [code |-> <<"R">>, from |-> pick(q), path |-> q]
    <3>1. ToSet(NameLine(s, q)) = {line}
      BY <2>1, FewEntries DEF NameLine, now, renames, from
    <3>2. ToSet(ReadNameStatus(line)) = {Change(pick(q), TRUE), Change(q, FALSE)}
      BY FewEntries DEF ReadNameStatus
    <3> QED
      BY <3>1, <3>2
  <2>2. ASSUME from(q) = {}, moved(q) \/ letter(q) = " "
        PROVE  ~Tell(q, c)
    <3>1. NameLine(s, q) = <<>>
      BY <2>2 DEF NameLine, now, renames, from, letter
    <3> QED
      BY <3>1, FewEntries
  <2>3. ASSUME from(q) = {}, ~(moved(q) \/ letter(q) = " ")
        PROVE  Tell(q, c) <=> c = Change(q, letter(q) = "D")
    <3> DEFINE line == [code |-> <<letter(q)>>, from |-> NoPath, path |-> q]
    <3>1. ToSet(NameLine(s, q)) = {line}
      BY <2>3, FewEntries DEF NameLine, now, renames, from, letter
    <3>2. line.code[1] = letter(q) /\ line.path = q
      OBVIOUS
    <3>3. ReadNameStatus(line) = <<Change(line.path, line.code[1] = "D")>>
      BY <1>6, <3>2 DEF ReadNameStatus
    <3>4. ToSet(ReadNameStatus(line)) = {Change(q, letter(q) = "D")}
      BY <3>2, <3>3, FewEntries
    <3> QED
      BY <3>1, <3>4
  <2> QED
    BY <2>1, <2>2, <2>3
<1> DEFINE said == {c \in NamesTold(s) : c.path = p}
<1>8. \A c : c \in said <=> c.path = p /\ \E q \in Path : Tell(q, c)
  BY DEF NamesTold
<1>9. \A q \in Path : \A gone : Change(q, gone).path = q /\ Change(q, gone).deleted = gone
  BY DEF Change
<1> HIDE DEF moved, pick, Tell, said
<1>10. ASSUME NEW c \in said PROVE c.deleted = (now[p] = Away)
  <2>1. PICK q \in Path : c.path = p /\ Tell(q, c)
    BY <1>8, <1>10
  <2>2. CASE from(q) # {}
    <3>1. c = Change(pick(q), TRUE) \/ c = Change(q, FALSE)
      BY <1>7, <2>1, <2>2
    <3>2. PICK r \in renames : r[2] = q /\ r[1] = pick(q)
      BY <1>2, <1>4, <2>2
    <3>3. CASE c = Change(pick(q), TRUE)
      <4>1. pick(q) = p /\ c.deleted = TRUE
        BY <1>3, <1>9, <2>1, <3>2, <3>3
      <4> QED
        BY <1>3, <3>2, <4>1
    <3>4. CASE c = Change(q, FALSE)
      <4>1. q = p /\ c.deleted = FALSE
        BY <1>9, <2>1, <3>4
      <4>2. now[p] # Away
        BY <1>3, <3>2, <4>1
      <4> QED
        BY <4>1, <4>2
    <3> QED
      BY <3>1, <3>3, <3>4
  <2>3. CASE from(q) = {}
    <3>1. ~(moved(q) \/ letter(q) = " ")
      BY <1>7, <2>1, <2>3
    <3>2. c = Change(q, letter(q) = "D")
      BY <1>7, <2>1, <2>3, <3>1
    <3>3. q = p /\ c.deleted = (letter(q) = "D")
      BY <1>9, <2>1, <3>2
    <3> QED
      BY <1>6, <3>1, <3>3
  <2> QED
    BY <2>2, <2>3
<1>11. ASSUME said = {} PROVE now[p] = s.head[p]
  <2>1. \A q \in Path : \A gone : ~Tell(q, Change(p, gone))
    BY <1>8, <1>9, <1>11
  <2>2. from(p) = {}
    <3> SUFFICES ASSUME from(p) # {} PROVE FALSE
      OBVIOUS
    <3>1. Tell(p, Change(p, FALSE))
      BY <1>7
    <3> QED
      BY <2>1, <3>1
  <2>3. ~moved(p)
    <3> SUFFICES ASSUME moved(p) PROVE FALSE
      OBVIOUS
    <3>1. PICK r \in renames : r[1] = p
      BY DEF moved
    <3> DEFINE q == r[2]
    <3>2. q \in Path /\ p \in from(q)
      BY <1>3, <1>4, <3>1
    <3>3. PICK u \in renames : u[2] = q /\ u[1] = pick(q)
      BY <1>2, <1>4, <3>2
    <3>4. pick(q) = p
      BY <1>5, <3>1, <3>3
    <3>5. Tell(q, Change(p, TRUE))
      BY <1>7, <3>2, <3>4
    <3> QED
      BY <2>1, <3>2, <3>5
  <2>4. letter(p) = " "
    <3> SUFFICES ASSUME letter(p) # " " PROVE FALSE
      OBVIOUS
    <3>1. Tell(p, Change(p, letter(p) = "D"))
      BY <1>7, <2>2, <2>3
    <3> QED
      BY <2>1, <3>1
  <2> QED
    BY <1>6, <2>4
<1> QED
  BY <1>1, <1>10, <1>11 DEF said

\* What git lists as untracked.
LEMMA UntrackedAre ==
    ASSUME NEW s
    PROVE  LET line(q) == [code |-> <<"?", "?">>, from |-> NoPath, path |-> q]
               new == {line(q) : q \in {q \in Path : Untracked(s, q)}}
           IN  UntrackedLines(s) \in Seq(new) /\ ToSet(UntrackedLines(s)) = new
<1> DEFINE line(q) == [code |-> <<"?", "?">>, from |-> NoPath, path |-> q]
           new == {line(q) : q \in {q \in Path : Untracked(s, q)}}
           r == [q \in Path |-> Kept(Untracked(s, q), line(q))]
           parts == [i \in DOMAIN Ordered |-> r[Ordered[i]]]
<1>1. Ordered \in Seq(Path) /\ ToSet(Ordered) = Path
  BY GitPlanAssumption, ListsTheSet DEF Ordered
<1>2. \A i \in DOMAIN Ordered : Ordered[i] \in Path
  BY <1>1 DEF ToSet
<1>3. UntrackedLines(s) = FlattenSeq(parts)
  <2>1. parts = [i \in DOMAIN Ordered |-> Kept(Untracked(s, Ordered[i]), line(Ordered[i]))]
    BY <1>2
  <2> QED
    BY <2>1 DEF UntrackedLines
<1>4. r \in [Path -> Seq(new)]
  <2>1. \A q \in Path : Kept(Untracked(s, q), line(q)) \in Seq(new)
    <3> TAKE q \in Path
    <3>1. CASE Untracked(s, q)
      <4>1. line(q) \in new
        BY <3>1
      <4> HIDE DEF new, line
      <4> QED
        BY <3>1, <4>1 DEF Kept
    <3>2. CASE ~Untracked(s, q)
      BY <3>2, EmptySeq DEF Kept
    <3> QED
      BY <3>1, <3>2
  <2> HIDE DEF new, line
  <2> QED
    BY <2>1
<1>5. \A e : (\E q \in Path : e \in ToSet(r[q])) <=> e \in new
  <2>1. \A q \in Path : ToSet(r[q]) = IF Untracked(s, q) THEN {line(q)} ELSE {}
    BY FewEntries DEF Kept
  <2> HIDE DEF r
  <2> QED
    BY <2>1
<1> HIDE DEF new, r
<1>6. parts \in [DOMAIN Ordered -> Seq(new)] /\ \A i \in DOMAIN Ordered : parts[i] = r[Ordered[i]]
  BY <1>2, <1>4
<1> HIDE DEF parts
<1>7. /\ FlattenSeq(parts) \in Seq(new)
      /\ \A e : e \in ToSet(FlattenSeq(parts)) <=> \E q \in ToSet(Ordered) : e \in ToSet(r[q])
  <2> DEFINE x == Ordered
  <2>1. x \in Seq(Path) /\ parts \in [DOMAIN x -> Seq(new)] /\ \A i \in DOMAIN x : parts[i] = r[x[i]]
    BY <1>1, <1>6
  <2> HIDE DEF x
  <2>2. /\ FlattenSeq(parts) \in Seq(new)
        /\ \A e : e \in ToSet(FlattenSeq(parts)) <=> \E q \in ToSet(x) : e \in ToSet(r[q])
    <3>0. parts \in Seq(Seq(new))
      BY <1>4, <2>1, FlattenMap
    <3>1. FlattenSeq(parts) \in Seq(new)
      BY <3>0, FlattenEntries
    <3>2. \A e : e \in ToSet(FlattenSeq(parts)) <=> \E q \in ToSet(x) : e \in ToSet(r[q])
      BY <1>4, <2>1, FlattenMap, ZenonT(60)
    <3> QED
      BY <3>1, <3>2
  <2> QED
    BY <2>2 DEF x
<1>8. ToSet(FlattenSeq(parts)) = new
  BY <1>1, <1>5, <1>7
<1> QED
  BY <1>3, <1>7, <1>8 DEF new

\* A line of git status gives a list, and reading one gives a list.
LEMMA ShortLists ==
    /\ \A s, q, S : ToSet(StatusLine(s, q)) \subseteq S => StatusLine(s, q) \in Seq(S)
    /\ \A s, q, S : ToSet(NameLine(s, q)) \subseteq S => NameLine(s, q) \in Seq(S)
    /\ \A line, S : ToSet(ReadStatus(line)) \subseteq S => ReadStatus(line) \in Seq(S)
    /\ \A line, S : ToSet(ReadNameStatus(line)) \subseteq S => ReadNameStatus(line) \in Seq(S)
<1>1. /\ \A S : <<>> \in Seq(S)
      /\ \A x, S : ToSet(<<x>>) \subseteq S => <<x>> \in Seq(S)
      /\ \A x, y, S : ToSet(<<x, y>>) \subseteq S => <<x, y>> \in Seq(S)
  <2>1. \A S : <<>> \in Seq(S)
    BY EmptySeq
  <2>2. \A x, S : ToSet(<<x>>) \subseteq S => <<x>> \in Seq(S)
    BY FewEntries
  <2>3. \A x, y, S : ToSet(<<x, y>>) \subseteq S => <<x, y>> \in Seq(S)
    <3> TAKE x, y, S
    <3> HAVE ToSet(<<x, y>>) \subseteq S
    <3>1. x \in S /\ y \in S
      BY FewEntries
    <3> QED
      BY <3>1
  <2> QED
    BY <2>1, <2>2, <2>3
<1>2. \A s, q : StatusLine(s, q) = <<>> \/ \E x : StatusLine(s, q) = <<x>>
  <2> TAKE s, q
  <2> DEFINE staged == Letter(s.head[q], s.index[q])
             edited == IF s.index[q] = Away THEN " " ELSE Letter(s.index[q], s.work[q])
             from == OldNames(Renames(s, s.index), q)
             moved == \E r \in Renames(s, s.index) : r[1] = q
             one(code, old) == <<[code |-> code, from |-> old, path |-> q]>>
  <2>1. \/ StatusLine(s, q) = <<>>
        \/ StatusLine(s, q) = one(s.clash[q], NoPath)
        \/ StatusLine(s, q) = one(<<"R", edited>>, CHOOSE f \in from : TRUE)
        \/ StatusLine(s, q) = one(<<staged, edited>>, NoPath)
    <3>1. StatusLine(s, q) =
            IF q \in DOMAIN s.clash THEN one(s.clash[q], NoPath)
            ELSE IF from # {} THEN one(<<"R", edited>>, CHOOSE f \in from : TRUE)
            ELSE IF moved \/ <<staged, edited>> = <<" ", " ">> THEN <<>>
            ELSE one(<<staged, edited>>, NoPath)
      BY DEF StatusLine
    <3> HIDE DEF staged, edited, from, moved, one
    <3> QED
      BY <3>1
  <2>2. \A code, old : \E x : one(code, old) = <<x>>
    OBVIOUS
  <2> HIDE DEF staged, edited, from, moved, one
  <2> QED
    BY <2>1, <2>2
<1>3. \A s, q : NameLine(s, q) = <<>> \/ \E x : NameLine(s, q) = <<x>>
  BY DEF NameLine
<1>4. \A line : \/ \E x : ReadStatus(line) = <<x>>
                \/ \E x, y : ReadStatus(line) = <<x, y>>
  BY DEF ReadStatus
<1>5. \A line : \/ \E x : ReadNameStatus(line) = <<x>>
                \/ \E x, y : ReadNameStatus(line) = <<x, y>>
  BY DEF ReadNameStatus
<1>6. \A s, q, S : ToSet(StatusLine(s, q)) \subseteq S => StatusLine(s, q) \in Seq(S)
  BY <1>1, <1>2
<1>7. \A s, q, S : ToSet(NameLine(s, q)) \subseteq S => NameLine(s, q) \in Seq(S)
  BY <1>1, <1>3
<1>8. \A line, S : ToSet(ReadStatus(line)) \subseteq S => ReadStatus(line) \in Seq(S)
  BY <1>1, <1>4
<1>9. \A line, S : ToSet(ReadNameStatus(line)) \subseteq S => ReadNameStatus(line) \in Seq(S)
  BY <1>1, <1>5
<1> QED
  BY <1>6, <1>8, <1>9, <1>7

\* The changes of a call without --since: those of the lines of git status about what is in the
\* commit or the index, then the untracked files.
LEMMA StatusChanges ==
    ASSUME NEW s
    PROVE  InTwo(GitChanges(s, FALSE), StatusTold(s), Newly(s))
<1> DEFINE plain(q) == [code |-> <<"?", "?">>, from |-> NoPath, path |-> q]
           new == {plain(q) : q \in {q \in Path : Untracked(s, q)}}
           known == UNION {ToSet(StatusLine(s, q)) : q \in Path}
           L == known \cup new
           T == UNION {ToSet(ReadStatus(line)) : line \in L}
           line == [q \in Path |-> StatusLine(s, q)]
           r == [l \in L |-> ReadStatus(l)]
           lines == [i \in DOMAIN Ordered |-> StatusLine(s, Ordered[i])]
           x == FlattenSeq(lines)
           y == UntrackedLines(s)
           first == [i \in DOMAIN x |-> ReadStatus(x[i])]
           second == [i \in DOMAIN y |-> ReadStatus(y[i])]
           both == [i \in DOMAIN (x \o y) |-> ReadStatus((x \o y)[i])]
<1>1. Ordered \in Seq(Path) /\ ToSet(Ordered) = Path
  BY GitPlanAssumption, ListsTheSet DEF Ordered
<1>2. GitChanges(s, FALSE) = FlattenSeq(both)
  BY DEF GitChanges, Porcelain
<1>3. y \in Seq(L) /\ ToSet(y) = new
  <2>1. y \in Seq(new) /\ ToSet(y) = new
    BY UntrackedAre
  <2>2. new \subseteq L
    OBVIOUS
  <2> HIDE DEF new, L, y
  <2> QED
    BY <2>1, <2>2, SeqMonotonic
<1>4. line \in [Path -> Seq(L)]
  <2>1. \A q \in Path : ToSet(StatusLine(s, q)) \subseteq L
    OBVIOUS
  <2> HIDE DEF L
  <2> QED
    BY <2>1, ShortLists
<1>5. r \in [L -> Seq(T)]
  <2>1. \A l \in L : ToSet(ReadStatus(l)) \subseteq T
    OBVIOUS
  <2> HIDE DEF L, T
  <2> QED
    BY <2>1, ShortLists
<1>6. /\ \A q \in Path : line[q] = StatusLine(s, q)
      /\ \A l \in L : r[l] = ReadStatus(l)
  OBVIOUS
<1>7. lines \in [DOMAIN Ordered -> Seq(L)] /\ \A i \in DOMAIN Ordered : lines[i] = line[Ordered[i]]
  <2>1. \A i \in DOMAIN Ordered : Ordered[i] \in Path
    BY <1>1 DEF ToSet
  <2> HIDE DEF line, L
  <2> QED
    BY <1>4, <1>6, <2>1
<1>8. \A l : l \in known <=> \E q \in Path : l \in ToSet(line[q])
  BY <1>6
<1>9. known \subseteq L
  OBVIOUS
<1>10. x \in Seq(L) /\ \A l : l \in ToSet(x) <=> l \in known
  <2> DEFINE o == Ordered
  <2>1. o \in Seq(Path) /\ lines \in [DOMAIN o -> Seq(L)] /\ \A i \in DOMAIN o : lines[i] = line[o[i]]
    BY <1>1, <1>7
  <2> HIDE DEF o, line, L, lines, known
  <2>2. lines \in Seq(Seq(L))
    BY <1>4, <2>1, FlattenMap
  <2>3. FlattenSeq(lines) \in Seq(L)
    BY <2>2, FlattenEntries
  <2>4. \A l : l \in ToSet(FlattenSeq(lines)) <=> \E q \in ToSet(o) : l \in ToSet(line[q])
    BY <1>4, <2>1, FlattenMap, ZenonT(60)
  <2> QED
    BY <1>1, <1>8, <2>3, <2>4 DEF o
<1> HIDE DEF x, y, lines, line
<1>11. \A z \in Seq(L) : \A i \in DOMAIN z : z[i] \in L
  <2> HIDE DEF L
  <2> QED
    BY ElementOfSeq, LenProperties
<1>12. x \o y \in Seq(L)
  BY <1>3, <1>10, ConcatProperties
<1>13. /\ first \in [DOMAIN x -> Seq(T)] /\ \A i \in DOMAIN x : first[i] = r[x[i]]
       /\ second \in [DOMAIN y -> Seq(T)] /\ \A i \in DOMAIN y : second[i] = r[y[i]]
       /\ both \in [DOMAIN (x \o y) -> Seq(T)] /\ \A i \in DOMAIN (x \o y) : both[i] = r[(x \o y)[i]]
  <2>1. \A z \in Seq(L) : \A f : f = [i \in DOMAIN z |-> ReadStatus(z[i])] =>
          f \in [DOMAIN z -> Seq(T)] /\ \A i \in DOMAIN z : f[i] = r[z[i]]
    <3> HIDE DEF L, T, r
    <3> QED
      BY <1>5, <1>6, <1>11
  <2> DEFINE z == x \o y
  <2>2. z \in Seq(L) /\ x \in Seq(L) /\ y \in Seq(L)
    BY <1>3, <1>10, <1>12
  <2> HIDE DEF L, T, r, z
  <2>3. both = [i \in DOMAIN z |-> ReadStatus(z[i])]
    BY DEF z
  <2>4. both \in [DOMAIN z -> Seq(T)] /\ \A i \in DOMAIN z : both[i] = r[z[i]]
    BY <2>1, <2>2, <2>3
  <2>5. first \in [DOMAIN x -> Seq(T)] /\ \A i \in DOMAIN x : first[i] = r[x[i]]
    BY <2>1, <2>2, ZenonT(60)
  <2>6. second \in [DOMAIN y -> Seq(T)] /\ \A i \in DOMAIN y : second[i] = r[y[i]]
    BY <2>1, <2>2, ZenonT(60)
  <2> QED
    BY <2>4, <2>5, <2>6 DEF z
<1> DEFINE a == FlattenSeq(first)
           b == FlattenSeq(second)
<1>14. FlattenSeq(both) = a \o b
  <2>0. /\ x \in Seq(L) /\ y \in Seq(L) /\ r \in [L -> Seq(T)]
        /\ first \in [DOMAIN x -> Seq(T)] /\ \A i \in DOMAIN x : first[i] = r[x[i]]
        /\ second \in [DOMAIN y -> Seq(T)] /\ \A i \in DOMAIN y : second[i] = r[y[i]]
    BY <1>3, <1>5, <1>10, <1>13
  <2> HIDE DEF L, T, r, first, second, both
  <2> DEFINE n == Len(x)
             m == Len(y)
  <2>1. /\ n \in Nat /\ m \in Nat /\ n + m \in Nat
        /\ DOMAIN x = 1 .. n /\ DOMAIN y = 1 .. m
    BY <2>0, LenProperties
  <2>2. /\ DOMAIN (x \o y) = 1 .. n + m /\ Len(x \o y) = n + m
        /\ \A i \in 1 .. n + m : (x \o y)[i] = IF i =< n THEN x[i] ELSE y[i - n]
    BY <1>12, <2>0, ConcatProperties, LenProperties
  <2>3. /\ first \in Seq(Seq(T)) /\ Len(first) = n
        /\ second \in Seq(Seq(T)) /\ Len(second) = m
    BY <2>0, FlattenMap
  <2>4. both \in Seq(Seq(T)) /\ Len(both) = n + m
    <3> DEFINE z == x \o y
    <3>1. z \in Seq(L) /\ both \in [DOMAIN z -> Seq(T)] /\ \A i \in DOMAIN z : both[i] = r[z[i]]
      BY <1>12, <1>13
    <3> HIDE DEF z
    <3>2. both \in Seq(Seq(T)) /\ Len(both) = Len(z)
      BY <2>0, <3>1, FlattenMap
    <3> QED
      BY <2>2, <3>2 DEF z
  <2>5. /\ first \o second \in Seq(Seq(T)) /\ Len(first \o second) = n + m
        /\ \A i \in 1 .. n + m : (first \o second)[i] = IF i =< n THEN first[i] ELSE second[i - n]
    <3>1. /\ first \o second \in Seq(Seq(T)) /\ Len(first \o second) = Len(first) + Len(second)
          /\ \A i \in 1 .. Len(first) + Len(second) :
                (first \o second)[i] = IF i =< Len(first) THEN first[i] ELSE second[i - Len(first)]
      <4>1. first \in Seq(Seq(T)) /\ second \in Seq(Seq(T))
        BY <2>3
      <4> QED
        BY <4>1, ConcatProperties
    <3> QED
      BY <2>3, <3>1
  <2>6. \A i \in 1 .. n + m : both[i] = (first \o second)[i]
    <3> TAKE i \in 1 .. n + m
    <3>1. CASE i =< n
      <4>1. i \in 1 .. n
        BY <2>1, <3>1
      <4>2. first[i] = r[x[i]]
        BY <2>0, <2>1, <4>1
      <4>3. both[i] = r[x[i]]
        BY <1>13, <2>2, <3>1
      <4> QED
        BY <2>5, <3>1, <4>2, <4>3
    <3>2. CASE ~(i =< n)
      <4>1. i - n \in 1 .. m
        BY <2>1, <3>2
      <4>2. second[i - n] = r[y[i - n]]
        BY <2>0, <2>1, <4>1
      <4>3. both[i] = r[y[i - n]]
        BY <1>13, <2>2, <3>2
      <4> QED
        BY <2>5, <3>2, <4>2, <4>3
    <3> QED
      BY <3>1, <3>2
  <2>7. both = first \o second
    <3> HIDE DEF n, m
    <3> QED
      BY <2>4, <2>5, <2>6, SeqEqual
  <2>8. FlattenSeq(first \o second) = FlattenSeq(first) \o FlattenSeq(second)
    BY <2>3, FlattenBoth
  <2> QED
    BY <2>7, <2>8
<1>15. /\ a \in Seq(T)
       /\ \A c : c \in ToSet(a) <=> \E l \in ToSet(x) : c \in ToSet(r[l])
  <2> HIDE DEF L, T, r, first
  <2>1. first \in Seq(Seq(T))
    BY <1>5, <1>10, <1>13, FlattenMap
  <2>2. FlattenSeq(first) \in Seq(T)
    BY <2>1, FlattenEntries
  <2>3. \A c : c \in ToSet(FlattenSeq(first)) <=> \E l \in ToSet(x) : c \in ToSet(r[l])
    <3>1. first \in [DOMAIN x -> Seq(T)] /\ \A i \in DOMAIN x : first[i] = r[x[i]]
      BY <1>13
    <3>2. x \in Seq(L)
      BY <1>10
    <3> QED
      BY <1>5, <3>1, <3>2, FlattenMap, ZenonT(60)
  <2> QED
    BY <2>2, <2>3
<1>16. /\ b \in Seq(T)
       /\ \A c : c \in ToSet(b) <=> \E l \in ToSet(y) : c \in ToSet(r[l])
  <2> HIDE DEF L, T, r, second
  <2>1. second \in Seq(Seq(T))
    BY <1>3, <1>5, <1>13, FlattenMap
  <2>2. FlattenSeq(second) \in Seq(T)
    BY <2>1, FlattenEntries
  <2>3. \A c : c \in ToSet(FlattenSeq(second)) <=> \E l \in ToSet(y) : c \in ToSet(r[l])
    <3>1. second \in [DOMAIN y -> Seq(T)] /\ \A i \in DOMAIN y : second[i] = r[y[i]]
      BY <1>13
    <3>2. y \in Seq(L)
      BY <1>3
    <3> QED
      BY <1>5, <3>1, <3>2, FlattenMap, ZenonT(60)
  <2> QED
    BY <2>2, <2>3
<1> HIDE DEF a, b, first, second, both, T
<1>17. ToSet(a) = StatusTold(s)
  <2>1. \A c : c \in ToSet(a) <=> \E l \in known : c \in ToSet(r[l])
    BY <1>10, <1>15
  <2>2. \A l \in known : r[l] = ReadStatus(l)
    BY <1>6, <1>9
  <2>3. StatusTold(s) = UNION {ToSet(ReadStatus(l)) : l \in known}
    BY DEF StatusTold
  <2> HIDE DEF known, r
  <2> QED
    BY <2>1, <2>2, <2>3
<1>18. ToSet(b) = Newly(s)
  <2>1. \A q : ToSet(ReadStatus(plain(q))) = {Change(q, FALSE)}
    <3>1. ToSet(<<"?", "?">>) = {"?", "?"}
      BY FewEntries
    <3>2. ("D" \in ToSet(<<"?", "?">>)) = FALSE
      BY <3>1
    <3> QED
      BY <3>2, FewEntries DEF ReadStatus
  <2>2. \A q \in Path : Untracked(s, q) => plain(q) \in L /\ r[plain(q)] = ReadStatus(plain(q))
    BY <1>6
  <2>3. \A l : l \in new <=> \E q \in Path : Untracked(s, q) /\ l = plain(q)
    OBVIOUS
  <2> HIDE DEF new, plain, r
  <2>4. \A c : c \in ToSet(b) <=> \E l \in new : c \in ToSet(r[l])
    BY <1>3, <1>16
  <2>5. \A q \in Path : Untracked(s, q) => ToSet(r[plain(q)]) = {Change(q, FALSE)}
    BY <2>1, <2>2
  <2> HIDE DEF L
  <2>6. ASSUME NEW c \in ToSet(b) PROVE \E q \in Path : Untracked(s, q) /\ c = Change(q, FALSE)
    <3>1. PICK l \in new : c \in ToSet(r[l])
      BY <2>4, <2>6
    <3>2. PICK q \in Path : Untracked(s, q) /\ l = plain(q)
      BY <2>3
    <3> QED
      BY <2>5, <3>1, <3>2
  <2>7. ASSUME NEW q \in Path, Untracked(s, q) PROVE Change(q, FALSE) \in ToSet(b)
    <3>1. plain(q) \in new /\ Change(q, FALSE) \in ToSet(r[plain(q)])
      BY <2>3, <2>5, <2>7
    <3> QED
      BY <2>4, <3>1
  <2> QED
    BY <2>6, <2>7 DEF Newly
<1> QED
  BY <1>2, <1>14, <1>15, <1>16, <1>17, <1>18 DEF InTwo

\* The changes of a call with --since: what git diff names, then the untracked files.
LEMMA NamesChanges ==
    ASSUME NEW s
    PROVE  InTwo(GitChanges(s, TRUE), NamesTold(s), Newly(s))
<1> DEFINE plain(q) == [code |-> <<"?", "?">>, from |-> NoPath, path |-> q]
           new == {plain(q) : q \in {q \in Path : Untracked(s, q)}}
           named == UNION {ToSet(NameLine(s, q)) : q \in Path}
           T == NamesTold(s) \cup Newly(s)
           line == [q \in Path |-> NameLine(s, q)]
           r == [l \in named |-> ReadNameStatus(l)]
           lines == [i \in DOMAIN Ordered |-> NameLine(s, Ordered[i])]
           x == FlattenSeq(lines)
           y == UntrackedLines(s)
           first == [i \in DOMAIN x |-> ReadNameStatus(x[i])]
           a == FlattenSeq(first)
           b == [i \in DOMAIN y |-> Change(y[i].path, FALSE)]
<1>1. Ordered \in Seq(Path) /\ ToSet(Ordered) = Path
  BY GitPlanAssumption, ListsTheSet DEF Ordered
<1>2. GitChanges(s, TRUE) = a \o b
  <2>1. NameStatus(s) = x
    BY DEF NameStatus
  <2> HIDE DEF x
  <2> QED
    BY <2>1 DEF GitChanges
<1>3. y \in Seq(new) /\ ToSet(y) = new
  BY UntrackedAre
<1>4. line \in [Path -> Seq(named)]
  <2>1. \A q \in Path : ToSet(NameLine(s, q)) \subseteq named
    OBVIOUS
  <2> HIDE DEF named
  <2> QED
    BY <2>1, ShortLists
<1>5. r \in [named -> Seq(T)]
  <2>1. \A l \in named : ToSet(ReadNameStatus(l)) \subseteq T
    BY DEF NamesTold
  <2> HIDE DEF named, T
  <2> QED
    BY <2>1, ShortLists
<1>6. \A l \in named : r[l] = ReadNameStatus(l)
  OBVIOUS
<1>7. lines \in [DOMAIN Ordered -> Seq(named)] /\ \A i \in DOMAIN Ordered : lines[i] = line[Ordered[i]]
  <2>1. \A i \in DOMAIN Ordered : Ordered[i] \in Path
    BY <1>1 DEF ToSet
  <2>2. \A q \in Path : line[q] = NameLine(s, q)
    OBVIOUS
  <2> HIDE DEF line, named
  <2> QED
    BY <1>4, <2>1, <2>2
<1>8. \A l : l \in named <=> \E q \in Path : l \in ToSet(line[q])
  OBVIOUS
<1>9. x \in Seq(named) /\ \A l : l \in ToSet(x) <=> l \in named
  <2> DEFINE o == Ordered
  <2>1. o \in Seq(Path) /\ lines \in [DOMAIN o -> Seq(named)] /\ \A i \in DOMAIN o : lines[i] = line[o[i]]
    BY <1>1, <1>7
  <2> HIDE DEF o, line, named, lines
  <2>2. lines \in Seq(Seq(named))
    BY <1>4, <2>1, FlattenMap
  <2>3. FlattenSeq(lines) \in Seq(named)
    BY <2>2, FlattenEntries
  <2>4. \A l : l \in ToSet(FlattenSeq(lines)) <=> \E q \in ToSet(o) : l \in ToSet(line[q])
    BY <1>4, <2>1, FlattenMap, ZenonT(60)
  <2> QED
    BY <1>1, <1>8, <2>3, <2>4 DEF o
<1> HIDE DEF x, y, lines, line
<1>10. first \in [DOMAIN x -> Seq(T)] /\ \A i \in DOMAIN x : first[i] = r[x[i]]
  <2>1. \A i \in DOMAIN x : x[i] \in named
    BY <1>9 DEF ToSet
  <2> HIDE DEF named, T, r
  <2> QED
    BY <1>5, <1>6, <2>1
<1>11. /\ a \in Seq(T)
       /\ \A c : c \in ToSet(a) <=> \E l \in ToSet(x) : c \in ToSet(r[l])
  <2> HIDE DEF named, T, r, first
  <2>1. x \in Seq(named) /\ first \in [DOMAIN x -> Seq(T)] /\ \A i \in DOMAIN x : first[i] = r[x[i]]
    BY <1>9, <1>10
  <2>2. first \in Seq(Seq(T))
    BY <1>5, <2>1, FlattenMap
  <2>3. FlattenSeq(first) \in Seq(T)
    BY <2>2, FlattenEntries
  <2>4. \A c : c \in ToSet(FlattenSeq(first)) <=> \E l \in ToSet(x) : c \in ToSet(r[l])
    BY <1>5, <2>1, FlattenMap, ZenonT(60)
  <2> QED
    BY <2>3, <2>4
<1> HIDE DEF a, first
<1>12. ToSet(a) = NamesTold(s)
  <2>1. \A c : c \in ToSet(a) <=> \E l \in named : c \in ToSet(ReadNameStatus(l))
    <3> HIDE DEF named, r
    <3> QED
      BY <1>6, <1>9, <1>11
  <2>2. \A c : c \in NamesTold(s) <=> \E l \in named : c \in ToSet(ReadNameStatus(l))
    BY DEF NamesTold
  <2> HIDE DEF named
  <2> QED
    BY <2>1, <2>2
<1>13. DOMAIN b = DOMAIN y /\ \A i \in DOMAIN y : b[i] = Change(y[i].path, FALSE)
  OBVIOUS
<1>14. DOMAIN y = 1 .. Len(y) /\ Len(y) \in Nat
  BY <1>3, LenProperties
<1>15. \A l : l \in new <=> \E q \in Path : Untracked(s, q) /\ l = plain(q)
  OBVIOUS
<1>16. \A q : plain(q).path = q
  OBVIOUS
<1>17. \A c : c \in Newly(s) <=> \E q \in Path : Untracked(s, q) /\ c = Change(q, FALSE)
  BY DEF Newly
<1>18. b = [i \in DOMAIN b |-> b[i]]
  OBVIOUS
<1> HIDE DEF b, new, plain
<1>19. \A i \in DOMAIN b : b[i] \in Newly(s)
  <2> TAKE i \in DOMAIN b
  <2>1. y[i] \in new
    BY <1>3, <1>13 DEF ToSet
  <2>2. PICK q \in Path : Untracked(s, q) /\ y[i] = plain(q)
    BY <1>15, <2>1
  <2>3. b[i] = Change(q, FALSE)
    BY <1>13, <1>16, <2>2
  <2> QED
    BY <1>17, <2>2, <2>3
<1>20. b \in Seq(T)
  <2>1. Newly(s) \subseteq T
    OBVIOUS
  <2> HIDE DEF T
  <2>2. b \in [1 .. Len(y) -> T]
    BY <1>13, <1>14, <1>18, <1>19, <2>1
  <2> QED
    BY <1>14, <2>2
<1>21. ToSet(b) = Newly(s)
  <2>1. ASSUME NEW q \in Path, Untracked(s, q)
        PROVE  Change(q, FALSE) \in ToSet(b)
    <3>1. plain(q) \in ToSet(y)
      BY <1>3, <1>15, <2>1
    <3>2. PICK i \in DOMAIN y : y[i] = plain(q)
      BY <3>1 DEF ToSet
    <3>3. b[i] = Change(q, FALSE) /\ i \in DOMAIN b
      BY <1>13, <1>16, <3>2
    <3> QED
      BY <3>3 DEF ToSet
  <2>2. \A c \in ToSet(b) : c \in Newly(s)
    BY <1>19 DEF ToSet
  <2> QED
    BY <1>17, <2>1, <2>2
<1> HIDE DEF T
<1> QED
  BY <1>2, <1>11, <1>12, <1>20, <1>21 DEF InTwo

\* Whatever was staged, unstaged, renamed, ignored or taken out of the index, with and without
\* --since, the changes end with a deletion of a path exactly if git no longer sees it: it is
\* gone, or it left the index and is ignored.  They know every path that git sees differ from
\* the commit.  Conflicts are left out, and, without --since, a file renamed in the index and
\* then deleted.
THEOREM PlanMatchesTree == AnswersSpec => []PlanFitsTree
<1>1. Asked => PlanFitsTree
  <2> SUFFICES ASSUME Asked, kind = "git", NEW since \in BOOLEAN, NEW p \in Path,
                      p \notin DOMAIN input.clash,
                      ~(~since /\ input.work[p] = Away /\ OldNames(Renames(input, input.index), p) # {})
               PROVE  LET changes == GitChanges(input, since)
                      IN  IF \E i \in DOMAIN changes : changes[i].path = p
                          THEN LastWord(changes, p) = (Sight(input, p) = Away)
                          ELSE Sight(input, p) = input.head[p]
    BY DEF PlanFitsTree
  <2> DEFINE s == input
             gone == Sight(s, p) = Away
             told == IF since THEN NamesTold(s) ELSE StatusTold(s)
             changes == GitChanges(s, since)
  <2>1. Paired(s)
    BY AnswersAssumption DEF Asked
  <2>2. InTwo(changes, told, Newly(s))
    <3>1. CASE since = TRUE
      BY <3>1, NamesChanges
    <3>2. CASE since = FALSE
      BY <3>2, StatusChanges
    <3> QED
      BY <3>1, <3>2
  <2>3. ~Untracked(s, p) => /\ \A c \in told : c.path = p => c.deleted = gone
                            /\ (~\E c \in told : c.path = p) => Sight(s, p) = s.head[p]
    <3>1. CASE since = TRUE
      BY <2>1, <3>1, NamesFit
    <3>2. CASE since = FALSE
      BY <2>1, <3>2, StatusFits
    <3> QED
      BY <3>1, <3>2
  <2> HIDE DEF told, changes
  <2>4. PICK T : \E a, b \in Seq(T) : changes = a \o b /\ ToSet(a) = told /\ ToSet(b) = Newly(s)
    BY <2>2 DEF InTwo
  <2>5. PICK a \in Seq(T), b \in Seq(T) : changes = a \o b /\ ToSet(a) = told /\ ToSet(b) = Newly(s)
    BY <2>4
  <2>6. Untracked(s, p) => gone = FALSE
    BY DEF Untracked, Sight
  <2>7. \A c \in Newly(s) : c.path = p => Untracked(s, p) /\ c.deleted = FALSE
    BY DEF Newly, Change
  <2>8. Untracked(s, p) => \E c \in Newly(s) : c.path = p
    <3> SUFFICES ASSUME Untracked(s, p) PROVE \E c \in Newly(s) : c.path = p
      OBVIOUS
    <3>1. Change(p, FALSE) \in Newly(s)
      BY DEF Newly
    <3>2. Change(p, FALSE).path = p
      BY DEF Change
    <3> QED
      BY <3>1, <3>2
  <2> HIDE DEF gone
  <2>9. \A c \in ToSet(b) : c.path = p => c.deleted = gone
    BY <2>5, <2>6, <2>7
  <2>10. \/ \E c \in ToSet(b) : c.path = p
         \/ \A c \in ToSet(a) : c.path = p => c.deleted = gone
    BY <2>3, <2>5, <2>8
  <2>11. ASSUME \E i \in DOMAIN changes : changes[i].path = p
         PROVE  LastWord(changes, p) = gone
    <3>1. \E c \in ToSet(a) \cup ToSet(b) : c.path = p
      <4>1. \E c \in ToSet(changes) : c.path = p
        BY <2>11 DEF ToSet
      <4> QED
        BY <2>5, <4>1, EntriesOfBoth
    <3>2. CASE \E c \in ToSet(b) : c.path = p
      <4>1. \E c \in ToSet(b) : c.path = p /\ LastWord(a \o b, p) = c.deleted
        BY <3>2, LastSaid
      <4> QED
        BY <2>5, <2>9, <4>1
    <3>3. CASE ~(\E c \in ToSet(b) : c.path = p)
      <4>1. \E c \in ToSet(a) : c.path = p
        BY <3>1, <3>3
      <4>2. \E c \in ToSet(a) : c.path = p /\ LastWord(a \o b, p) = c.deleted
        BY <3>3, <4>1, LastSaid
      <4> QED
        BY <2>5, <2>10, <3>3, <4>2
    <3> QED
      BY <3>2, <3>3
  <2>12. ASSUME ~\E i \in DOMAIN changes : changes[i].path = p
         PROVE  Sight(s, p) = s.head[p]
    <3>1. ~\E c \in ToSet(changes) : c.path = p
      BY <2>12 DEF ToSet
    <3>2. ToSet(changes) = ToSet(a) \cup ToSet(b)
      BY <2>5, EntriesOfBoth
    <3>3. ~(\E c \in told : c.path = p) /\ ~Untracked(s, p)
      BY <2>5, <2>8, <3>1, <3>2
    <3> QED
      BY <2>3, <3>3
  <2> QED
    BY <2>11, <2>12 DEF gone, changes
<1> QED
  BY <1>1, StaysAsked, PTL

-----------------------------------------------------------------------------
\* The block of an AGENTS.md

\* The state of the parser.
At(done, fence, block) == [done |-> done, fence |-> fence, block |-> block]

\* The fence that a line opens.
FenceOf(line) == [mark |-> line.mark, len |-> line.len, info |-> line.info]

\* A block that has been opened.
Block(tools, disable, bad) == [found |-> TRUE, tools |-> tools, disable |-> disable, badKey |-> bad]

\* After the block nothing is read any more.
LEMMA AfterBlock ==
    \A line, fence, block : ScanLine(At(TRUE, fence, block), line) = At(TRUE, fence, block)
BY DEF ScanLine, At

\* In the block a line is read, or ends it.
LEMMA InBlock ==
    \A line, fence, block : (fence # NoFence /\ fence.info = "agent-tools") =>
        /\ Closes(line, fence) => ScanLine(At(FALSE, fence, block), line) = At(TRUE, fence, block)
        /\ ~Closes(line, fence) =>
             ScanLine(At(FALSE, fence, block), line) = At(FALSE, fence, ReadLine(block, line))
<1> TAKE line, fence, block
<1> HAVE fence # NoFence /\ fence.info = "agent-tools"
<1>1. ASSUME Closes(line, fence)
      PROVE  ScanLine(At(FALSE, fence, block), line) = At(TRUE, fence, block)
  BY <1>1 DEF ScanLine, At
<1>2. ASSUME ~Closes(line, fence)
      PROVE  ScanLine(At(FALSE, fence, block), line) = At(FALSE, fence, ReadLine(block, line))
  BY <1>2 DEF ScanLine, At
<1> QED
  BY <1>1, <1>2

\* In another fence a line can only end that.
LEMMA InOther ==
    \A line, fence, block : (fence # NoFence /\ fence.info # "agent-tools") =>
        /\ Closes(line, fence) => ScanLine(At(FALSE, fence, block), line) = At(FALSE, NoFence, block)
        /\ ~Closes(line, fence) => ScanLine(At(FALSE, fence, block), line) = At(FALSE, fence, block)
<1> TAKE line, fence, block
<1> HAVE fence # NoFence /\ fence.info # "agent-tools"
<1>1. ASSUME Closes(line, fence)
      PROVE  ScanLine(At(FALSE, fence, block), line) = At(FALSE, NoFence, block)
  BY <1>1 DEF ScanLine, At
<1>2. ASSUME ~Closes(line, fence)
      PROVE  ScanLine(At(FALSE, fence, block), line) = At(FALSE, fence, block)
  BY <1>2 DEF ScanLine, At
<1> QED
  BY <1>1, <1>2

\* Outside of fences a line can only open one.
LEMMA InNone ==
    \A line :
        /\ line.kind # "fence" =>
             ScanLine(At(FALSE, NoFence, NoBlock), line) = At(FALSE, NoFence, NoBlock)
        /\ (line.kind = "fence" /\ line.info # "agent-tools") =>
             ScanLine(At(FALSE, NoFence, NoBlock), line) = At(FALSE, FenceOf(line), NoBlock)
        /\ (line.kind = "fence" /\ line.info = "agent-tools") =>
             ScanLine(At(FALSE, NoFence, NoBlock), line) = At(FALSE, FenceOf(line), Block(Unset, Unset, FALSE))
<1> TAKE line
<1>1. ASSUME line.kind # "fence"
      PROVE  ScanLine(At(FALSE, NoFence, NoBlock), line) = At(FALSE, NoFence, NoBlock)
  BY <1>1 DEF ScanLine, At
<1>2. ASSUME line.kind = "fence", line.info # "agent-tools"
      PROVE  ScanLine(At(FALSE, NoFence, NoBlock), line) = At(FALSE, FenceOf(line), NoBlock)
  BY <1>2 DEF ScanLine, At, FenceOf, NoBlock
<1>3. ASSUME line.kind = "fence", line.info = "agent-tools"
      PROVE  ScanLine(At(FALSE, NoFence, NoBlock), line) = At(FALSE, FenceOf(line), Block(Unset, Unset, FALSE))
  BY <1>3 DEF ScanLine, At, FenceOf, NoBlock, Block
<1> QED
  BY <1>1, <1>2, <1>3

\* What a line adds to the block.
LEMMA BlockSteps ==
    ASSUME NEW line, NEW tools, NEW disable, NEW bad
    PROVE  \E b : ReadLine(Block(tools, disable, bad), line) =
             Block(IF line.kind = "names" /\ line.key = "tools" THEN Joined(tools, line.names) ELSE tools,
                   IF line.kind = "names" /\ line.key = "disable" THEN Joined(disable, line.names) ELSE disable,
                   b)
<1>1. CASE line.kind # "names"
  BY <1>1 DEF ReadLine
<1>2. CASE line.kind = "names" /\ line.key = "tools"
  BY <1>2 DEF ReadLine, Block
<1>3. CASE line.kind = "names" /\ line.key = "disable"
  BY <1>3 DEF ReadLine, Block
<1>4. CASE line.kind = "names" /\ line.key \notin {"tools", "disable"}
  <2>1. ReadLine(Block(tools, disable, bad), line) = Block(tools, disable, TRUE)
    BY <1>4 DEF ReadLine, Block
  <2> QED
    BY <1>4, <2>1
<1> QED
  BY <1>1, <1>2, <1>3, <1>4

\* The functions that the parser's loop can be.
Scans(lines, n, f) ==
    f = [i \in 0 .. n |-> IF i = 0 THEN At(FALSE, NoFence, NoBlock) ELSE ScanLine(f[i - 1], lines[i])]

\* There is one for any number of lines.
LEMMA ScansExists == \A lines : \A n \in Nat : \E f : Scans(lines, n, f)
<1> SUFFICES ASSUME NEW lines PROVE \A n \in Nat : \E f : Scans(lines, n, f)
  OBVIOUS
<1> DEFINE bad == {n \in Nat : ~\E f : Scans(lines, n, f)}
<1>1. ASSUME NEW n \in bad PROVE \E m \in bad : m < n
  <2>1. CASE n = 0
    <3>1. Scans(lines, 0, [i \in 0 .. 0 |-> At(FALSE, NoFence, NoBlock)])
      BY DEF Scans
    <3> QED
      BY <1>1, <2>1, <3>1
  <2>2. CASE n # 0
    <3> SUFFICES ASSUME n - 1 \notin bad PROVE FALSE
      BY <1>1, <2>2
    <3>0. n \in Nat /\ n - 1 \in Nat
      BY <1>1, <2>2
    <3>1. PICK g : Scans(lines, n - 1, g)
      BY <3>0
    <3> DEFINE f == [i \in 0 .. n |-> IF i < n THEN g[i] ELSE ScanLine(g[n - 1], lines[n])]
    <3>2. \A i \in 0 .. n : f[i] = IF i = 0 THEN At(FALSE, NoFence, NoBlock) ELSE ScanLine(f[i - 1], lines[i])
      <4> TAKE i \in 0 .. n
      <4>1. CASE i < n
        <5>1. i \in 0 .. n - 1 /\ f[i] = g[i]
          BY <3>0, <4>1
        <5>2. i # 0 => f[i - 1] = g[i - 1]
          BY <3>0, <4>1
        <5>3. g[i] = IF i = 0 THEN At(FALSE, NoFence, NoBlock) ELSE ScanLine(g[i - 1], lines[i])
          BY <3>1, <5>1 DEF Scans
        <5> QED
          BY <5>1, <5>2, <5>3
      <4>2. CASE i = n
        <5>1. f[n] = ScanLine(g[n - 1], lines[n]) /\ f[n - 1] = g[n - 1]
          BY <2>2, <3>0
        <5> QED
          BY <2>2, <4>2, <5>1
      <4>3. i < n \/ i = n
        BY <3>0
      <4> HIDE DEF f
      <4> QED
        BY <4>1, <4>2, <4>3
    <3>3. Scans(lines, n, f)
      <4>1. f = [i \in 0 .. n |-> f[i]]
        OBVIOUS
      <4> HIDE DEF f
      <4> QED
        BY <3>2, <4>1 DEF Scans
    <3> QED
      BY <1>1, <3>3
  <2> QED
    BY <2>1, <2>2
<1>2. bad = {}
  <2> HIDE DEF bad
  <2>1. bad \in SUBSET Nat
    BY DEF bad
  <2> QED
    BY <1>1, <2>1, NoLeastFailure
<1> QED
  BY <1>2

\* What Parse answers is what the loop has after the last line.
LEMMA ParseScans ==
    ASSUME NEW lines, Len(lines) \in Nat
    PROVE  \E f : Scans(lines, Len(lines), f) /\ Parse(lines) = f[Len(lines)].block
<1> DEFINE f == CHOOSE f : f = [i \in 0 .. Len(lines) |->
                                  IF i = 0 THEN [done |-> FALSE, fence |-> NoFence, block |-> NoBlock]
                                  ELSE ScanLine(f[i - 1], lines[i])]
<1>1. Parse(lines) = f[Len(lines)].block
  BY DEF Parse
<1>2. \E h : h = [i \in 0 .. Len(lines) |->
                    IF i = 0 THEN [done |-> FALSE, fence |-> NoFence, block |-> NoBlock]
                    ELSE ScanLine(h[i - 1], lines[i])]
  BY ScansExists DEF Scans, At
<1>3. Scans(lines, Len(lines), f)
  BY <1>2 DEF Scans, At
<1> HIDE DEF f
<1> QED
  BY <1>1, <1>3

\* The end of a fence is behind it, and nothing between the two closes it.
LEMMA Ends ==
    ASSUME NEW lines, Len(lines) \in Nat, NEW i \in 1 .. Len(lines)
    PROVE  /\ EndOf(lines, i) \in i + 1 .. Len(lines) + 1
           /\ EndOf(lines, i) =< Len(lines) => Closes(lines[EndOf(lines, i)], lines[i])
           /\ \A j \in i + 1 .. Len(lines) : j < EndOf(lines, i) => ~Closes(lines[j], lines[i])
<1> DEFINE n == Len(lines)
           closers == {j \in i + 1 .. n : Closes(lines[j], lines[i])}
<1>1. n \in Nat /\ i \in 1 .. n
  OBVIOUS
<1>2. EndOf(lines, i) = IF closers = {} THEN n + 1 ELSE CHOOSE j \in closers : \A k \in closers : j =< k
  BY DEF EndOf
<1>3. \A j : j \in closers <=> j \in i + 1 .. n /\ Closes(lines[j], lines[i])
  OBVIOUS
<1> HIDE DEF n, closers
<1>4. CASE closers = {}
  <2>1. EndOf(lines, i) = n + 1
    BY <1>2, <1>4
  <2> QED
    BY <1>1, <1>3, <1>4, <2>1 DEF n
<1>5. CASE closers # {}
  <2>1. closers \in SUBSET Nat
    BY <1>1, <1>3
  <2>2. \E j \in closers : \A k \in closers : j =< k
    BY <1>5, <2>1, Least
  <2>3. EndOf(lines, i) \in closers /\ \A k \in closers : EndOf(lines, i) =< k
    BY <1>2, <1>5, <2>2
  <2>4. \A j \in i + 1 .. n : j < EndOf(lines, i) => j \notin closers
    BY <1>1, <1>3, <2>3
  <2> QED
    BY <1>1, <1>3, <2>3, <2>4 DEF n
<1> QED
  BY <1>4, <1>5

\* Which lines open a fence is settled.
LEMMA OpeningsExist ==
    ASSUME NEW lines, Len(lines) \in Nat
    PROVE  Openings(lines) \in SUBSET (1 .. Len(lines)) /\ AreOpenings(lines, Openings(lines))
<1> DEFINE opens(i, S) == lines[i].kind = "fence" /\ \A j \in S : j < i => EndOf(lines, j) < i
           upto(m, S) == S \in SUBSET (1 .. m) /\ \A i \in 1 .. m : i \in S <=> opens(i, S)
           bad == {m \in Nat : ~\E S : upto(m, S)}
<1>1. ASSUME NEW m \in bad PROVE \E k \in bad : k < m
  <2>1. CASE m = 0
    <3>1. upto(0, {})
      OBVIOUS
    <3> HIDE DEF upto
    <3> QED
      BY <1>1, <2>1, <3>1
  <2>2. CASE m # 0
    <3> SUFFICES ASSUME m - 1 \notin bad PROVE FALSE
      BY <1>1, <2>2
    <3>1. m \in Nat /\ m - 1 \in Nat
      BY <1>1, <2>2
    <3>2. PICK R : upto(m - 1, R)
      <4> HIDE DEF upto
      <4> QED
        BY <3>1
    <3> DEFINE S == IF opens(m, R) THEN R \cup {m} ELSE R
    <3>3. R \in SUBSET (1 .. m - 1) /\ \A i \in 1 .. m - 1 : i \in R <=> opens(i, R)
      BY <3>2
    <3>4. \A j : j \in S <=> j \in R \/ (j = m /\ opens(m, R))
      <4> HIDE DEF opens
      <4> QED
        OBVIOUS
    <3>5. \A j \in R : j \in 1 .. m - 1 /\ j # m
      BY <3>1, <3>3
    <3> HIDE DEF S
    <3>6. \A i \in 1 .. m : \A j : (j \in S /\ j < i) <=> (j \in R /\ j < i)
      BY <3>1, <3>4, <3>5
    <3>7. \A i \in 1 .. m : opens(i, S) <=> opens(i, R)
      BY <3>6
    <3> HIDE DEF opens
    <3>8. \A i \in 1 .. m : i \in S <=> opens(i, S)
      BY <3>1, <3>3, <3>4, <3>5, <3>7
    <3>9. S \in SUBSET (1 .. m)
      BY <3>1, <3>4, <3>5
    <3> QED
      BY <1>1, <3>8, <3>9
  <2> QED
    BY <2>1, <2>2
<1>2. bad = {}
  <2> HIDE DEF bad
  <2>1. bad \in SUBSET Nat
    BY DEF bad
  <2> QED
    BY <1>1, <2>1, NoLeastFailure
<1>3. PICK S : upto(Len(lines), S)
  <2> HIDE DEF upto
  <2> QED
    BY <1>2
<1>4. S \in SUBSET (1 .. Len(lines)) /\ AreOpenings(lines, S)
  BY <1>3 DEF AreOpenings
<1> QED
  BY <1>4 DEF Openings

\* One line more adds its names.
LEMMA NamesGrow ==
    ASSUME NEW lines, Len(lines) \in Nat, \A i \in 1 .. Len(lines) : Line(lines[i]),
           NEW k \in 1 .. Len(lines), NEW i \in k + 1 .. Len(lines), NEW key
    PROVE  LET before == AllNames(lines, key, k + 1 .. i - 1)
           IN  AllNames(lines, key, k + 1 .. i) =
                 IF lines[i].kind = "names" /\ lines[i].key = key THEN Joined(before, lines[i].names) ELSE before
<1> DEFINE said(to) == {j \in k + 1 .. to : lines[j].kind = "names" /\ lines[j].key = key}
           names(to) == UNION {lines[j].names : j \in said(to)}
           new == lines[i].kind = "names" /\ lines[i].key = key
<1>1. \A to : AllNames(lines, key, k + 1 .. to) = IF said(to) = {} THEN Unset ELSE names(to)
  BY DEF AllNames
<1>2. said(i) = IF new THEN said(i - 1) \cup {i} ELSE said(i - 1)
  <2>1. k + 1 .. i = (k + 1 .. i - 1) \cup {i}
    OBVIOUS
  <2> QED
    BY <2>1
<1>3. said(i - 1) # {} => names(i - 1) # Unset
  <2>1. \A j \in said(i - 1) : lines[j].names \in SUBSET Word
    <3> TAKE j \in said(i - 1)
    <3>1. j \in 1 .. Len(lines) /\ lines[j].kind = "names"
      OBVIOUS
    <3> QED
      BY <3>1 DEF Line
  <2>2. names(i - 1) \in SUBSET Word
    BY <2>1
  <2> HIDE DEF names
  <2> QED
    BY <2>2, ToolGroupsAssumption
<1>4. new => names(i) = names(i - 1) \cup lines[i].names
  <2> HIDE DEF said, new
  <2> QED
    BY <1>2
<1>5. (new /\ said(i - 1) = {}) => names(i) = lines[i].names
  <2> HIDE DEF said, new
  <2> QED
    BY <1>2
<1>6. i \in said(i) <=> new
  OBVIOUS
<1> HIDE DEF said, names, new
<1> QED
  <2>1. CASE new
    BY <1>1, <1>2, <1>3, <1>4, <1>5, <2>1 DEF Joined, new
  <2>2. CASE ~new
    <3>1. said(i) = said(i - 1) /\ names(i) = names(i - 1)
      BY <1>2, <2>2 DEF names
    <3> QED
      BY <1>1, <2>2, <3>1 DEF new
  <2> QED
    BY <2>1, <2>2

\* The openings up to a line of blocks for agents.
Agents(lines, O, i) == {j \in O : j =< i /\ lines[j].info = "agent-tools"}

\* What the parser has after a number of lines, given the lines that open a fence.
Outside(lines, O, i, s) ==
    /\ \A j \in O : (j =< i /\ i < EndOf(lines, j)) => s = At(FALSE, FenceOf(lines[j]), NoBlock)
    /\ (\A j \in O : j =< i => EndOf(lines, j) =< i) => s = At(FALSE, NoFence, NoBlock)

Inside(lines, k, i, s) ==
    \E bad : LET block(last) == Block(AllNames(lines, "tools", k + 1 .. last),
                                      AllNames(lines, "disable", k + 1 .. last), bad)
             IN  /\ i < EndOf(lines, k) => s = At(FALSE, FenceOf(lines[k]), block(i))
                 /\ EndOf(lines, k) =< i => s = At(TRUE, FenceOf(lines[k]), block(EndOf(lines, k) - 1))

HasRead(lines, O, i, s) ==
    /\ Agents(lines, O, i) = {} => Outside(lines, O, i, s)
    /\ \A k \in Agents(lines, O, i) :
         (\A j \in Agents(lines, O, i) : k =< j) => Inside(lines, k, i, s)

\* A document whose openings are known.
Opened(lines, O) ==
    /\ Len(lines) \in Nat /\ \A i \in 1 .. Len(lines) : Line(lines[i])
    /\ O \in SUBSET (1 .. Len(lines)) /\ AreOpenings(lines, O)

\* A line that opens a fence is one, with marks.
LEMMA OpeningIsFence ==
    ASSUME NEW lines, NEW O, Opened(lines, O), NEW j \in O
    PROVE  /\ j \in 1 .. Len(lines) /\ lines[j].kind = "fence"
           /\ FenceOf(lines[j]) # NoFence /\ FenceOf(lines[j]).info = lines[j].info
           /\ \A line : Closes(line, FenceOf(lines[j])) <=> Closes(line, lines[j])
<1>1. j \in 1 .. Len(lines) /\ lines[j].kind = "fence" /\ Line(lines[j])
  BY DEF Opened, AreOpenings
<1>2. lines[j].len # 0
  BY <1>1 DEF Line
<1>3. FenceOf(lines[j]) # NoFence
  BY <1>2 DEF FenceOf, NoFence
<1>4. FenceOf(lines[j]).info = lines[j].info
  BY DEF FenceOf
<1>5. \A line : Closes(line, FenceOf(lines[j])) <=> Closes(line, lines[j])
  BY DEF FenceOf, Closes
<1> QED
  BY <1>1, <1>3, <1>4, <1>5

\* Before the first block for agents: one line more.
LEMMA OutsideStep ==
    ASSUME NEW lines, NEW O, Opened(lines, O), NEW i \in 1 .. Len(lines), NEW s,
           Agents(lines, O, i - 1) = {}, Outside(lines, O, i - 1, s)
    PROVE  HasRead(lines, O, i, ScanLine(s, lines[i]))
<1> DEFINE end(j) == EndOf(lines, j)
           next == ScanLine(s, lines[i])
<1>1. /\ Len(lines) \in Nat /\ i \in Nat /\ O \in SUBSET (1 .. Len(lines))
      /\ \A j \in O : j \in Nat /\ j =< Len(lines)
  BY DEF Opened
<1>2. \A j \in O : end(j) \in Nat /\ j < end(j)
  BY <1>1, Ends
<1>3. i \in O <=> lines[i].kind = "fence" /\ \A j \in O : j < i => end(j) < i
  BY DEF Opened, AreOpenings
<1>4. \A j, k \in O : j < k => end(j) < k
  BY <1>1 DEF Opened, AreOpenings
<1> HIDE DEF end
<1>5. CASE \E j \in O : j =< i - 1 /\ i - 1 < end(j)
  <2>1. PICK j \in O : j =< i - 1 /\ i - 1 < end(j)
    BY <1>5
  <2>2. j < i /\ i =< end(j)
    BY <1>1, <1>2, <2>1
  <2>3. i \notin O
    BY <1>2, <1>3, <2>2
  <2>4. s = At(FALSE, FenceOf(lines[j]), NoBlock)
    BY <2>1 DEF Outside, end
  <2>5. \A k \in O : k # i
    BY <2>3
  <2>6. \A k \in O : (k =< i) <=> (k =< i - 1)
    BY <1>1, <2>5
  <2>7. Agents(lines, O, i) = {}
    BY <2>6 DEF Agents
  <2>8. lines[j].info # "agent-tools"
    BY <2>1 DEF Agents
  <2>9. FenceOf(lines[j]) # NoFence /\ FenceOf(lines[j]).info # "agent-tools"
    BY <2>8, OpeningIsFence
  <2>10. \A k \in O : (k =< i /\ i < end(k)) => k = j
    <3> TAKE k \in O
    <3> HAVE k =< i /\ i < end(k)
    <3>1. ~(j < k) /\ ~(k < j)
      BY <1>1, <1>2, <1>4, <2>1, <2>2, <2>6
    <3> QED
      BY <1>1, <3>1
  <2>11. /\ Closes(lines[i], FenceOf(lines[j])) => next = At(FALSE, NoFence, NoBlock)
         /\ ~Closes(lines[i], FenceOf(lines[j])) => next = At(FALSE, FenceOf(lines[j]), NoBlock)
    <3>1. PICK fence : fence = FenceOf(lines[j])
      OBVIOUS
    <3>2. fence # NoFence /\ fence.info # "agent-tools" /\ s = At(FALSE, fence, NoBlock)
      BY <2>4, <2>9, <3>1
    <3>3. Closes(lines[i], fence) => ScanLine(At(FALSE, fence, NoBlock), lines[i]) = At(FALSE, NoFence, NoBlock)
      BY <3>2, InOther
    <3>4. ~Closes(lines[i], fence) => ScanLine(At(FALSE, fence, NoBlock), lines[i]) = At(FALSE, fence, NoBlock)
      BY <3>2, InOther
    <3> QED
      BY <3>1, <3>2, <3>3, <3>4
  <2>12. CASE i = end(j)
    <3>1. Closes(lines[i], FenceOf(lines[j]))
      <4>1. j \in 1 .. Len(lines) /\ Len(lines) \in Nat /\ EndOf(lines, j) = i /\ i =< Len(lines)
        BY <1>1, <2>12 DEF end
      <4>2. Closes(lines[EndOf(lines, j)], lines[j])
        BY <4>1, Ends
      <4> QED
        BY <4>1, <4>2, OpeningIsFence
    <3>2. next = At(FALSE, NoFence, NoBlock)
      BY <2>11, <3>1
    <3>3. \A k \in O : ~(k =< i /\ i < end(k))
      BY <1>2, <2>10, <2>12
    <3> HIDE DEF next
    <3>4. Outside(lines, O, i, next)
      BY <3>2, <3>3 DEF Outside, end
    <3> QED
      BY <2>7, <3>4 DEF HasRead, next
  <2>13. CASE i # end(j)
    <3>1. i < end(j)
      BY <1>1, <1>2, <2>2, <2>13
    <3>2. i \in j + 1 .. Len(lines) /\ j \in 1 .. Len(lines)
      BY <1>1, <2>2, OpeningIsFence
    <3>3. ~Closes(lines[i], FenceOf(lines[j]))
      BY <1>1, <3>1, <3>2, Ends, OpeningIsFence DEF end
    <3>4. next = At(FALSE, FenceOf(lines[j]), NoBlock)
      BY <2>11, <3>3
    <3> HIDE DEF next
    <3>5. j =< i /\ ~(end(j) =< i)
      BY <1>1, <1>2, <2>2, <3>1
    <3>6. Outside(lines, O, i, next)
      BY <2>10, <3>4, <3>5 DEF Outside, end
    <3> QED
      BY <2>7, <3>6 DEF HasRead, next
  <2> QED
    BY <2>12, <2>13
<1>6. CASE ~\E j \in O : j =< i - 1 /\ i - 1 < end(j)
  <2>1. \A j \in O : j < i => end(j) < i
    BY <1>1, <1>2, <1>6
  <2>2. \A j \in O : j =< i - 1 => end(j) =< i - 1
    BY <1>1, <1>2, <1>6
  <2>3. s = At(FALSE, NoFence, NoBlock)
    BY <2>2 DEF Outside, end
  <2>4. i \in O <=> lines[i].kind = "fence"
    BY <1>3, <2>1
  <2>5. \A j \in O : j =< i => j = i \/ j =< i - 1
    BY <1>1
  <2>6. \A j \in Agents(lines, O, i) : j = i
    BY <2>5 DEF Agents
  <2>7. CASE lines[i].kind # "fence"
    <3>1. next = At(FALSE, NoFence, NoBlock)
      BY <2>3, <2>7, InNone
    <3>2. \A j \in O : j =< i => end(j) =< i /\ ~(i < end(j))
      BY <1>1, <1>2, <2>1, <2>4, <2>5, <2>7
    <3>3. Agents(lines, O, i) = {}
      BY <2>4, <2>6, <2>7 DEF Agents
    <3> HIDE DEF next
    <3>4. Outside(lines, O, i, next)
      BY <3>1, <3>2 DEF Outside, end
    <3> QED
      BY <3>3, <3>4 DEF HasRead, next
  <2>8. CASE lines[i].kind = "fence" /\ lines[i].info # "agent-tools"
    <3>1. next = At(FALSE, FenceOf(lines[i]), NoBlock)
      BY <2>3, <2>8, InNone
    <3>2. i \in O /\ i < end(i) /\ i =< i /\ ~(end(i) =< i)
      BY <1>1, <1>2, <2>4, <2>8
    <3>3. \A j \in O : (j =< i /\ i < end(j)) => j = i
      BY <1>1, <1>2, <2>1, <2>5
    <3>4. Agents(lines, O, i) = {}
      BY <2>6, <2>8 DEF Agents
    <3> HIDE DEF next
    <3>5. Outside(lines, O, i, next)
      BY <3>1, <3>2, <3>3 DEF Outside, end
    <3> QED
      BY <3>4, <3>5 DEF HasRead, next
  <2>9. CASE lines[i].kind = "fence" /\ lines[i].info = "agent-tools"
    <3>1. next = At(FALSE, FenceOf(lines[i]), Block(Unset, Unset, FALSE))
      BY <2>3, <2>9, InNone
    <3>2. i \in O /\ i < end(i) /\ i =< i /\ ~(end(i) =< i)
      BY <1>1, <1>2, <2>4, <2>9
    <3>3. i \in Agents(lines, O, i)
      BY <2>9, <3>2 DEF Agents
    <3>4. \A key : AllNames(lines, key, i + 1 .. i) = Unset
      <4>1. i + 1 .. i = {}
        BY <1>1
      <4> QED
        BY <4>1 DEF AllNames
    <3> HIDE DEF next
    <3>5. Inside(lines, i, i, next)
      <4>1. AllNames(lines, "tools", i + 1 .. i) = Unset /\ AllNames(lines, "disable", i + 1 .. i) = Unset
        BY <3>4
      <4>2. next = At(FALSE, FenceOf(lines[i]), Block(AllNames(lines, "tools", i + 1 .. i),
                                                      AllNames(lines, "disable", i + 1 .. i), FALSE))
        BY <3>1, <4>1
      <4>3. \E bad : next = At(FALSE, FenceOf(lines[i]), Block(AllNames(lines, "tools", i + 1 .. i),
                                                               AllNames(lines, "disable", i + 1 .. i), bad))
        BY <4>2
      <4> QED
        BY <3>2, <4>3 DEF Inside, end
    <3>6. \A k \in Agents(lines, O, i) : Inside(lines, k, i, next)
      BY <2>6, <3>5
    <3> QED
      BY <3>3, <3>6 DEF HasRead, next
  <2> QED
    BY <2>7, <2>8, <2>9
<1> QED
  BY <1>5, <1>6

\* In or after the first block for agents: one line more.
LEMMA InsideStep ==
    ASSUME NEW lines, NEW O, Opened(lines, O), NEW i \in 1 .. Len(lines), NEW s,
           NEW k \in Agents(lines, O, i - 1), Inside(lines, k, i - 1, s)
    PROVE  Inside(lines, k, i, ScanLine(s, lines[i]))
<1> DEFINE end == EndOf(lines, k)
           next == ScanLine(s, lines[i])
           fence == FenceOf(lines[k])
           tools(last) == AllNames(lines, "tools", k + 1 .. last)
           disable(last) == AllNames(lines, "disable", k + 1 .. last)
<1>1. /\ Len(lines) \in Nat /\ i \in Nat /\ k \in O /\ k \in 1 .. Len(lines)
      /\ k =< i - 1 /\ lines[k].info = "agent-tools"
      /\ \A j \in 1 .. Len(lines) : Line(lines[j])
  BY OpeningIsFence DEF Opened, Agents
<1>2. end \in Nat /\ k < end
  BY <1>1, Ends
<1>3. i \in k + 1 .. Len(lines)
  BY <1>1
<1>4. fence # NoFence /\ fence.info = "agent-tools"
  BY <1>1, OpeningIsFence
<1>5. PICK bad :
        /\ i - 1 < end => s = At(FALSE, fence, Block(tools(i - 1), disable(i - 1), bad))
        /\ end =< i - 1 => s = At(TRUE, fence, Block(tools(end - 1), disable(end - 1), bad))
  BY DEF Inside
<1>6. SUFFICES \E b : /\ i < end => next = At(FALSE, fence, Block(tools(i), disable(i), b))
                      /\ end =< i => next = At(TRUE, fence, Block(tools(end - 1), disable(end - 1), b))
  BY DEF Inside
<1>7. CASE end =< i - 1
  <2>1. end =< i /\ ~(i < end)
    BY <1>1, <1>2, <1>7
  <2>2. next = At(TRUE, fence, Block(tools(end - 1), disable(end - 1), bad))
    BY <1>5, <1>7, AfterBlock
  <2> HIDE DEF next, fence, end
  <2> QED
    BY <2>1, <2>2
<1>8. CASE end = i
  <2>1. i - 1 < end /\ end =< i /\ ~(i < end) /\ end - 1 = i - 1
    BY <1>1, <1>8
  <2>2. s = At(FALSE, fence, Block(tools(end - 1), disable(end - 1), bad))
    BY <1>5, <2>1
  <2>3. Closes(lines[i], fence)
    <3>1. EndOf(lines, k) = i /\ i =< Len(lines)
      BY <1>1, <1>8
    <3>2. Closes(lines[EndOf(lines, k)], lines[k])
      BY <1>1, <3>1, Ends
    <3> QED
      BY <1>1, <3>1, <3>2, OpeningIsFence
  <2>4. next = At(TRUE, fence, Block(tools(end - 1), disable(end - 1), bad))
    <3>1. \A line, block : Closes(line, fence) =>
            ScanLine(At(FALSE, fence, block), line) = At(TRUE, fence, block)
      BY <1>4, InBlock
    <3>2. PICK block : block = Block(tools(end - 1), disable(end - 1), bad)
      OBVIOUS
    <3>3. ScanLine(At(FALSE, fence, block), lines[i]) = At(TRUE, fence, block)
      <4> HIDE DEF fence
      <4> QED
        BY <2>3, <3>1
    <3> HIDE DEF fence, end, tools, disable
    <3> QED
      BY <2>2, <3>2, <3>3
  <2> HIDE DEF next, fence, end
  <2> QED
    BY <2>1, <2>4
<1>9. CASE i < end
  <2>1. i - 1 < end /\ ~(end =< i)
    BY <1>1, <1>2, <1>9
  <2>2. s = At(FALSE, fence, Block(tools(i - 1), disable(i - 1), bad))
    BY <1>5, <2>1
  <2>3. ~Closes(lines[i], fence)
    <3>1. ~Closes(lines[i], lines[k])
      BY <1>1, <1>3, <1>9, Ends
    <3> QED
      BY <1>1, <3>1, OpeningIsFence
  <2>4. next = At(FALSE, fence, ReadLine(Block(tools(i - 1), disable(i - 1), bad), lines[i]))
    <3> HIDE DEF fence, end, tools, disable
    <3>1. PICK block : block = Block(tools(i - 1), disable(i - 1), bad)
      OBVIOUS
    <3>2. ScanLine(At(FALSE, fence, block), lines[i]) = At(FALSE, fence, ReadLine(block, lines[i]))
      BY <1>4, <2>3, InBlock
    <3> QED
      BY <2>2, <3>1, <3>2
  <2>5. /\ tools(i) = IF lines[i].kind = "names" /\ lines[i].key = "tools"
                      THEN Joined(tools(i - 1), lines[i].names) ELSE tools(i - 1)
        /\ disable(i) = IF lines[i].kind = "names" /\ lines[i].key = "disable"
                        THEN Joined(disable(i - 1), lines[i].names) ELSE disable(i - 1)
    BY <1>1, <1>3, NamesGrow
  <2> HIDE DEF next, fence, end, tools, disable
  <2>6. PICK b : ReadLine(Block(tools(i - 1), disable(i - 1), bad), lines[i]) = Block(tools(i), disable(i), b)
    BY <2>5, BlockSteps
  <2>7. next = At(FALSE, fence, Block(tools(i), disable(i), b))
    BY <2>4, <2>6
  <2> QED
    BY <2>1, <2>7
<1>10. end =< i - 1 \/ end = i \/ i < end
  BY <1>1, <1>2
<1> HIDE DEF end, next, fence, tools, disable
<1> QED
  BY <1>7, <1>8, <1>9, <1>10

\* After any number of lines the parser has read the first block as far as it goes.
LEMMA ReadSoFar ==
    ASSUME NEW lines, NEW O, Opened(lines, O), NEW f, Scans(lines, Len(lines), f)
    PROVE  \A i \in 0 .. Len(lines) : HasRead(lines, O, i, f[i])
<1> DEFINE n == Len(lines)
           bad == {i \in 0 .. n : ~HasRead(lines, O, i, f[i])}
<1>1. n \in Nat /\ O \in SUBSET (1 .. n)
  BY DEF Opened
<1>2. ASSUME NEW i \in bad PROVE \E j \in bad : j < i
  <2>1. i # 0
    <3> SUFFICES HasRead(lines, O, 0, f[0])
      BY <1>2
    <3>1. f[0] = At(FALSE, NoFence, NoBlock)
      BY <1>1 DEF Scans
    <3>2. \A j \in O : ~(j =< 0)
      BY <1>1
    <3> QED
      BY <3>1, <3>2 DEF HasRead, Agents, Outside
  <2> SUFFICES ASSUME i - 1 \notin bad PROVE FALSE
    BY <1>1, <1>2, <2>1
  <2>2. i \in 1 .. n /\ i - 1 \in 0 .. n
    BY <1>1, <1>2, <2>1
  <2>3. HasRead(lines, O, i - 1, f[i - 1])
    BY <2>2
  <2>4. f[i] = ScanLine(f[i - 1], lines[i])
    BY <1>1, <2>1, <2>2 DEF Scans
  <2>5. ~HasRead(lines, O, i, f[i])
    BY <1>2
  <2>6. CASE Agents(lines, O, i - 1) = {}
    <3>1. Outside(lines, O, i - 1, f[i - 1])
      BY <2>3, <2>6 DEF HasRead
    <3> QED
      BY <2>2, <2>4, <2>5, <2>6, <3>1, OutsideStep
  <2>7. CASE Agents(lines, O, i - 1) # {}
    <3>1. Agents(lines, O, i - 1) \in SUBSET Nat
      <4>1. \A j \in O : j \in Nat
        BY <1>1
      <4> QED
        BY <4>1 DEF Agents
    <3>2. PICK k \in Agents(lines, O, i - 1) : \A j \in Agents(lines, O, i - 1) : k =< j
      BY <2>7, <3>1, Least
    <3>3. Inside(lines, k, i - 1, f[i - 1])
      BY <2>3, <3>2 DEF HasRead
    <3>4. Inside(lines, k, i, f[i])
      BY <2>2, <2>4, <3>3, InsideStep
    <3>5. k \in Agents(lines, O, i) /\ k =< i - 1 /\ k \in Nat
      BY <1>1, <2>2 DEF Agents
    <3>6. \A j \in Agents(lines, O, i) : j \in Nat /\ (j =< k => j \in Agents(lines, O, i - 1))
      BY <1>1, <2>2, <3>5 DEF Agents
    <3>7. ASSUME NEW m \in Agents(lines, O, i), \A j \in Agents(lines, O, i) : m =< j
          PROVE  m = k
      <4>1. m =< k
        BY <3>5, <3>7
      <4>2. k =< m
        BY <3>2, <3>6, <4>1
      <4> QED
        BY <3>5, <3>6, <4>1, <4>2
    <3> QED
      BY <2>5, <3>4, <3>5, <3>7 DEF HasRead
  <2> QED
    BY <2>6, <2>7
<1>3. bad = {}
  <2> HIDE DEF bad
  <2>1. bad \in SUBSET Nat
    BY <1>1 DEF bad
  <2> QED
    BY <1>2, <2>1, NoLeastFailure
<1> QED
  BY <1>3

\* What is read of an AGENTS.md are the lines of its first agent-tools block, up to the fence
\* that closes it, and a block shown inside another fence is not one.
THEOREM FirstBlockRead == AnswersSpec => []FirstBlockIsRead
<1>1. Asked => FirstBlockIsRead
  <2> SUFFICES ASSUME Asked, kind = "document" PROVE FirstBlockIsRead
    BY DEF FirstBlockIsRead
  <2> DEFINE lines == input
             n == Len(lines)
             O == Openings(lines)
             blocks == {i \in O : lines[i].info = "agent-tools"}
             start == CHOOSE i \in blocks : \A j \in blocks : i =< j
             inside == start + 1 .. EndOf(lines, start) - 1
             read == Parse(lines)
  <2>1. input \in Seq(ToSet(input)) /\ \A i \in DOMAIN input : Line(input[i])
    BY AnswersAssumption DEF Asked
  <2>2. n \in Nat /\ DOMAIN lines = 1 .. n
    BY <2>1, LenProperties
  <2>3. O \in SUBSET (1 .. n) /\ AreOpenings(lines, O)
    BY <2>2, OpeningsExist
  <2>4. Opened(lines, O)
    BY <2>1, <2>2, <2>3 DEF Opened
  <2>5. PICK f : Scans(lines, n, f) /\ read = f[n].block
    BY <2>2, ParseScans
  <2>6. HasRead(lines, O, n, f[n])
    <3>1. n \in 0 .. n
      BY <2>2
    <3> QED
      BY <2>4, <2>5, <3>1, ReadSoFar
  <2>7. blocks = Agents(lines, O, n)
    <3>1. \A j \in O : j =< n
      BY <2>2, <2>3
    <3> QED
      BY <3>1 DEF Agents
  <2>8. CASE blocks = {}
    <3>1. Outside(lines, O, n, f[n])
      BY <2>6, <2>7, <2>8 DEF HasRead
    <3>2. read = NoBlock
      <4>1. f[n].block = NoBlock
        <5>1. CASE \E j \in O : j =< n /\ n < EndOf(lines, j)
          <6>1. PICK j \in O : f[n] = At(FALSE, FenceOf(lines[j]), NoBlock)
            BY <3>1, <5>1 DEF Outside
          <6> QED
            BY <6>1 DEF At
        <5>2. CASE ~\E j \in O : j =< n /\ n < EndOf(lines, j)
          <6>1. \A j \in O : EndOf(lines, j) \in Nat
            BY <2>2, <2>3, Ends
          <6>2. \A j \in O : j =< n => EndOf(lines, j) =< n
            BY <2>2, <5>2, <6>1
          <6> QED
            BY <3>1, <6>2 DEF Outside, At
        <5> QED
          BY <5>1, <5>2
      <4> QED
        BY <2>5, <4>1
    <3>3. read.found = FALSE
      BY <3>2 DEF NoBlock
    <3> HIDE DEF read, blocks
    <3> QED
      BY <2>8, <3>2, <3>3 DEF FirstBlockIsRead, read, blocks
  <2>9. CASE blocks # {}
    <3>1. blocks \in SUBSET Nat
      BY <2>2, <2>3
    <3>2. start \in blocks /\ \A j \in blocks : start =< j
      <4>1. \E i \in blocks : \A j \in blocks : i =< j
        BY <2>9, <3>1, Least
      <4> HIDE DEF blocks
      <4> QED
        BY <4>1
    <3>3. start \in 1 .. n /\ EndOf(lines, start) \in start + 1 .. n + 1
      <4>1. start \in 1 .. n
        BY <2>3, <3>2
      <4> HIDE DEF start
      <4> QED
        BY <2>2, <4>1, Ends
    <3>4. Inside(lines, start, n, f[n])
      <4> HIDE DEF start, blocks
      <4> QED
        BY <2>6, <2>7, <3>2 DEF HasRead
    <3>5. \E bad : read = Block(AllNames(lines, "tools", inside), AllNames(lines, "disable", inside), bad)
      <4> HIDE DEF start, read
      <4>1. CASE n < EndOf(lines, start)
        <5>1. n = EndOf(lines, start) - 1
          BY <2>2, <3>3, <4>1
        <5> QED
          BY <2>5, <3>4, <4>1, <5>1 DEF Inside, At
      <4>2. CASE EndOf(lines, start) =< n
        BY <2>5, <3>4, <4>2 DEF Inside, At
      <4> QED
        BY <2>2, <3>3, <4>1, <4>2
    <3>6. /\ read.found = TRUE
          /\ read.tools = AllNames(lines, "tools", inside)
          /\ read.disable = AllNames(lines, "disable", inside)
      <4> HIDE DEF read, inside
      <4> QED
        BY <3>5 DEF Block
    <3> HIDE DEF read, blocks
    <3> QED
      BY <2>9, <3>6 DEF FirstBlockIsRead, read, blocks
  <2> QED
    BY <2>8, <2>9
<1> QED
  BY <1>1, StaysAsked, PTL
=============================================================================
