------------------------------- MODULE ArgsProofs -------------------------------
(***************************************************************************)
(* Proofs about the command line: what the flags of one process have to    *)
(* agree on, whatever words it is given.                                   *)
(*                                                                         *)
(* The parser and the sources of patterns are folds.  No induction theorem *)
(* of the library can be cited for them, as each takes the formula it is   *)
(* about as a parameter; but a formula that some number refutes is refuted *)
(* by a least one, and that numbers have least ones is a fact about sets.  *)
(***************************************************************************)
EXTENDS Args, TLAPS, FiniteSetTheorems, WellFoundedInduction

-----------------------------------------------------------------------------
(***************************************************************************)
(* Numbers.                                                                *)
(***************************************************************************)

\* The numbers of a set have a least one.
LEMMA LeastNumber ==
    ASSUME NEW T, T \subseteq Nat, T # {}
    PROVE  \E n \in T : \A m \in T : n <= m
<1> DEFINE R == OpToRel(<, Nat)
<1>1. \E n \in T : \A m \in T : ~(<<m, n>> \in R)
  <2> HIDE DEF R
  <2> QED BY NatLessThanWellFounded, WFMin DEF R
<1>2. PICK n \in T : \A m \in T : ~(<<m, n>> \in R)
  BY <1>1
<1>3. \A m \in T : m \in Nat /\ n \in Nat
  OBVIOUS
<1>4. \A m \in T : ~(m < n)
  BY <1>2, <1>3 DEF OpToRel
<1> HIDE DEF R
<1> QED BY <1>3, <1>4

\* The last element of a set of numbers.
LEMMA MaxIs ==
    ASSUME NEW S \in SUBSET Nat, NEW k \in S, \A m \in S : m <= k
    PROVE  Max(S) = k
<1>1. \A m \in S : k >= m
  OBVIOUS
<1>2. Max(S) \in S /\ \A m \in S : Max(S) >= m
  BY <1>1 DEF Max
<1>3. k \in Nat /\ Max(S) \in Nat /\ Max(S) <= k /\ k <= Max(S)
  BY <1>2
<1> QED BY <1>3

-----------------------------------------------------------------------------
(***************************************************************************)
(* The flags.                                                              *)
(***************************************************************************)

\* Where a pattern comes from: from -e or from -f.
Sources == {"regexp", "file"} \X Texts

\* What the update of a flag does to the fields that remember, that only
\* --pcre2-version asks for a special mode, and that every name is a word.
Tamed(flag) ==
    /\ "" \notin flag.names \cup flag.negated
    /\ \A value \in DOMAIN flag.update :
           LET update == flag.update[value]
           IN  /\ "patterns" \in DOMAIN update => update.patterns \in Seq(Sources)
               /\ "mode" \in DOMAIN update => update.mode \in Modes \cup {"no-json"}
               /\ "unrestricted" \in DOMAIN update => update.unrestricted \in 0 .. 3
               /\ "special" \in DOMAIN update => flag = PCRE2Version

\* Every flag of the table is tame.
LEMMA FlagsAreTame ==
    ASSUME NEW flag \in DOMAIN FLAGS
    PROVE  Tamed(FLAGS[flag])
<1>1. Tamed(Regexp) /\ Tamed(File)
  BY DEF Tamed, Regexp, File, Valued, Flag, Sources
<1>2. /\ Tamed(FixedStrings) /\ Tamed(InvertMatch)
      /\ Tamed(MultilineDotall) /\ Tamed(NoUnicode)
      /\ Tamed(NoPcre2Unicode) /\ Tamed(Follow) /\ Tamed(Hidden)
      /\ Tamed(GlobCaseInsensitive)
  BY DEF Tamed, FixedStrings, InvertMatch, MultilineDotall, NoUnicode,
         NoPcre2Unicode, Follow, Hidden, GlobCaseInsensitive, Bool, Toggle,
         Flag, Only
<1>3. /\ Tamed(IgnoreFileCaseInsensitive) /\ Tamed(NoIgnoreDot)
      /\ Tamed(NoIgnoreExclude) /\ Tamed(NoIgnoreFiles)
      /\ Tamed(NoIgnoreGlobal) /\ Tamed(NoIgnoreParent)
      /\ Tamed(NoIgnoreVcs) /\ Tamed(NoRequireGit)
  BY DEF Tamed, IgnoreFileCaseInsensitive, NoIgnoreDot, NoIgnoreExclude,
         NoIgnoreFiles, NoIgnoreGlobal, NoIgnoreParent, NoIgnoreVcs,
         NoRequireGit, Bool, Toggle, Flag, Only
<1>4. /\ Tamed(OneFileSystem) /\ Tamed(ByteOffset) /\ Tamed(IncludeZero)
      /\ Tamed(MaxColumnsPreview) /\ Tamed(Stats) /\ Tamed(Trim)
      /\ Tamed(NoMessages) /\ Tamed(NoIgnoreMessages)
  BY DEF Tamed, OneFileSystem, ByteOffset, IncludeZero, MaxColumnsPreview,
         Stats, Trim, NoMessages, NoIgnoreMessages, Bool, Toggle, Flag, Only
<1>5. /\ Tamed(SearchZip) /\ Tamed(Text) /\ Tamed(Binary) /\ Tamed(Crlf)
      /\ Tamed(Multiline) /\ Tamed(PCRE2) /\ Tamed(AutoHybridRegex)
      /\ Tamed(Mmap)
  BY DEF Tamed, SearchZip, Text, Binary, Crlf, Multiline, PCRE2,
         AutoHybridRegex, Mmap, Toggle, Flag
<1>6. /\ Tamed(SortFiles) /\ Tamed(Column) /\ Tamed(Heading)
      /\ Tamed(BlockBuffered) /\ Tamed(LineBuffered)
  BY DEF Tamed, SortFiles, Column, Heading, BlockBuffered, LineBuffered,
         Toggle, Flag
<1>7. /\ Tamed(NullData) /\ Tamed(StopOnNonmatch) /\ Tamed(CaseSensitive)
      /\ Tamed(IgnoreCase) /\ Tamed(SmartCase) /\ Tamed(LineRegexp)
      /\ Tamed(WordRegexp) /\ Tamed(Unrestricted)
  BY DEF Tamed, NullData, StopOnNonmatch, CaseSensitive, IgnoreCase,
         SmartCase, LineRegexp, WordRegexp, Unrestricted, Switch, Flag
<1>8. /\ Tamed(Passthru) /\ Tamed(LineNumber) /\ Tamed(LineNumberNo)
      /\ Tamed(WithFilename) /\ Tamed(WithFilenameNo) /\ Tamed(Pretty)
      /\ Tamed(Null) /\ Tamed(OnlyMatching)
  BY DEF Tamed, Passthru, LineNumber, LineNumberNo, WithFilename,
         WithFilenameNo, Pretty, Null, OnlyMatching, Switch, Flag
<1>9. /\ Tamed(Quiet) /\ Tamed(Vimgrep) /\ Tamed(Bench) /\ Tamed(NoIndex)
      /\ Tamed(Debug) /\ Tamed(Trace) /\ Tamed(NoConfig) /\ Tamed(Help)
  BY DEF Tamed, Quiet, Vimgrep, Bench, NoIndex, Debug, Trace, NoConfig, Help,
         Switch, Flag
<1>10. Tamed(Version) /\ Tamed(PCRE2Version)
  BY DEF Tamed, Version, PCRE2Version, Switch, Flag
<1>11. /\ Tamed(Engine) /\ Tamed(DfaSizeLimit) /\ Tamed(RegexSizeLimit)
       /\ Tamed(MaxCount) /\ Tamed(MaxDepth) /\ Tamed(MaxFilesize)
       /\ Tamed(Color) /\ Tamed(FieldContextSeparator)
  BY DEF Tamed, Engine, DfaSizeLimit, RegexSizeLimit, MaxCount, MaxDepth,
         MaxFilesize, Color, FieldContextSeparator, Valued, Flag, Sets, Only
<1>12. /\ Tamed(FieldMatchSeparator) /\ Tamed(HyperlinkFormat)
       /\ Tamed(Replace)
  BY DEF Tamed, FieldMatchSeparator, HyperlinkFormat, Replace, Valued, Flag,
         Sets, Only
<1>13. Tamed(Encoding) /\ Tamed(ContextSeparator)
  BY DEF Tamed, Encoding, ContextSeparator, Retractable, Flag, Sets, Only
<1>14. /\ Tamed(Threads) /\ Tamed(PathSeparator) /\ Tamed(HostnameBin)
       /\ Tamed(MaxColumns)
  BY DEF Tamed, Threads, PathSeparator, HostnameBin, MaxColumns, Valued, Flag,
         SetsUnless, Only
<1>15. Tamed(Pre)
  BY DEF Tamed, Pre, Retractable, Flag
<1>16. /\ Tamed(PreGlob) /\ Tamed(Glob) /\ Tamed(IGlob) /\ Tamed(IgnoreFile)
       /\ Tamed(Colors)
  BY DEF Tamed, PreGlob, Glob, IGlob, IgnoreFile, Colors, Valued, Flag,
         Pushes, Only
<1>17. Tamed(NoIgnore)
  BY DEF Tamed, NoIgnore, Toggle, Flag, NoIgnoreAll
<1>18. /\ Tamed(Type) /\ Tamed(TypeNot) /\ Tamed(TypeAdd)
       /\ Tamed(TypeClear)
  BY DEF Tamed, Type, TypeNot, TypeAdd, TypeClear, Valued, Flag, TypeChange
<1>19. Tamed(Sort) /\ Tamed(Sortr)
  BY DEF Tamed, Sort, Sortr, Valued, Flag, NoSort
<1>20. /\ Tamed(Count) /\ Tamed(CountMatches) /\ Tamed(FilesWithMatches)
       /\ Tamed(FilesWithoutMatch) /\ Tamed(Files) /\ Tamed(TypeList)
  BY DEF Tamed, Count, CountMatches, FilesWithMatches, FilesWithoutMatch,
         Files, TypeList, Switch, Flag, Mode, Modes, SearchModes
<1>21. Tamed(JSON)
  BY DEF Tamed, JSON, Toggle, Flag, Mode, Modes, SearchModes
<1>22. Tamed(Generate)
  BY DEF Tamed, Generate, Valued, Flag, Sets, Only, Modes, SearchModes,
         GenerateModes
<1>23. /\ Tamed(Context) /\ Tamed(AfterContext) /\ Tamed(BeforeContext)
       /\ Tamed(Index) /\ Tamed(IndexBackendFlag) /\ Tamed(IndexDir)
  BY DEF Tamed, Context, AfterContext, BeforeContext, Index, IndexBackendFlag,
         IndexDir, Valued, Flag
<1>24. FLAGS[flag] \in {
          AfterContext, AutoHybridRegex, BeforeContext, Binary, BlockBuffered,
          ByteOffset, CaseSensitive, Color, Colors, Column, Context,
          ContextSeparator, Count, CountMatches, Crlf, Debug, DfaSizeLimit,
          Encoding, Engine, FieldContextSeparator, FieldMatchSeparator, File,
          Files, FilesWithMatches, FilesWithoutMatch, FixedStrings, Follow,
          Generate, Glob, GlobCaseInsensitive, Heading, Help, Hidden,
          HostnameBin, HyperlinkFormat, IGlob, IgnoreCase, IgnoreFile,
          IgnoreFileCaseInsensitive, IncludeZero, Bench, Index, IndexDir,
          IndexBackendFlag, InvertMatch, JSON, LineBuffered, LineNumber,
          LineNumberNo, LineRegexp, MaxColumns, MaxColumnsPreview, MaxCount,
          MaxDepth, MaxFilesize, Mmap, Multiline, MultilineDotall, NoConfig,
          NoIgnore, NoIgnoreDot, NoIgnoreExclude, NoIgnoreFiles,
          NoIgnoreGlobal, NoIndex, NoIgnoreMessages, NoIgnoreParent,
          NoIgnoreVcs, NoMessages, NoPcre2Unicode, NoRequireGit, NoUnicode,
          Null, NullData, OneFileSystem, OnlyMatching, PathSeparator,
          Passthru, PCRE2, PCRE2Version, Pre, PreGlob, Pretty, Quiet,
          RegexSizeLimit, Regexp, Replace, SearchZip, SmartCase, SortFiles,
          Sort, Sortr, Stats, StopOnNonmatch, Text, Threads, Trace, Trim,
          Type, TypeAdd, TypeClear, TypeNot, TypeList, Unrestricted, Version,
          Vimgrep, WithFilename, WithFilenameNo, WordRegexp}
  BY DEF FLAGS
<1> QED BY <1>1, <1>2, <1>3, <1>4, <1>5, <1>6, <1>7, <1>8, <1>9, <1>10, <1>11,
           <1>12, <1>13, <1>14, <1>15, <1>16, <1>17, <1>18, <1>19, <1>20,
           <1>21, <1>22, <1>23, <1>24


-----------------------------------------------------------------------------
(***************************************************************************)
(* One turn of the parser.                                                 *)
(***************************************************************************)

LowTyped(low) ==
    /\ low = [f \in DOMAIN LowArgs |-> low[f]]
    /\ low.patterns \in Seq(Sources)
    /\ low.mode \in Modes
    /\ low.unrestricted \in 0 .. 3

\* A flag that waits for its value takes one.
ParserTyped(p) ==
    /\ p = [low |-> p.low, awaits |-> p.awaits, failed |-> p.failed]
    /\ LowTyped(p.low)
    /\ p.awaits \in DOMAIN FLAGS \cup {"none"}
    /\ p.awaits # "none" => FLAGS[p.awaits] # PCRE2Version
    /\ p.failed \in BOOLEAN

\* Nothing is set but by name.
LEMMA FieldsAreThere ==
    {"patterns", "mode", "unrestricted", "special", "positional", "context"}
        \subseteq DOMAIN LowArgs
BY DEF LowArgs

\* An update that is tame leaves the low level arguments well typed, and their
\* special mode alone unless it sets one.
LEMMA ApplyKeepsTypes ==
    ASSUME NEW low, LowTyped(low), NEW update,
           "patterns" \in DOMAIN update => update.patterns \in Seq(Sources),
           "mode" \in DOMAIN update => update.mode \in Modes \cup {"no-json"},
           "unrestricted" \in DOMAIN update => update.unrestricted \in 0 .. 3
    PROVE  /\ LowTyped(Apply(low, update))
           /\ "special" \notin DOMAIN update => Apply(low, update).special = low.special
<1>1. \A f \in DOMAIN low :
         Apply(low, update)[f] = IF f \in DOMAIN update THEN Join(f, low[f], update[f])
                                 ELSE low[f]
  BY DEF Apply
<1>2. DOMAIN Apply(low, update) = DOMAIN low
  BY DEF Apply
<1>3. {"patterns", "mode", "unrestricted", "special"} \subseteq DOMAIN low
  BY FieldsAreThere DEF LowTyped
<1>4. Apply(low, update).patterns \in Seq(Sources)
  <2>1. ASSUME "patterns" \in DOMAIN update
        PROVE  Join("patterns", low.patterns, update.patterns) \in Seq(Sources)
    <3>1. low.patterns \o update.patterns \in Seq(Sources)
      BY <2>1 DEF LowTyped
    <3>2. Join("patterns", low.patterns, update.patterns) = low.patterns \o update.patterns
      BY DEF Join, Lists
    <3> QED BY <3>1, <3>2
  <2> QED BY <1>1, <1>3, <2>1 DEF LowTyped
<1>5. Apply(low, update).mode \in Modes
  <2>1. ASSUME "mode" \in DOMAIN update
        PROVE  Join("mode", low.mode, update.mode) \in Modes
    <3>1. Join("mode", low.mode, update.mode) = UpdateMode(low.mode, update.mode)
      BY DEF Join, Lists
    <3>2. "Standard" \in Modes /\ "no-json" \notin Modes
      BY DEF Modes, SearchModes, GenerateModes
    <3>3. UpdateMode(low.mode, update.mode) \in {low.mode, update.mode, "Standard"}
      BY DEF UpdateMode
    <3>4. update.mode = "no-json" => UpdateMode(low.mode, update.mode) \in {low.mode, "Standard"}
      BY DEF UpdateMode
    <3> QED BY <2>1, <3>1, <3>2, <3>3, <3>4 DEF LowTyped
  <2> QED BY <1>1, <1>3, <2>1 DEF LowTyped
<1>6. Apply(low, update).unrestricted \in 0 .. 3
  <2>1. "unrestricted" \in DOMAIN update
           => Join("unrestricted", low.unrestricted, update.unrestricted) = update.unrestricted
    BY DEF Join, Lists
  <2> QED BY <1>1, <1>3, <2>1 DEF LowTyped
<1>7. "special" \notin DOMAIN update => Apply(low, update).special = low.special
  BY <1>1, <1>3
<1>8. Apply(low, update) = [f \in DOMAIN LowArgs |-> Apply(low, update)[f]]
  <2>1. Apply(low, update) = [f \in DOMAIN low |->
                                IF f \in DOMAIN update THEN Join(f, low[f], update[f])
                                ELSE low[f]]
    BY DEF Apply
  <2>2. DOMAIN low = DOMAIN LowArgs
    BY DEF LowTyped
  <2> QED BY <1>1, <2>1, <2>2
<1> QED BY <1>4, <1>5, <1>6, <1>7, <1>8 DEF LowTyped

\* -u, -uu and -uuu leave the modes alone.
LEMMA LevelsAreTame ==
    ASSUME NEW n \in 1 .. 3
    PROVE  {"patterns", "mode", "unrestricted", "special", "context"}
              \cap DOMAIN Levels[n] = {}
<1> DEFINE fields == {"patterns", "mode", "unrestricted", "special", "context"}
<1>1. fields \cap DOMAIN NoIgnore.update["on"] = {}
  BY DEF NoIgnore, NoIgnoreAll, Toggle, Flag
<1>2. fields \cap DOMAIN Hidden.update["on"] = {}
  BY DEF Hidden, Bool, Toggle, Flag, Only
<1>3. fields \cap DOMAIN Binary.update["on"] = {}
  BY DEF Binary, Toggle, Flag
<1> QED BY <1>1, <1>2, <1>3 DEF Levels

\* Counting -u keeps the types, and one more than three fails.
LEMMA RepeatKeepsTypes ==
    ASSUME NEW p, ParserTyped(p)
    PROVE  /\ ParserTyped(Repeat(p))
           /\ Repeat(p).low.special = p.low.special
           /\ Repeat(p).awaits = p.awaits
<1> DEFINE n == p.low.unrestricted + 1
           once == Apply(p.low, [unrestricted |-> n])
<1>1. n \in 1 .. 4
  BY DEF ParserTyped, LowTyped
<1>2. CASE n > 3
  <2>1. Repeat(p) = [p EXCEPT !.failed = TRUE]
    BY <1>2 DEF Repeat, Fails
  <2>2. Repeat(p) = [low |-> p.low, awaits |-> p.awaits, failed |-> TRUE]
    BY <2>1 DEF ParserTyped
  <2> QED BY <2>2 DEF ParserTyped
<1>3. CASE n \in 1 .. 3
  <2>1. LowTyped(once) /\ once.special = p.low.special
    BY <1>3, ApplyKeepsTypes DEF ParserTyped
  <2>2. LowTyped(Apply(once, Levels[n])) /\ Apply(once, Levels[n]).special = once.special
    <3> HIDE DEF once, n
    <3> QED BY <1>3, <2>1, LevelsAreTame, ApplyKeepsTypes
  <2>3. Repeat(p) = [p EXCEPT !.low = Apply(once, Levels[n])]
    BY <1>3 DEF Repeat
  <2>4. Repeat(p) = [low |-> Apply(once, Levels[n]), awaits |-> p.awaits,
                     failed |-> p.failed]
    BY <2>3 DEF ParserTyped
  <2> QED BY <2>1, <2>2, <2>4 DEF ParserTyped
<1> QED BY <1>1, <1>2, <1>3

\* Failing keeps the types.
LEMMA FailsKeepsTypes ==
    ASSUME NEW p, ParserTyped(p)
    PROVE  /\ ParserTyped(Fails(p))
           /\ Fails(p).low = p.low /\ Fails(p).awaits = p.awaits
<1> DEFINE failing == [low |-> p.low, awaits |-> p.awaits, failed |-> TRUE]
<1>1. Fails(p) = failing
  <2>1. Fails(p) = [p EXCEPT !.failed = TRUE]
    BY DEF Fails
  <2> QED BY <2>1 DEF ParserTyped
<1>2. ParserTyped(failing)
  BY DEF ParserTyped
<1> QED BY <1>1, <1>2

\* Updating for a flag keeps the types.
LEMMA UpdateKeepsTypes ==
    ASSUME NEW p, ParserTyped(p), NEW flag \in DOMAIN FLAGS, NEW value
    PROVE  /\ ParserTyped(Update(p, flag, value))
           /\ Update(p, flag, value).awaits = p.awaits
           /\ FLAGS[flag] # PCRE2Version
                => Update(p, flag, value).low.special = p.low.special
<1> DEFINE update == FLAGS[flag].update[value]
<1>1. CASE value \notin DOMAIN FLAGS[flag].update
  <2>1. Update(p, flag, value) = Fails(p)
    BY <1>1 DEF Update
  <2> QED BY <2>1, FailsKeepsTypes
<1>2. CASE value \in DOMAIN FLAGS[flag].update /\ flag = "Unrestricted"
  <2>1. Update(p, flag, value) = Repeat(p)
    BY <1>2 DEF Update
  <2> QED BY <2>1, RepeatKeepsTypes
<1>3. CASE value \in DOMAIN FLAGS[flag].update /\ flag # "Unrestricted"
  <2>1. Update(p, flag, value) = [p EXCEPT !.low = Apply(@, update)]
    BY <1>3 DEF Update
  <2>2. Update(p, flag, value) = [low |-> Apply(p.low, update), awaits |-> p.awaits,
                                  failed |-> p.failed]
    BY <2>1 DEF ParserTyped
  <2>3. /\ "patterns" \in DOMAIN update => update.patterns \in Seq(Sources)
        /\ "mode" \in DOMAIN update => update.mode \in Modes \cup {"no-json"}
        /\ "unrestricted" \in DOMAIN update => update.unrestricted \in 0 .. 3
        /\ "special" \in DOMAIN update => FLAGS[flag] = PCRE2Version
    BY <1>3, FlagsAreTame DEF Tamed
  <2>4. /\ LowTyped(Apply(p.low, update))
        /\ FLAGS[flag] # PCRE2Version => Apply(p.low, update).special = p.low.special
    <3> HIDE DEF update
    <3> QED BY <2>3, ApplyKeepsTypes DEF ParserTyped
  <2> QED BY <2>2, <2>4 DEF ParserTyped
<1> QED BY <1>1, <1>2, <1>3

\* A word that asks for help or for a version.
AsksSpecial(w) == w.name \in DOMAIN SpecialModes \cup PCRE2Version.names

\* A name of the table is found as the flag that has it.
LEMMA FindFinds ==
    ASSUME NEW name \in Names
    PROVE  Find[name] \in DOMAIN FLAGS /\ name \in NamesOf(Find[name])
<1>1. \E flag \in DOMAIN FLAGS : name \in NamesOf(flag)
  BY DEF Names
<1>2. Find[name] = CHOOSE flag \in DOMAIN FLAGS : name \in NamesOf(flag)
  BY DEF Find
<1> QED BY <1>1, <1>2

\* No flag has the empty name or the name of a special mode.
LEMMA NamesAreWords ==
    "" \notin Names /\ "" \notin DOMAIN SpecialModes
BY FlagsAreTame DEF Names, NamesOf, Tamed, SpecialModes

\* --version is a switch, and takes no value.
LEMMA VersionIsASwitch ==
    "on" \in DOMAIN PCRE2Version.update /\ PCRE2Version.negated = {}
BY DEF PCRE2Version, Switch, Flag

\* Matching a flag with its value keeps the types.
LEMMA MatchKeepsTypes ==
    ASSUME NEW p, ParserTyped(p), p.awaits = "none", NEW w, w.name \in Names
    PROVE  /\ ParserTyped(Match(p, Find[w.name], w))
           /\ ~AsksSpecial(w)
                => Match(p, Find[w.name], w).low.special = p.low.special
<1> DEFINE flag == Find[w.name]
<1>1. flag \in DOMAIN FLAGS /\ w.name \in NamesOf(flag)
  BY FindFinds
<1>2. FLAGS[flag] = PCRE2Version => AsksSpecial(w)
  BY <1>1, VersionIsASwitch DEF NamesOf, AsksSpecial
<1> DEFINE waits == [low |-> p.low, awaits |-> flag, failed |-> p.failed]
<1>3. [p EXCEPT !.awaits = flag] = waits
  BY DEF ParserTyped
<1>4. \/ Match(p, flag, w) = Fails(p)
      \/ \E value : Match(p, flag, w) = Update(p, flag, value)
      \/ Match(p, flag, w) = waits /\ "on" \notin DOMAIN FLAGS[flag].update
  <2> DEFINE negated == w.name \in FLAGS[flag].negated
             switch  == "on" \in DOMAIN FLAGS[flag].update
  <2>1. CASE negated \/ switch
    <3>1. Match(p, flag, w) = IF w.value # "none" THEN Fails(p)
                              ELSE Update(p, flag, IF negated THEN "off" ELSE "on")
      BY <2>1 DEF Match
    <3> QED BY <3>1
  <2>2. CASE ~(negated \/ switch)
    <3>1. Match(p, flag, w) = IF w.value # "none" THEN Update(p, flag, w.value) ELSE waits
      BY <2>2, <1>3 DEF Match
    <3> QED BY <2>2, <3>1
  <2> QED BY <2>1, <2>2
<1>5. "on" \notin DOMAIN FLAGS[flag].update => ParserTyped(waits)
  BY <1>1, VersionIsASwitch DEF ParserTyped
<1> HIDE DEF flag, waits
<1>6. waits.low = p.low
  BY DEF waits
<1> QED BY <1>1, <1>2, <1>4, <1>5, <1>6, FailsKeepsTypes, UpdateKeepsTypes DEF flag

\* One word more: the parser stays well typed, and only a word that asks for a
\* special mode, and is not taken as the value of a flag, sets one.
LEMMA StepKeepsTypes ==
    ASSUME NEW p, ParserTyped(p), NEW w
    PROVE  /\ ParserTyped(Step(p, w))
           /\ ~AsksSpecial(w) => Step(p, w).low.special = p.low.special
<1>1. CASE p.failed
  BY <1>1 DEF Step
<1>2. CASE ~p.failed /\ p.awaits # "none"
  <2> DEFINE taken == Update(p, p.awaits, TextOf(w))
  <2>1. Step(p, w) = [taken EXCEPT !.awaits = "none"]
    BY <1>2 DEF Step
  <2>2. /\ ParserTyped(taken) /\ taken.low.special = p.low.special
    BY <1>2, UpdateKeepsTypes DEF ParserTyped
  <2> HIDE DEF taken
  <2>3. Step(p, w) = [low |-> taken.low, awaits |-> "none", failed |-> taken.failed]
    BY <2>1, <2>2 DEF ParserTyped
  <2> QED BY <2>2, <2>3 DEF ParserTyped
<1>3. CASE ~p.failed /\ p.awaits = "none"
  <2> DEFINE positional == [p EXCEPT !.low = Apply(@, [positional |-> <<w.value>>])]
             special == [p EXCEPT !.low = Apply(@, [special |-> SpecialModes[w.name]])]
  <2>1. Step(p, w) =
          CASE w.name = "" -> positional
            [] w.name \in DOMAIN SpecialModes ->
                 IF w.value # "none" THEN Fails(p) ELSE special
            [] w.name \in Names \ DOMAIN SpecialModes -> Match(p, Find[w.name], w)
            [] OTHER -> Fails(p)
    BY <1>3 DEF Step
  <2>2. \/ Step(p, w) = Fails(p)
        \/ Step(p, w) = positional
        \/ Step(p, w) = special /\ w.name \in DOMAIN SpecialModes
        \/ Step(p, w) = Match(p, Find[w.name], w) /\ w.name \in Names
    <3> HIDE DEF positional, special
    <3> QED BY <2>1
  <2>3. ParserTyped(positional) /\ positional.low.special = p.low.special
    <3>1. positional = [low |-> Apply(p.low, [positional |-> <<w.value>>]),
                        awaits |-> p.awaits, failed |-> p.failed]
      BY DEF ParserTyped
    <3>2. /\ LowTyped(Apply(p.low, [positional |-> <<w.value>>]))
          /\ Apply(p.low, [positional |-> <<w.value>>]).special = p.low.special
      BY ApplyKeepsTypes DEF ParserTyped
    <3> QED BY <3>1, <3>2 DEF ParserTyped
  <2>4. ParserTyped(special)
    <3>1. special = [low |-> Apply(p.low, [special |-> SpecialModes[w.name]]),
                     awaits |-> p.awaits, failed |-> p.failed]
      BY DEF ParserTyped
    <3>2. LowTyped(Apply(p.low, [special |-> SpecialModes[w.name]]))
      BY ApplyKeepsTypes DEF ParserTyped
    <3> QED BY <3>1, <3>2 DEF ParserTyped
  <2> HIDE DEF positional, special
  <2> QED BY <1>3, <2>2, <2>3, <2>4, FailsKeepsTypes, MatchKeepsTypes DEF AsksSpecial
<1> QED BY <1>1, <1>2, <1>3 DEF ParserTyped

LEMMA FreshIsTyped == ParserTyped(Fresh) /\ Fresh.low.special = "unset"
<1>1. LowTyped(LowArgs) /\ LowArgs.special = "unset"
  <2>1. LowArgs.patterns = <<>> /\ LowArgs.mode = "Standard" /\ LowArgs.unrestricted = 0
        /\ LowArgs.special = "unset"
    BY DEF LowArgs
  <2>2. LowArgs = [f \in DOMAIN LowArgs |-> LowArgs[f]]
    BY DEF LowArgs
  <2>3. <<>> \in Seq(Sources) /\ "Standard" \in Modes /\ 0 \in 0 .. 3
    BY DEF Modes, SearchModes
  <2> QED BY <2>1, <2>2, <2>3 DEF LowTyped
<1>2. Fresh = [low |-> LowArgs, awaits |-> "none", failed |-> FALSE]
  BY DEF Fresh
<1> QED BY <1>1, <1>2 DEF ParserTyped

-----------------------------------------------------------------------------
(***************************************************************************)
(* The parser over all words.                                              *)
(***************************************************************************)

\* The recursion that Parse unfolds to: a set of words is parsed by parsing
\* those before its last one first.
Folded(words, n) ==
    CHOOSE iter : iter =
        [s \in SUBSET (1 .. n) |->
            IF s = {} THEN Fresh ELSE Step(iter[s \ {Max(s)}], words[Max(s)])]

LEMMA FoldedIsDefined ==
    ASSUME NEW words, NEW n \in Nat
    PROVE  Folded(words, n) =
             [s \in SUBSET (1 .. n) |->
                 IF s = {} THEN Fresh ELSE Step(Folded(words, n)[s \ {Max(s)}], words[Max(s)])]
<1> DEFINE Fits(g, k) == g =
        [s \in SUBSET (1 .. k) |->
            IF s = {} THEN Fresh ELSE Step(g[s \ {Max(s)}], words[Max(s)])]
      Missing == {k \in Nat : \A g : ~Fits(g, k)}
<1>1. ASSUME Missing # {} PROVE FALSE
  <2> HIDE DEF Fits
  <2>1. PICK k \in Missing : \A m \in Missing : k <= m
    BY <1>1, LeastNumber
  <2> USE DEF Fits
  <2>2. CASE k = 0
    <3> DEFINE g == [s \in SUBSET (1 .. 0) |-> Fresh]
    <3>1. \A s \in SUBSET (1 .. 0) : s = {}
      OBVIOUS
    <3>2. g = [s \in SUBSET (1 .. 0) |->
                 IF s = {} THEN Fresh ELSE Step(g[s \ {Max(s)}], words[Max(s)])]
      BY <3>1
    <3>3. Fits(g, 0)
      BY <3>2
    <3> QED BY <2>1, <2>2, <3>3
  <2>3. CASE k # 0
    <3> HIDE DEF Fits
    <3>1. k \in Nat /\ k - 1 \in Nat /\ k - 1 \notin Missing
      BY <2>1, <2>3
    <3>2. PICK h : Fits(h, k - 1)
      BY <3>1
    <3> USE DEF Fits
    <3> DEFINE g == [s \in SUBSET (1 .. k) |->
                        IF k \in s THEN Step(h[s \ {k}], words[k]) ELSE h[s]]
    <3>3. ASSUME NEW s \in SUBSET (1 .. k), k \in s
          PROVE  g[s] = Step(g[s \ {Max(s)}], words[Max(s)])
      <4>1. Max(s) = k
        BY <3>1, <3>3, MaxIs
      <4>2. s \ {k} \in SUBSET (1 .. k) /\ k \notin s \ {k}
        BY <3>3
      <4> QED BY <3>3, <4>1, <4>2
    <3>4. ASSUME NEW s \in SUBSET (1 .. k), k \notin s, s # {}
          PROVE  g[s] = Step(g[s \ {Max(s)}], words[Max(s)])
      <4>1. s \in SUBSET (1 .. k - 1)
        BY <3>1, <3>4
      <4>2. s \ {Max(s)} \in SUBSET (1 .. k) /\ k \notin s \ {Max(s)}
        BY <3>4
      <4>3. h[s] = Step(h[s \ {Max(s)}], words[Max(s)])
        BY <3>2, <3>4, <4>1
      <4> QED BY <3>4, <4>1, <4>2, <4>3
    <3>5. g[{}] = Fresh
      BY <3>1, <3>2
    <3>6. \A s \in SUBSET (1 .. k) :
             g[s] = IF s = {} THEN Fresh ELSE Step(g[s \ {Max(s)}], words[Max(s)])
      BY <3>3, <3>4, <3>5
    <3>7. Fits(g, k)
      BY <3>6
    <3> QED BY <2>1, <3>7
  <2> QED BY <2>2, <2>3
<1> HIDE DEF Fits
<1>2. \E g : Fits(g, n)
  BY <1>1
<1>3. Folded(words, n) = CHOOSE g : Fits(g, n)
  BY Zenon DEF Folded, Fits
<1>4. Fits(Folded(words, n), n)
  BY <1>2, <1>3
<1> QED BY <1>4 DEF Fits

\* The parser after k words.
After(words, k) == Folded(words, Len(words))[1 .. k]

\* Parse takes one word after the other.
LEMMA ParseUnfolds ==
    ASSUME NEW S, NEW words \in Seq(S)
    PROVE  /\ Parse(words) = After(words, Len(words))
           /\ After(words, 0) = Fresh
           /\ \A k \in 1 .. Len(words) :
                  After(words, k) = Step(After(words, k - 1), words[k])
<1> DEFINE n == Len(words)
<1>1. DOMAIN words = 1 .. n /\ n \in Nat
  OBVIOUS
<1>2. Parse(words) =
        (CHOOSE iter : iter =
            [s \in SUBSET (DOMAIN words) |->
                IF s = {} THEN Fresh
                ELSE Step(iter[s \ {Max(s)}], words[Max(s)])])[DOMAIN words]
  BY DEF Parse, FoldLeft, MapThenFoldSet
<1>3. Parse(words) = Folded(words, n)[1 .. n]
  BY <1>1, <1>2 DEF Folded
<1> HIDE DEF n
<1>4. \A s \in SUBSET (1 .. n) :
         Folded(words, n)[s] =
           IF s = {} THEN Fresh ELSE Step(Folded(words, n)[s \ {Max(s)}], words[Max(s)])
  BY <1>1, FoldedIsDefined
<1>5. 1 .. 0 = {} /\ {} \in SUBSET (1 .. n)
  OBVIOUS
<1>6. Folded(words, n)[1 .. 0] = Fresh
  BY <1>4, <1>5
<1>7. ASSUME NEW k \in 1 .. n
      PROVE  Folded(words, n)[1 .. k] = Step(Folded(words, n)[1 .. k - 1], words[k])
  <2>1. k \in 1 .. k /\ 1 .. k \in SUBSET Nat /\ 1 .. k \in SUBSET (1 .. n)
    BY <1>1
  <2>2. Max(1 .. k) = k
    BY <1>1, <2>1, MaxIs
  <2>3. k \in Nat \ {0}
    BY <1>1
  <2>4. (1 .. k) \ {k} = 1 .. k - 1
    BY <2>3
  <2>5. 1 .. k # {}
    BY <2>1
  <2> QED BY <1>4, <2>1, <2>2, <2>4, <2>5
<1> QED BY <1>3, <1>6, <1>7 DEF After, n

\* Parsing any words leaves the parser well typed, and without a word that asks
\* for a special mode there is none.
LEMMA ParseKeepsTypes ==
    ASSUME NEW S, NEW words \in Seq(S)
    PROVE  /\ ParserTyped(Parse(words))
           /\ (\A k \in 1 .. Len(words) : ~AsksSpecial(words[k]))
                => Parse(words).low.special = "unset"
<1> DEFINE n == Len(words)
           Fine(k) == /\ ParserTyped(After(words, k))
                      /\ (\A i \in 1 .. k : ~AsksSpecial(words[i]))
                           => After(words, k).low.special = "unset"
           Wrong == {k \in 0 .. n : ~Fine(k)}
<1>1. n \in Nat
  OBVIOUS
<1>2. Fine(0)
  BY ParseUnfolds, FreshIsTyped
<1>3. ASSUME NEW k \in 1 .. n, Fine(k - 1)
      PROVE  Fine(k)
  <2>1. After(words, k) = Step(After(words, k - 1), words[k])
    BY ParseUnfolds
  <2>2. 1 .. k - 1 \subseteq 1 .. k /\ k \in 1 .. k
    OBVIOUS
  <2> QED BY <1>3, <2>1, <2>2, StepKeepsTypes
<1> HIDE DEF Fine, n
<1>4. Wrong = {}
  <2>1. SUFFICES ASSUME Wrong # {} PROVE FALSE
    OBVIOUS
  <2>2. Wrong \subseteq Nat
    BY <1>1
  <2>3. PICK k \in Wrong : \A m \in Wrong : k <= m
    BY <2>1, <2>2, LeastNumber
  <2>4. k # 0 /\ k \in 0 .. n /\ ~Fine(k)
    BY <1>2, <2>3
  <2>5. k \in 1 .. n /\ k - 1 \in 0 .. n /\ k - 1 \notin Wrong
    BY <1>1, <2>3, <2>4
  <2> QED BY <1>3, <2>4, <2>5
<1>5. Fine(n)
  BY <1>1, <1>4
<1>6. Parse(words) = After(words, n)
  BY ParseUnfolds DEF n
<1> QED BY <1>5, <1>6 DEF Fine, n


-----------------------------------------------------------------------------
(***************************************************************************)
(* The sources of patterns.                                                *)
(***************************************************************************)

\* The recursion that PatternsOf unfolds to, in the same way.
Reading(sources, e, first, n) ==
    CHOOSE iter : iter =
        [s \in SUBSET (1 .. n) |->
            IF s = {} THEN first ELSE AddSource(iter[s \ {Max(s)}], sources[Max(s)], e)]

\* What is known after k sources.
ReadUpTo(sources, e, first, k) == Reading(sources, e, first, Len(sources))[1 .. k]

ReadAll(sources, e, first) ==
    FoldLeft(LAMBDA acc, source : AddSource(acc, source, e), first, sources)

\* Patterns::from_low_args takes one source after the other.
LEMMA SourcesAreReadInOrder ==
    ASSUME NEW S, NEW sources \in Seq(S), NEW e, NEW first
    PROVE  /\ ReadAll(sources, e, first) = ReadUpTo(sources, e, first, Len(sources))
           /\ ReadUpTo(sources, e, first, 0) = first
           /\ \A k \in 1 .. Len(sources) :
                  ReadUpTo(sources, e, first, k)
                    = AddSource(ReadUpTo(sources, e, first, k - 1), sources[k], e)
<1> DEFINE n == Len(sources)
<1>1. DOMAIN sources = 1 .. n /\ n \in Nat
  OBVIOUS
<1>2. ReadAll(sources, e, first) =
        (CHOOSE iter : iter =
            [s \in SUBSET (DOMAIN sources) |->
                IF s = {} THEN first
                ELSE AddSource(iter[s \ {Max(s)}], sources[Max(s)], e)])[DOMAIN sources]
  BY DEF ReadAll, FoldLeft, MapThenFoldSet
<1>3. ReadAll(sources, e, first) = Reading(sources, e, first, n)[1 .. n]
  BY <1>1, <1>2 DEF Reading
<1> HIDE DEF n
<1> DEFINE Fits(g, k) == g =
        [s \in SUBSET (1 .. k) |->
            IF s = {} THEN first ELSE AddSource(g[s \ {Max(s)}], sources[Max(s)], e)]
      Missing == {k \in Nat : \A g : ~Fits(g, k)}
<1>4. ASSUME Missing # {} PROVE FALSE
  <2> HIDE DEF Fits
  <2>1. PICK k \in Missing : \A m \in Missing : k <= m
    BY <1>4, LeastNumber
  <2> USE DEF Fits
  <2>2. CASE k = 0
    <3> DEFINE g == [s \in SUBSET (1 .. 0) |-> first]
    <3>1. \A s \in SUBSET (1 .. 0) : s = {}
      OBVIOUS
    <3>2. g = [s \in SUBSET (1 .. 0) |->
                 IF s = {} THEN first ELSE AddSource(g[s \ {Max(s)}], sources[Max(s)], e)]
      BY <3>1
    <3>3. Fits(g, 0)
      BY <3>2
    <3> QED BY <2>1, <2>2, <3>3
  <2>3. CASE k # 0
    <3> HIDE DEF Fits
    <3>1. k \in Nat /\ k - 1 \in Nat /\ k - 1 \notin Missing
      BY <2>1, <2>3
    <3>2. PICK h : Fits(h, k - 1)
      BY <3>1
    <3> USE DEF Fits
    <3> DEFINE g == [s \in SUBSET (1 .. k) |->
                        IF k \in s THEN AddSource(h[s \ {k}], sources[k], e) ELSE h[s]]
    <3>3. ASSUME NEW s \in SUBSET (1 .. k), k \in s
          PROVE  g[s] = AddSource(g[s \ {Max(s)}], sources[Max(s)], e)
      <4>1. Max(s) = k
        BY <3>1, <3>3, MaxIs
      <4>2. s \ {k} \in SUBSET (1 .. k) /\ k \notin s \ {k}
        BY <3>3
      <4> QED BY <3>3, <4>1, <4>2
    <3>4. ASSUME NEW s \in SUBSET (1 .. k), k \notin s, s # {}
          PROVE  g[s] = AddSource(g[s \ {Max(s)}], sources[Max(s)], e)
      <4>1. s \in SUBSET (1 .. k - 1)
        BY <3>1, <3>4
      <4>2. s \ {Max(s)} \in SUBSET (1 .. k) /\ k \notin s \ {Max(s)}
        BY <3>4
      <4>3. h[s] = AddSource(h[s \ {Max(s)}], sources[Max(s)], e)
        BY <3>2, <3>4, <4>1
      <4> QED BY <3>4, <4>1, <4>2, <4>3
    <3>5. g[{}] = first
      BY <3>1, <3>2
    <3>6. \A s \in SUBSET (1 .. k) :
             g[s] = IF s = {} THEN first ELSE AddSource(g[s \ {Max(s)}], sources[Max(s)], e)
      BY <3>3, <3>4, <3>5
    <3>7. Fits(g, k)
      BY <3>6
    <3> QED BY <2>1, <3>7
  <2> QED BY <2>2, <2>3
<1> HIDE DEF Fits
<1>5. \E g : Fits(g, n)
  BY <1>1, <1>4
<1>6. Reading(sources, e, first, n) = CHOOSE g : Fits(g, n)
  BY Zenon DEF Reading, Fits
<1>7. Fits(Reading(sources, e, first, n), n)
  BY <1>5, <1>6
<1>8. ASSUME NEW s \in SUBSET (1 .. n)
      PROVE  Reading(sources, e, first, n)[s] =
               IF s = {} THEN first
               ELSE AddSource(Reading(sources, e, first, n)[s \ {Max(s)}],
                              sources[Max(s)], e)
  BY <1>7 DEF Fits
<1>9. 1 .. 0 = {} /\ {} \in SUBSET (1 .. n)
  OBVIOUS
<1>10. Reading(sources, e, first, n)[1 .. 0] = first
  BY <1>8, <1>9
<1>11. ASSUME NEW k \in 1 .. n
      PROVE  Reading(sources, e, first, n)[1 .. k]
               = AddSource(Reading(sources, e, first, n)[1 .. k - 1], sources[k], e)
  <2>1. k \in 1 .. k /\ 1 .. k \in SUBSET Nat /\ 1 .. k \in SUBSET (1 .. n)
    BY <1>1
  <2>2. Max(1 .. k) = k
    BY <1>1, <2>1, MaxIs
  <2>3. k \in Nat \ {0}
    BY <1>1
  <2>4. (1 .. k) \ {k} = 1 .. k - 1
    BY <2>3
  <2>5. 1 .. k # {}
    BY <2>1
  <2> QED BY <1>8, <2>1, <2>2, <2>4, <2>5
<1> QED BY <1>3, <1>10, <1>11 DEF ReadUpTo, n

AccTyped(acc) ==
    /\ acc = [patterns |-> acc.patterns, consumed |-> acc.consumed,
              bad |-> acc.bad, paths |-> acc.paths]
    /\ acc.consumed \in BOOLEAN /\ acc.bad \in BOOLEAN

Stdin == <<"file", "-">>

Unreadable(source) ==
    /\ source[1] # "regexp" /\ source # Stdin
    /\ ~(source[1] = "file" /\ source[2] \in DOMAIN Readable)

\* The records that a source leaves behind.
LEMMA AddAdds ==
    ASSUME NEW acc, AccTyped(acc), NEW texts
    PROVE  \E added : Add(acc, texts) = [patterns |-> added, consumed |-> acc.consumed,
                                        bad |-> acc.bad, paths |-> acc.paths]
<1> DEFINE added == acc.patterns \o SelectSeq(texts, LAMBDA t : t \notin ToSet(acc.patterns))
<1>1. Add(acc, texts) = [acc EXCEPT !.patterns = added]
  BY Zenon DEF Add
<1> HIDE DEF added
<1>2. [acc EXCEPT !.patterns = added] =
        [patterns |-> added, consumed |-> acc.consumed, bad |-> acc.bad, paths |-> acc.paths]
  BY DEF AccTyped
<1> QED BY <1>1, <1>2

\* One source: standard input may be read once, what cannot be read is an
\* error, and none of it depends on what standard input holds.
LEMMA OneSource ==
    ASSUME NEW acc, AccTyped(acc), NEW source, NEW e
    PROVE  LET next == AddSource(acc, source, e)
           IN  /\ AccTyped(next) /\ next.paths = acc.paths
               /\ next.consumed <=> acc.consumed \/ source = Stdin
               /\ next.bad <=> acc.bad \/ (source = Stdin /\ acc.consumed) \/ Unreadable(source)
<1> DEFINE next == AddSource(acc, source, e)
           With(texts, yes) == [patterns |-> texts, consumed |-> yes,
                                bad |-> acc.bad, paths |-> acc.paths]
           failing == [patterns |-> acc.patterns, consumed |-> acc.consumed,
                       bad |-> TRUE, paths |-> acc.paths]
<1>1. [acc EXCEPT !.bad = TRUE] = failing
  <2>1. \A x : [acc EXCEPT !.bad = x] =
                  [patterns |-> acc.patterns, consumed |-> acc.consumed,
                   bad |-> x, paths |-> acc.paths]
    BY DEF AccTyped
  <2> QED BY <2>1
<1>2. ASSUME source # Stdin, NEW texts, next = Add(acc, texts), ~Unreadable(source)
      PROVE  /\ AccTyped(next) /\ next.paths = acc.paths
             /\ next.consumed <=> acc.consumed
             /\ next.bad <=> acc.bad
  <2>1. PICK added : next = With(added, acc.consumed)
    BY <1>2, AddAdds
  <2> HIDE DEF next
  <2> QED BY <2>1 DEF AccTyped
<1>3. CASE source[1] = "regexp"
  <2>1. source # Stdin /\ ~Unreadable(source)
    BY <1>3 DEF Stdin, Unreadable
  <2>2. next = Add(acc, <<source[2]>>)
    BY <1>3, <2>1 DEF AddSource, Stdin
  <2> QED BY <1>2, <2>1, <2>2
<1>4. CASE source = Stdin
  <2>1. source[1] = "file" /\ ~Unreadable(source)
    BY <1>4 DEF Stdin, Unreadable
  <2>2. next = IF acc.consumed THEN [acc EXCEPT !.bad = TRUE]
               ELSE [Add(acc, Piped(e)) EXCEPT !.consumed = TRUE]
    <3>1. source = <<"file", "-">> /\ source[1] # "regexp" /\ source[2] \notin DOMAIN Readable
      BY <1>4 DEF Stdin, Readable
    <3> QED BY <3>1 DEF AddSource
  <2>3. CASE acc.consumed
    <3>1. next = failing
      BY <1>1, <2>2, <2>3
    <3> HIDE DEF next
    <3> QED BY <1>4, <2>3, <3>1 DEF AccTyped, next
  <2>4. CASE ~acc.consumed
    <3>1. PICK added : Add(acc, Piped(e)) = With(added, acc.consumed)
      BY AddAdds
    <3>2. \A x : [With(added, acc.consumed) EXCEPT !.consumed = x] = With(added, x)
      OBVIOUS
    <3>3. next = With(added, TRUE)
      BY <2>2, <2>4, <3>1, <3>2
    <3> HIDE DEF next
    <3> QED BY <1>4, <2>1, <2>4, <3>3 DEF AccTyped, next
  <2> QED BY <2>3, <2>4
<1>5. CASE source[1] = "file" /\ source[2] \in DOMAIN Readable /\ source # Stdin
  <2>1. next = Add(acc, Readable[source[2]]) /\ ~Unreadable(source)
    BY <1>5 DEF AddSource, Stdin, Unreadable
  <2> QED BY <1>2, <1>5, <2>1
<1>6. CASE Unreadable(source)
  <2>1. next = failing
    BY <1>1, <1>6 DEF AddSource, Unreadable, Stdin
  <2> HIDE DEF next
  <2> QED BY <1>6, <2>1 DEF AccTyped, Unreadable, next
<1> QED BY <1>3, <1>4, <1>5, <1>6 DEF Unreadable

ReadTwice(sources, k) ==
    \E i, j \in 1 .. k : i # j /\ sources[i] = Stdin /\ sources[j] = Stdin

\* All sources: standard input has been read when one of them names it, and it
\* is an error to name it twice, or what cannot be read.
LEMMA AllSources ==
    ASSUME NEW S, NEW sources \in Seq(S), NEW e,
           NEW first, AccTyped(first), ~first.consumed, ~first.bad
    PROVE  LET last == ReadAll(sources, e, first)
               n == Len(sources)
           IN  /\ AccTyped(last) /\ last.paths = first.paths
               /\ last.consumed <=> \E i \in 1 .. n : sources[i] = Stdin
               /\ last.bad <=> \/ ReadTwice(sources, n)
                               \/ \E i \in 1 .. n : Unreadable(sources[i])
<1> DEFINE n == Len(sources)
           acc(k) == ReadUpTo(sources, e, first, k)
           Fine(k) ==
             /\ AccTyped(acc(k)) /\ acc(k).paths = first.paths
             /\ acc(k).consumed <=> \E i \in 1 .. k : sources[i] = Stdin
             /\ acc(k).bad <=> \/ ReadTwice(sources, k)
                               \/ \E i \in 1 .. k : Unreadable(sources[i])
           Wrong == {k \in 0 .. n : ~Fine(k)}
<1>1. n \in Nat
  OBVIOUS
<1>2. Fine(0)
  <2>1. acc(0) = first
    BY SourcesAreReadInOrder
  <2> HIDE DEF acc
  <2> QED BY <2>1 DEF ReadTwice
<1>3. ASSUME NEW k \in 1 .. n, Fine(k - 1)
      PROVE  Fine(k)
  <2>1. acc(k) = AddSource(acc(k - 1), sources[k], e)
    BY SourcesAreReadInOrder
  <2> HIDE DEF acc
  <2>2. \A i : i \in 1 .. k <=> i \in 1 .. k - 1 \/ i = k
    BY <1>1
  <2>3. AccTyped(acc(k - 1))
    BY <1>3
  <2>4. /\ AccTyped(acc(k)) /\ acc(k).paths = acc(k - 1).paths
        /\ acc(k).consumed <=> acc(k - 1).consumed \/ sources[k] = Stdin
        /\ acc(k).bad <=> \/ acc(k - 1).bad
                          \/ sources[k] = Stdin /\ acc(k - 1).consumed
                          \/ Unreadable(sources[k])
    BY <2>1, <2>3, OneSource
  <2>5. acc(k).consumed <=> \E i \in 1 .. k : sources[i] = Stdin
    BY <1>3, <2>2, <2>4
  <2>6. ReadTwice(sources, k)
          <=> ReadTwice(sources, k - 1) \/ (sources[k] = Stdin /\ acc(k - 1).consumed)
    <3>1. k \notin 1 .. k - 1
      OBVIOUS
    <3> QED BY <1>3, <2>2, <3>1 DEF ReadTwice
  <2>7. acc(k).bad <=> ReadTwice(sources, k) \/ \E i \in 1 .. k : Unreadable(sources[i])
    BY <1>3, <2>2, <2>4, <2>6
  <2> QED BY <1>3, <2>4, <2>5, <2>7
<1> HIDE DEF Fine, n
<1>4. Wrong = {}
  <2>1. SUFFICES ASSUME Wrong # {} PROVE FALSE
    OBVIOUS
  <2>2. Wrong \subseteq Nat
    BY <1>1
  <2>3. PICK k \in Wrong : \A m \in Wrong : k <= m
    BY <2>1, <2>2, LeastNumber
  <2>4. k # 0 /\ k \in 0 .. n /\ ~Fine(k)
    BY <1>2, <2>3
  <2>5. k \in 1 .. n /\ k - 1 \in 0 .. n /\ k - 1 \notin Wrong
    BY <1>1, <2>3, <2>4
  <2> QED BY <1>3, <2>4, <2>5
<1>5. Fine(n)
  BY <1>1, <1>4
<1>6. ReadAll(sources, e, first) = acc(n)
  BY SourcesAreReadInOrder DEF n
<1> QED BY <1>5, <1>6 DEF Fine, n

Named(low) == \E i \in DOMAIN low.patterns : low.patterns[i] = Stdin

\* What standard input holds decides on the patterns and on nothing else, and
\* naming it twice among the sources of a search is an error.
LEMMA PatternsAreFound ==
    ASSUME NEW low, LowTyped(low), NEW mode, NEW e, NEW other
    PROVE  LET found == PatternsOf(low, mode, e)
               again == PatternsOf(low, mode, other)
           IN  /\ found.paths = again.paths
               /\ found.consumed <=> again.consumed
               /\ found.bad <=> again.bad
               /\ mode \in SearchModes /\ low.patterns # <<>> =>
                    /\ found.consumed <=> Named(low)
                    /\ ~found.bad => ~ReadTwice(low.patterns, Len(low.patterns))
<1> DEFINE none == [patterns |-> <<>>, consumed |-> FALSE, bad |-> FALSE,
                    paths |-> low.positional]
<1>1. CASE mode \notin SearchModes
  <2>1. \A env1 : PatternsOf(low, mode, env1) = none
    BY <1>1, Zenon DEF PatternsOf
  <2> QED BY <1>1, <2>1
<1>2. CASE mode \in SearchModes /\ low.patterns # <<>>
  <2>1. \A env1 : PatternsOf(low, mode, env1) = ReadAll(low.patterns, env1, none)
    BY <1>2, Zenon DEF PatternsOf, ReadAll
  <2>2. low.patterns \in Seq(Sources)
    BY DEF LowTyped
  <2>3. AccTyped(none) /\ ~none.consumed /\ ~none.bad
    BY DEF AccTyped
  <2> HIDE DEF none
  <2> DEFINE n == Len(low.patterns)
  <2>4. DOMAIN low.patterns = 1 .. n
    BY <2>2
  <2>5. ASSUME NEW env1
        PROVE  /\ PatternsOf(low, mode, env1).paths = none.paths
               /\ PatternsOf(low, mode, env1).consumed <=> Named(low)
               /\ PatternsOf(low, mode, env1).bad
                    <=> \/ ReadTwice(low.patterns, n)
                        \/ \E i \in 1 .. n : Unreadable(low.patterns[i])
    BY <2>1, <2>2, <2>3, <2>4, AllSources DEF Named
  <2> QED BY <2>5
<1>3. CASE mode \in SearchModes /\ low.patterns = <<>>
  <2>1. PatternsOf(low, mode, e) = PatternsOf(low, mode, other)
    BY <1>3, Zenon DEF PatternsOf
  <2> QED BY <1>3, <2>1
<1> QED BY <1>1, <1>2, <1>3

-----------------------------------------------------------------------------
(***************************************************************************)
(* The high level arguments.                                               *)
(***************************************************************************)

\* What is found among the patterns, and what becomes of the paths.
FoundIn(low, e) == PatternsOf(low, ModeOf(low), e)
PathsIn(low, e) == PathsOf(low, ModeOf(low), FoundIn(low, e), e)

Converts(low, e) ==
    low.special = "unset" /\ ~FoundIn(low, e).bad /\ ~PathsIn(low, e).bad

\* The fields of the high level arguments that decide about anything below.
LEMMA HiArgsAre ==
    ASSUME NEW low, NEW e
    PROVE  LET h == HiArgs(low, e)
           IN  /\ h.result \in {"ok", "error", "panic"}
               /\ h.result = "ok" <=> Converts(low, e)
               /\ h.result = "panic" <=> low.special # "unset"
               /\ h.result = "ok" =>
                    /\ h.low = low /\ h.mode = ModeOf(low) /\ h.globs = GlobsOf(low)
                    /\ h.patterns = FoundIn(low, e).patterns
                    /\ h.paths = PathsIn(low, e).paths
                    /\ h.binary = BinaryDetection(low)
                    /\ h.stats = HasStats(low, ModeOf(low))
                    /\ h.quit_after_match = QuitsAfterMatch(low, ModeOf(low))
                    /\ h.threads = ThreadsOf(low, PathsIn(low, e).oneFile)
<1>1. CASE low.special # "unset"
  <2>1. HiArgs(low, e) = [result |-> "panic"]
    BY <1>1, Zenon DEF HiArgs, Panics
  <2> QED BY <1>1, <2>1 DEF Converts
<1>2. CASE low.special = "unset" /\ (FoundIn(low, e).bad \/ PathsIn(low, e).bad)
  <2>1. HiArgs(low, e) = [result |-> "error"]
    BY <1>2, Zenon DEF HiArgs, Bad, FoundIn, PathsIn
  <2> QED BY <1>2, <2>1 DEF Converts
<1>3. CASE Converts(low, e)
  <2>1. low.special = "unset" /\ ~(FoundIn(low, e).bad \/ PathsIn(low, e).bad)
    BY <1>3 DEF Converts
  <2> DEFINE h == HiArgs(low, e)
  <2>2. /\ h.result = "ok" /\ h.low = low /\ h.mode = ModeOf(low)
        /\ h.globs = GlobsOf(low) /\ h.patterns = FoundIn(low, e).patterns
        /\ h.paths = PathsIn(low, e).paths /\ h.binary = BinaryDetection(low)
        /\ h.stats = HasStats(low, ModeOf(low))
        /\ h.quit_after_match = QuitsAfterMatch(low, ModeOf(low))
        /\ h.threads = ThreadsOf(low, PathsIn(low, e).oneFile)
    BY <2>1 DEF HiArgs, FoundIn, PathsIn
  <2> QED BY <1>3, <2>1, <2>2
<1> QED BY <1>1, <1>2, <1>3 DEF Converts

Ran == {"suite", "indexed", "scan", "nothing", "files", "types", "generate"}

LEMMA DispatchIsTyped ==
    ASSUME NEW h
    PROVE  Dispatch(h) \in Ran \cup {"error"}
<1>1. Request(h) \in Ran \cup {"error"}
  BY DEF Request, Ran
<1> QED BY <1>1 DEF Dispatch, Ran

-----------------------------------------------------------------------------
(***************************************************************************)
(* The invariant: what is known at each stage.                             *)
(***************************************************************************)

ArgsInvariant ==
    /\ theme \in Themes /\ rc \in Seq(theme) /\ line \in Seq(theme)
    /\ ParserTyped(parser)
    /\ stage \in {"cli", "low", "hi", "done"}
    /\ outcome \in Ran \cup {"none", "error", "panic", "special"}
    /\ stage \in {"cli", "low"} => hi = Bad
    /\ stage # "done" => outcome = "none"
    /\ stage = "hi" => hi.result = "ok"
    /\ hi = Bad \/ hi = HiArgs(parser.low, env)
    /\ outcome \in Ran => hi.result = "ok" /\ outcome = Dispatch(hi)

THEOREM ArgsInvariantHolds == Spec => []ArgsInvariant
<1>1. Init => ArgsInvariant
  <2> SUFFICES ASSUME Init PROVE ArgsInvariant
    OBVIOUS
  <2>1. theme \in Themes /\ rc \in Seq(theme) /\ line \in Seq(theme)
    <3>1. rc = <<>> \/ \E w \in theme : rc = <<w>>
      BY DEF Init
    <3>2. ASSUME NEW w \in theme
          PROVE  <<w>> \in Seq(theme)
      OBVIOUS
    <3>3. theme \in Themes /\ line = <<>>
      BY DEF Init
    <3>4. <<>> \in Seq(theme)
      OBVIOUS
    <3>5. rc \in Seq(theme)
      BY <3>1, <3>2, <3>4
    <3> QED BY <3>3, <3>4, <3>5
  <2>2. ParserTyped(parser)
    BY FreshIsTyped DEF Init
  <2> QED BY <2>1, <2>2 DEF Init, ArgsInvariant, Ran
<1>2. ArgsInvariant /\ [Next]_vars => ArgsInvariant'
  <2> SUFFICES ASSUME ArgsInvariant, [Next]_vars PROVE ArgsInvariant'
    OBVIOUS
  <2> USE DEF ArgsInvariant
  <2>1. ASSUME NEW w \in theme, Word(w) PROVE ArgsInvariant'
    <3>1. line' \in Seq(theme)' /\ ParserTyped(parser')
      BY <2>1, StepKeepsTypes DEF Word
    <3> QED BY <2>1, <3>1 DEF Word, Bad, Ran
  <2>2. CASE BadArguments
    BY <2>2 DEF BadArguments, Ends, Ran
  <2>3. CASE ShortCircuit
    BY <2>3 DEF ShortCircuit, Ends, Ran
  <2>4. CASE SkipConfig
    BY <2>4 DEF SkipConfig
  <2>5. CASE ReadConfig
    <3>1. ParserTyped(parser')
      <4>1. rc \o line \in Seq(theme)
        OBVIOUS
      <4> QED BY <2>5, <4>1, ParseKeepsTypes DEF ReadConfig
    <3>2. \/ stage' = "done" /\ outcome' = "error"
          \/ stage' = "low" /\ outcome' = outcome
      BY <2>5 DEF ReadConfig, Ends
    <3> QED BY <2>5, <3>1, <3>2 DEF ReadConfig, Ran
  <2>6. CASE Convert
    <3>1. hi' = HiArgs(parser.low, env) /\ hi'.result \in {"ok", "error", "panic"}
      BY <2>6, HiArgsAre DEF Convert
    <3>2. \/ hi'.result = "ok" /\ stage' = "hi" /\ outcome' = outcome
          \/ hi'.result # "ok" /\ stage' = "done" /\ outcome' = hi'.result
      BY <2>6 DEF Convert, Ends
    <3> QED BY <2>6, <3>1, <3>2 DEF Convert, Ran
  <2>7. CASE Run
    <3>1. /\ stage' = "done" /\ hi.result = "ok"
          /\ outcome' = Dispatch(hi) \/ outcome' = "panic"
      BY <2>7 DEF Run, Ends
    <3> QED BY <2>7, <3>1, DispatchIsTyped DEF Run, Ran
  <2>8. CASE UNCHANGED vars
    BY <2>8 DEF vars
  <2> QED BY <2>1, <2>2, <2>3, <2>4, <2>5, <2>6, <2>7, <2>8 DEF Next
<1> QED BY <1>1, <1>2, PTL DEF Spec

\* The arguments keep their fields and modes, and the process is at one of its
\* stages.
THEOREM TypesHold == Spec => []TypeOK
<1>1. ArgsInvariant => TypeOK
  <2> SUFFICES ASSUME ArgsInvariant PROVE TypeOK
    OBVIOUS
  <2> USE DEF ArgsInvariant
  <2>1. ToSet(rc) \subseteq theme /\ ToSet(line) \subseteq theme
    BY DEF ToSet
  <2>2. /\ DOMAIN parser.low = DOMAIN LowArgs
        /\ parser.low.mode \in Modes /\ parser.low.unrestricted \in 0 .. 3
        /\ parser.awaits \in DOMAIN FLAGS \cup {"none"} /\ parser.failed \in BOOLEAN
    BY DEF ParserTyped, LowTyped
  <2>3. hi.result \in {"ok", "error", "panic"}
    BY HiArgsAre DEF Bad
  <2> QED BY <2>1, <2>2, <2>3 DEF TypeOK, Ran
<1> QED BY <1>1, ArgsInvariantHolds, PTL

-----------------------------------------------------------------------------
(***************************************************************************)
(* The properties.                                                         *)
(***************************************************************************)

\* What a walk yields is read off the fingerprint: no field of the low level
\* arguments, and no glob, reaches the filters without reaching the hash.
LEMMA FiltersAreFingerprinted ==
    ASSUME NEW one, NEW other, Fingerprint(one) = Fingerprint(other)
    PROVE  Filters(one) = Filters(other)
<1>1. /\ one.low.follow = other.low.follow
      /\ one.globs = other.globs
      /\ one.low.hidden = other.low.hidden
      /\ one.low.ignore_file_case_insensitive = other.low.ignore_file_case_insensitive
      /\ one.low.ignore_file = other.low.ignore_file
      /\ one.low.max_depth = other.low.max_depth
      /\ one.low.max_filesize = other.low.max_filesize
      /\ one.low.no_ignore_dot = other.low.no_ignore_dot
      /\ one.low.no_ignore_exclude = other.low.no_ignore_exclude
      /\ one.low.no_ignore_files = other.low.no_ignore_files
      /\ one.low.no_ignore_global = other.low.no_ignore_global
      /\ one.low.no_ignore_parent = other.low.no_ignore_parent
      /\ one.low.no_ignore_vcs = other.low.no_ignore_vcs
      /\ one.low.no_require_git = other.low.no_require_git
      /\ one.low.one_file_system = other.low.one_file_system
      /\ one.low.sort = other.low.sort
      /\ one.low.type_changes = other.low.type_changes
  BY DEF Fingerprint
<1> QED BY <1>1 DEF Filters

\* A word that changes which files a walk yields changes the fingerprint that
\* decides whether an index may answer (compute_index_walk_fingerprint).
THEOREM FingerprintsCoverWalks == Spec => FingerprintCoversWalk
<1>1. [Filters(WalkArgs(parser.low)) # Filters(WalkArgs(parser.low'))
         => Fingerprint(WalkArgs(parser.low)) # Fingerprint(WalkArgs(parser.low'))]_vars
  BY FiltersAreFingerprinted
<1> QED BY <1>1, PTL DEF FingerprintCoversWalk

\* What request.rs lets through to the index.
LEMMA IndexedIsRequested ==
    ASSUME NEW h, Dispatch(h) = "indexed"
    PROVE  /\ h.mode \in SearchModes /\ h.low.index_use
           /\ ~Unsupported(h) /\ ~SearchesStdin(h) /\ MatchesPossible(h)
           /\ h.low.index_bench => h.patterns # <<>>
<1> DEFINE suite    == h.low.index_bench /\ h.mode \in SearchModes /\ h.patterns = <<>>
           requests == \/ h.low.index_bench /\ ~(h.mode \in SearchModes /\ h.patterns = <<>>)
                       \/ h.mode \in SearchModes /\ h.low.index_use /\ ~h.low.index_bench
           scans    == ~h.low.index_bench /\ h.mode \in SearchModes /\ ~h.low.index_use
           files    == ~h.low.index_bench /\ h.mode = "Files"
           types    == ~h.low.index_bench /\ h.mode = "Types"
<1>1. Dispatch(h) = CASE suite -> "suite"
                      [] requests -> Request(h)
                      [] scans -> IF MatchesPossible(h) THEN "scan" ELSE "nothing"
                      [] files -> "files"
                      [] types -> "types"
                      [] OTHER -> "generate"
  BY Zenon DEF Dispatch
<1>2. /\ ~(suite /\ requests) /\ ~(suite /\ scans) /\ ~(requests /\ scans)
      /\ ~(requests /\ files) /\ ~(requests /\ types)
  BY DEF SearchModes
<1>3. h.low.index_bench => suite \/ requests
  OBVIOUS
<1>4. requests /\ h.low.index_bench => h.patterns # <<>> \/ h.mode \notin SearchModes
  OBVIOUS
<1> HIDE DEF suite, requests, scans, files, types
<1>5. requests /\ Request(h) = "indexed"
  BY <1>1, <1>2
<1>6. /\ h.mode \in SearchModes /\ h.low.index_use
      /\ ~Unsupported(h) /\ ~SearchesStdin(h) /\ MatchesPossible(h)
  BY <1>5 DEF Request
<1> QED BY <1>4, <1>5, <1>6

\* What goes to the index means the same to the plan and to the matcher
\* (unsupported_reason, indexed_pattern, matcher_rust).
THEOREM IndexedIsPlannable == Spec => []IndexedMeansPlannable
<1>1. ArgsInvariant => IndexedMeansPlannable
  <2> SUFFICES ASSUME ArgsInvariant, outcome = "indexed"
               PROVE  /\ IndexedPattern(hi) = Matcher(hi)
                      /\ hi.patterns # <<>> /\ ~hi.low.invert_match /\ ~hi.low.context.passthru
                      /\ hi.low.pre = "unset" /\ ~hi.low.search_zip /\ hi.low.encoding # "utf-16"
                      /\ hi.binary = [explicit |-> "convert", implicit |-> "quit"]
                      /\ ~SearchesStdin(hi)
    BY DEF IndexedMeansPlannable
  <2>1. Dispatch(hi) = "indexed" /\ hi.result = "ok" /\ hi = HiArgs(parser.low, env)
    BY DEF ArgsInvariant, Ran, Bad
  <2>2. ~Unsupported(hi) /\ ~SearchesStdin(hi) /\ MatchesPossible(hi)
    BY <2>1, IndexedIsRequested
  <2>3. /\ ~hi.low.invert_match /\ ~hi.low.context.passthru
        /\ hi.low.encoding \in {"auto", "none"} /\ hi.low.pre = "unset"
        /\ ~hi.low.search_zip /\ ~hi.low.null_data /\ hi.low.binary = "Auto"
    BY <2>2 DEF Unsupported
  <2>4. hi.patterns # <<>>
    BY <2>2, <2>3 DEF MatchesPossible
  <2>5. hi.binary = BinaryDetection(hi.low)
    BY <2>1, HiArgsAre
  <2>6. BinaryDetection(hi.low) = [explicit |-> "convert", implicit |-> "quit"]
    BY <2>3 DEF BinaryDetection
  <2>7. IndexedPattern(hi) = Matcher(hi)
    BY <2>3 DEF IndexedPattern, Matcher
  <2> QED BY <2>2, <2>3, <2>4, <2>5, <2>6, <2>7
<1> QED BY <1>1, ArgsInvariantHolds, PTL

\* A search that stops at its first match prints neither lines nor statistics
\* (quit_after_match, HiArgs::printer).
THEOREM EarlyStopsAreInvisible == Spec => []EarlyStopIsInvisible
<1>1. ArgsInvariant => EarlyStopIsInvisible
  <2> SUFFICES ASSUME ArgsInvariant, outcome \in {"scan", "indexed"}, hi.quit_after_match
               PROVE  Printer(hi) \in {"QuietWithMatch", "QuietWithoutMatch"} /\ ~hi.stats
    BY DEF EarlyStopIsInvisible
  <2>1. hi.result = "ok" /\ hi = HiArgs(parser.low, env)
    BY DEF ArgsInvariant, Ran, Bad
  <2>2. /\ hi.low = parser.low /\ hi.mode = ModeOf(hi.low)
        /\ hi.stats = HasStats(hi.low, hi.mode)
        /\ hi.quit_after_match = QuitsAfterMatch(hi.low, hi.mode)
    BY <2>1, HiArgsAre
  <2>3. hi.low.quiet /\ ~hi.stats
    BY <2>2 DEF QuitsAfterMatch
  <2> QED BY <2>3 DEF Printer
<1> QED BY <1>1, ArgsInvariantHolds, PTL

\* Standard input is never both read for patterns and searched: PathsOf turns
\* that down, and what is searched without any path is the directory then.
LEMMA ConsumedIsNotSearched ==
    ASSUME NEW low, NEW e, Converts(low, e), FoundIn(low, e).consumed
    PROVE  "-" \notin ToSet(PathsIn(low, e).paths)
<1> DEFINE found == FoundIn(low, e)
           mode  == ModeOf(low)
           paths == PathsOf(low, mode, found, e)
<1>1. found.consumed /\ ~paths.bad
  BY DEF Converts, PathsIn
<1>2. /\ paths.bad <=> found.consumed /\ "-" \in ToSet(found.paths)
      /\ paths.paths = IF found.paths # <<>> THEN found.paths
                       ELSE IF \/ low.index_bench \/ ~e.stdin \/ found.consumed
                               \/ mode \notin SearchModes
                            THEN <<"./">> ELSE <<"-">>
  <2> HIDE DEF found, mode
  <2> QED BY DEF PathsOf
<1> HIDE DEF found, mode, paths
<1>3. "-" \notin ToSet(<<"./">>)
  BY DEF ToSet
<1>4. "-" \notin ToSet(paths.paths)
  BY <1>1, <1>2, <1>3
<1> QED BY <1>4 DEF paths, found, mode, PathsIn

\* What has two elements or more has two that differ.
LEMMA TwoOfThem ==
    ASSUME NEW S, Cardinality(S) > 1
    PROVE  \E i, j \in S : i # j
<1> SUFFICES ASSUME \A i, j \in S : i = j PROVE FALSE
  OBVIOUS
<1>1. S = {} \/ \E i \in S : S = {i}
  OBVIOUS
<1>2. Cardinality(S) = 0 \/ Cardinality(S) = 1
  BY <1>1, FS_EmptySet, FS_Singleton
<1> QED BY <1>2

\* Standard input is read for patterns once, or searched, and never both
\* (Patterns::from_low_args, Paths::from_low_args).
THEOREM StdinIsReadOnce == Spec => []StdinReadOnce
<1>1. ArgsInvariant => StdinReadOnce
  <2> SUFFICES ASSUME ArgsInvariant, hi.result = "ok", hi.mode \in SearchModes
               PROVE  /\ ~(Cardinality({i \in DOMAIN hi.low.patterns :
                                           hi.low.patterns[i] = Stdin}) > 1)
                      /\ Stdin \in ToSet(hi.low.patterns) => ~SearchesStdin(hi)
    BY DEF StdinReadOnce, Stdin
  <2> DEFINE low == parser.low
             n   == Len(low.patterns)
             named == {i \in DOMAIN low.patterns : low.patterns[i] = Stdin}
  <2>1. hi = HiArgs(low, env) /\ LowTyped(low)
    BY DEF ArgsInvariant, Bad, ParserTyped
  <2>2. /\ Converts(low, env) /\ hi.low = low /\ hi.mode = ModeOf(low)
        /\ hi.paths = PathsIn(low, env).paths
    BY <2>1, HiArgsAre
  <2>3. DOMAIN low.patterns = 1 .. n
    BY <2>1 DEF LowTyped
  <2>4. low.patterns # <<>> =>
          /\ FoundIn(low, env).consumed <=> Named(low)
          /\ ~FoundIn(low, env).bad => ~ReadTwice(low.patterns, n)
    BY <2>1, <2>2, PatternsAreFound DEF FoundIn
  <2>5. ~FoundIn(low, env).bad
    BY <2>2 DEF Converts
  <2>6. ASSUME Cardinality(named) > 1 PROVE FALSE
    <3>1. PICK i, j \in named : i # j
      BY <2>6, TwoOfThem
    <3>2. low.patterns # <<>> /\ ReadTwice(low.patterns, n)
      BY <2>3, <3>1 DEF ReadTwice
    <3> QED BY <2>4, <2>5, <3>2
  <2>7. ASSUME Stdin \in ToSet(low.patterns) PROVE "-" \notin ToSet(hi.paths)
    <3>1. low.patterns # <<>> /\ Named(low)
      BY <2>3, <2>7 DEF ToSet, Named
    <3> QED BY <2>2, <2>4, <3>1, ConsumedIsNotSearched
  <2> QED BY <2>2, <2>6, <2>7 DEF SearchesStdin
<1> QED BY <1>1, ArgsInvariantHolds, PTL

\* Where nothing but the environment differs, the same conversion succeeds and
\* the same paths are searched, unless standard input was to be searched.
LEMMA ChildSearchesTheSame ==
    ASSUME NEW low, LowTyped(low), NEW e, Converts(low, e),
           "-" \notin ToSet(PathsIn(low, e).paths)
    PROVE  /\ Converts(low, ChildEnv)
           /\ PathsIn(low, ChildEnv).paths = PathsIn(low, e).paths
<1> DEFINE mode     == ModeOf(low)
           found(f) == FoundIn(low, f)
           cwd(f)   == \/ low.index_bench \/ ~f.stdin \/ found(f).consumed
                       \/ mode \notin SearchModes
<1>1. /\ found(ChildEnv).paths = found(e).paths
      /\ found(ChildEnv).consumed <=> found(e).consumed
      /\ found(ChildEnv).bad <=> found(e).bad
  BY PatternsAreFound DEF FoundIn
<1> HIDE DEF mode, found
<1>2. ASSUME NEW f
      PROVE  /\ PathsIn(low, f).bad <=> found(f).consumed /\ "-" \in ToSet(found(f).paths)
             /\ found(f).paths # <<>> => PathsIn(low, f).paths = found(f).paths
             /\ found(f).paths = <<>> /\ cwd(f) => PathsIn(low, f).paths = <<"./">>
             /\ found(f).paths = <<>> /\ ~cwd(f) => PathsIn(low, f).paths = <<"-">>
  <2> DEFINE paths == PathsOf(low, mode, found(f), f)
  <2>1. PathsIn(low, f) = paths
    BY DEF PathsIn, mode, found
  <2>2. /\ paths.bad <=> found(f).consumed /\ "-" \in ToSet(found(f).paths)
        /\ paths.paths = IF found(f).paths # <<>> THEN found(f).paths
                         ELSE IF cwd(f) THEN <<"./">> ELSE <<"-">>
    BY DEF PathsOf
  <2> HIDE DEF paths, cwd
  <2> QED BY <2>1, <2>2
<1>3. cwd(ChildEnv)
  BY DEF ChildEnv
<1>4. "-" \in ToSet(<<"-">>)
  BY DEF ToSet
<1> HIDE DEF cwd
<1>5. PathsIn(low, ChildEnv).paths = PathsIn(low, e).paths
  BY <1>1, <1>2, <1>3, <1>4
<1>6. low.special = "unset" /\ ~found(e).bad /\ ~PathsIn(low, e).bad
  BY DEF Converts, found
<1>7. ~found(ChildEnv).bad /\ ~PathsIn(low, ChildEnv).bad
  BY <1>1, <1>2, <1>6
<1> QED BY <1>5, <1>6, <1>7 DEF Converts, found

\* A process that differs in the patterns alone asks for the index as well, or
\* has nothing to look for in it.
LEMMA SameRequestSameDispatch ==
    ASSUME NEW h, Dispatch(h) = "indexed",
           NEW child, child.low = h.low, child.mode = h.mode, child.paths = h.paths
    PROVE  Dispatch(child) \in {"indexed", "nothing", "suite"}
<1>1. /\ child.mode \in SearchModes /\ child.low.index_use
      /\ ~Unsupported(child) /\ ~SearchesStdin(child)
  <2>1. /\ h.mode \in SearchModes /\ h.low.index_use
        /\ ~Unsupported(h) /\ ~SearchesStdin(h)
    BY IndexedIsRequested
  <2>2. Unsupported(child) <=> Unsupported(h)
    BY DEF Unsupported
  <2>3. SearchesStdin(child) <=> SearchesStdin(h)
    BY DEF SearchesStdin
  <2> QED BY <2>1, <2>2, <2>3
<1>2. Request(child) \in {"indexed", "nothing"}
  <2>1. Request(child) = IF MatchesPossible(child) THEN "indexed" ELSE "nothing"
    BY <1>1 DEF Request
  <2> QED BY <2>1
<1>3. CASE child.low.index_bench /\ child.patterns = <<>>
  BY <1>1, <1>3 DEF Dispatch, SearchModes
<1>4. CASE child.low.index_bench /\ child.patterns # <<>>
  BY <1>1, <1>2, <1>4 DEF Dispatch, SearchModes
<1>5. CASE ~child.low.index_bench
  BY <1>1, <1>2, <1>5 DEF Dispatch, SearchModes
<1> QED BY <1>3, <1>4, <1>5

\* The rebuild child that the words of a query start builds an index that the
\* query may use (daemon/build.rs, compute_index_walk_fingerprint).
THEOREM RebuildsAgree == Spec => []RebuildAgrees
<1>1. ArgsInvariant => RebuildAgrees
  <2> DEFINE child == HiArgs(parser.low, ChildEnv)
  <2> SUFFICES ASSUME ArgsInvariant, outcome = "indexed"
               PROVE  /\ child.result = "ok"
                      /\ Fingerprint(child) = Fingerprint(hi)
                      /\ child.paths = hi.paths
                      /\ Dispatch(child) \in {"indexed", "nothing", "suite"}
    BY DEF RebuildAgrees
  <2> DEFINE low == parser.low
  <2>1. /\ hi.result = "ok" /\ hi = HiArgs(low, env) /\ Dispatch(hi) = "indexed"
        /\ LowTyped(low)
    BY DEF ArgsInvariant, Ran, Bad, ParserTyped
  <2>2. /\ Converts(low, env) /\ hi.low = low /\ hi.mode = ModeOf(low)
        /\ hi.globs = GlobsOf(low) /\ hi.paths = PathsIn(low, env).paths
    BY <2>1, HiArgsAre
  <2>3. "-" \notin ToSet(PathsIn(low, env).paths)
    BY <2>1, <2>2, IndexedIsRequested DEF SearchesStdin
  <2>4. /\ Converts(low, ChildEnv)
        /\ PathsIn(low, ChildEnv).paths = PathsIn(low, env).paths
    BY <2>1, <2>2, <2>3, ChildSearchesTheSame
  <2>5. /\ child.result = "ok" /\ child.low = low /\ child.mode = ModeOf(low)
        /\ child.globs = GlobsOf(low) /\ child.paths = PathsIn(low, ChildEnv).paths
    BY <2>4, HiArgsAre
  <2> HIDE DEF child, low
  <2>6. child.low = hi.low /\ child.mode = hi.mode /\ child.globs = hi.globs
        /\ child.paths = hi.paths
    BY <2>2, <2>4, <2>5
  <2>7. Fingerprint(child) = Fingerprint(hi)
    BY <2>6 DEF Fingerprint
  <2>8. Dispatch(child) \in {"indexed", "nothing", "suite"}
    BY <2>1, <2>6, SameRequestSameDispatch
  <2> QED BY <2>5, <2>6, <2>7, <2>8
<1> QED BY <1>1, ArgsInvariantHolds, PTL

-----------------------------------------------------------------------------
(***************************************************************************)
(* Special modes do not outlive the first parse.                           *)
(***************************************************************************)

\* What a word opens: a flag without its value waits for the next word.
Opens(w) ==
    /\ w.name # "" /\ w.name \in Names \ DOMAIN SpecialModes /\ w.value = "none"
    /\ w.name \notin FLAGS[Find[w.name]].negated
    /\ "on" \notin DOMAIN FLAGS[Find[w.name]].update

\* Whether the parser waits for a value after a word depends on the word alone.
LEMMA AwaitsMoves ==
    ASSUME NEW p, ParserTyped(p), ~p.failed, p.awaits = "none", NEW w
    PROVE  \/ Step(p, w).failed
           \/ Step(p, w).awaits = IF Opens(w) THEN Find[w.name] ELSE "none"
<1> DEFINE flag == Find[w.name]
           Keeping(low) == [low |-> low, awaits |-> p.awaits, failed |-> p.failed]
<1>1. \A x : [p EXCEPT !.low = x] = Keeping(x)
  BY DEF ParserTyped
<1>2. Fails(p).failed
  <2>1. Fails(p) = [p EXCEPT !.failed = TRUE]
    BY DEF Fails
  <2>2. Fails(p) = [low |-> p.low, awaits |-> p.awaits, failed |-> TRUE]
    BY <2>1 DEF ParserTyped
  <2> QED BY <2>2
<1>3. CASE w.name = ""
  <2>1. Step(p, w) = [p EXCEPT !.low = Apply(@, [positional |-> <<w.value>>])]
    BY <1>3, NamesAreWords DEF Step
  <2>2. Step(p, w) = Keeping(Apply(p.low, [positional |-> <<w.value>>]))
    BY <1>1, <2>1
  <2>3. ~Opens(w)
    BY <1>3, Zenon DEF Opens
  <2>4. \A low : Keeping(low).awaits = "none"
    OBVIOUS
  <2> HIDE DEF Keeping
  <2> QED BY <2>2, <2>3, <2>4
<1>4. CASE w.name # "" /\ w.name \in DOMAIN SpecialModes
  <2>1. Step(p, w) = IF w.value # "none" THEN Fails(p)
                     ELSE [p EXCEPT !.low = Apply(@, [special |-> SpecialModes[w.name]])]
    BY <1>4 DEF Step
  <2>2. w.value = "none" =>
          Step(p, w) = Keeping(Apply(p.low, [special |-> SpecialModes[w.name]]))
    BY <1>1, <2>1
  <2> QED BY <1>2, <1>4, <2>1, <2>2 DEF Opens
<1>5. CASE w.name # "" /\ w.name \in Names \ DOMAIN SpecialModes
  <2>1. Step(p, w) = Match(p, flag, w)
    BY <1>5 DEF Step
  <2>2. flag \in DOMAIN FLAGS
    BY <1>5, FindFinds
  <2>3. \A value : Update(p, flag, value).awaits = "none"
    BY <2>2, UpdateKeepsTypes
  <2> DEFINE negated == w.name \in FLAGS[flag].negated
             switch  == "on" \in DOMAIN FLAGS[flag].update
  <2>4. CASE negated \/ switch
    <3>1. Match(p, flag, w) = IF w.value # "none" THEN Fails(p)
                              ELSE Update(p, flag, IF negated THEN "off" ELSE "on")
      BY <2>4 DEF Match
    <3>2. ~Opens(w)
      BY <2>4 DEF Opens
    <3> QED BY <1>2, <2>1, <2>3, <3>1, <3>2
  <2>5. CASE ~(negated \/ switch)
    <3>1. Match(p, flag, w) = IF w.value # "none" THEN Update(p, flag, w.value)
                              ELSE [p EXCEPT !.awaits = flag]
      BY <2>5 DEF Match
    <3>2. Opens(w) <=> w.value = "none"
      BY <1>5, <2>5 DEF Opens
    <3>3. [p EXCEPT !.awaits = flag] = [low |-> p.low, awaits |-> flag, failed |-> p.failed]
      BY DEF ParserTyped
    <3> HIDE DEF flag
    <3> QED BY <2>1, <2>3, <3>1, <3>2, <3>3 DEF flag
  <2> QED BY <2>4, <2>5
<1>6. CASE w.name # "" /\ w.name \notin DOMAIN SpecialModes /\ w.name \notin Names
  <2>1. Step(p, w) = Fails(p)
    BY <1>6 DEF Step
  <2> QED BY <1>2, <2>1
<1> QED BY <1>3, <1>4, <1>5, <1>6

\* A word that asks for a special mode, and is read as a flag, gets one.
LEMMA SpecialIsSet ==
    ASSUME NEW p, ParserTyped(p), ~p.failed, p.awaits = "none", NEW w, AsksSpecial(w)
    PROVE  Step(p, w).failed \/ Step(p, w).low.special # "unset"
<1> DEFINE With(mode) == [low |-> Apply(p.low, [special |-> mode]),
                          awaits |-> p.awaits, failed |-> p.failed]
<1>1. \A x : [p EXCEPT !.low = x] = [low |-> x, awaits |-> p.awaits, failed |-> p.failed]
  BY DEF ParserTyped
<1>2. Fails(p).failed
  <2>1. Fails(p) = [p EXCEPT !.failed = TRUE]
    BY DEF Fails
  <2>2. Fails(p) = [low |-> p.low, awaits |-> p.awaits, failed |-> TRUE]
    BY <2>1 DEF ParserTyped
  <2> QED BY <2>2
<1>3. ASSUME NEW mode
      PROVE  With(mode).low.special = mode
  <2>1. "special" \in DOMAIN p.low
    BY FieldsAreThere DEF ParserTyped, LowTyped
  <2>2. Join("special", p.low.special, mode) = mode
    BY DEF Join, Lists
  <2>3. Apply(p.low, [special |-> mode]).special = mode
    BY <2>1, <2>2 DEF Apply
  <2> QED BY <2>3
<1>4. CASE w.name \in DOMAIN SpecialModes
  <2>1. w.name # "" /\ SpecialModes[w.name] # "unset"
    <3>1. w.name \in {"h", "help", "V", "version"}
      BY <1>4 DEF SpecialModes
    <3>2. /\ SpecialModes["h"] = "HelpShort" /\ SpecialModes["help"] = "HelpLong"
          /\ SpecialModes["V"] = "VersionShort" /\ SpecialModes["version"] = "VersionLong"
      BY DEF SpecialModes
    <3> QED BY <3>1, <3>2
  <2>2. Step(p, w) = IF w.value # "none" THEN Fails(p)
                     ELSE [p EXCEPT !.low = Apply(@, [special |-> SpecialModes[w.name]])]
    BY <1>4, <2>1 DEF Step
  <2>3. w.value = "none" => Step(p, w) = With(SpecialModes[w.name])
    BY <1>1, <2>2
  <2> HIDE DEF With
  <2> QED BY <1>2, <1>3, <2>1, <2>2, <2>3
<1>5. CASE w.name \notin DOMAIN SpecialModes
  <2> DEFINE flag == Find[w.name]
  <2>1. w.name = "pcre2-version"
    BY <1>5 DEF AsksSpecial, PCRE2Version, Switch, Flag
  <2>2. "PCRE2Version" \in DOMAIN FLAGS /\ FLAGS["PCRE2Version"] = PCRE2Version
    BY DEF FLAGS
  <2>3. /\ "on" \in DOMAIN PCRE2Version.update /\ PCRE2Version.negated = {}
        /\ PCRE2Version.names = {"pcre2-version"}
        /\ PCRE2Version.update["on"] = [special |-> "VersionPCRE2"]
    BY DEF PCRE2Version, Switch, Flag
  <2>4. w.name \in NamesOf("PCRE2Version")
    BY <2>1, <2>2, <2>3 DEF NamesOf
  <2>5. w.name \in Names
    BY <2>2, <2>4 DEF Names
  <2>6. flag = "PCRE2Version"
    <3>1. flag \in DOMAIN FLAGS /\ w.name \in NamesOf(flag)
      BY <2>5, FindFinds
    <3> QED BY <2>2, <2>4, <3>1, NamesAssumption
  <2>7. Step(p, w) = Match(p, flag, w)
    BY <1>5, <2>1, <2>5 DEF Step
  <2>8. Match(p, flag, w) = IF w.value # "none" THEN Fails(p) ELSE Update(p, flag, "on")
    BY <2>2, <2>3, <2>6 DEF Match
  <2>9. Update(p, flag, "on") = [p EXCEPT !.low = Apply(@, [special |-> "VersionPCRE2"])]
    BY <2>2, <2>3, <2>6 DEF Update
  <2>10. Update(p, flag, "on") = With("VersionPCRE2")
    BY <1>1, <2>9
  <2> HIDE DEF With
  <2> QED BY <1>2, <1>3, <2>7, <2>8, <2>10
<1> QED BY <1>4, <1>5

\* Two parsers that read the same words, the second after those of the
\* configuration: they wait for the same values, and what asks the second for a
\* special mode has asked the first.
Aligned(p, q) ==
    \/ p.failed \/ q.failed
    \/ /\ p.awaits = q.awaits
       /\ p.low.special = "unset" => q.low.special = "unset"

\* A flag that waits for its value takes any word for it.
LEMMA ValueIsTaken ==
    ASSUME NEW p, ParserTyped(p), ~p.failed, p.awaits # "none", NEW w
    PROVE  Step(p, w).awaits = "none" /\ Step(p, w).low.special = p.low.special
<1> DEFINE taken == Update(p, p.awaits, TextOf(w))
<1>1. Step(p, w) = [taken EXCEPT !.awaits = "none"]
  BY DEF Step
<1>2. ParserTyped(taken) /\ taken.low.special = p.low.special
  BY UpdateKeepsTypes DEF ParserTyped
<1> HIDE DEF taken
<1>3. Step(p, w) = [low |-> taken.low, awaits |-> "none", failed |-> taken.failed]
  BY <1>1, <1>2 DEF ParserTyped
<1> QED BY <1>2, <1>3

LEMMA StepKeepsAligned ==
    ASSUME NEW p, ParserTyped(p), NEW q, ParserTyped(q), Aligned(p, q), NEW w
    PROVE  Aligned(Step(p, w), Step(q, w))
<1>1. CASE p.failed \/ q.failed
  <2>1. \A r : r.failed => Step(r, w) = r
    BY DEF Step
  <2> QED BY <1>1, <2>1 DEF Aligned
<1>2. CASE ~p.failed /\ ~q.failed /\ p.awaits # "none"
  <2>1. q.awaits # "none" /\ (p.low.special = "unset" => q.low.special = "unset")
    BY <1>2 DEF Aligned
  <2>2. Step(p, w).awaits = "none" /\ Step(p, w).low.special = p.low.special
    BY <1>2, ValueIsTaken
  <2>3. Step(q, w).awaits = "none" /\ Step(q, w).low.special = q.low.special
    BY <1>2, <2>1, ValueIsTaken
  <2> QED BY <2>1, <2>2, <2>3 DEF Aligned
<1>3. CASE ~p.failed /\ ~q.failed /\ p.awaits = "none"
  <2>1. q.awaits = "none" /\ (p.low.special = "unset" => q.low.special = "unset")
    BY <1>3 DEF Aligned
  <2> DEFINE next == IF Opens(w) THEN Find[w.name] ELSE "none"
  <2>2. Step(p, w).failed \/ Step(p, w).awaits = next
    BY <1>3, AwaitsMoves
  <2>3. Step(q, w).failed \/ Step(q, w).awaits = next
    BY <1>3, <2>1, AwaitsMoves
  <2> HIDE DEF next
  <2>4. CASE AsksSpecial(w)
    <3>1. Step(p, w).failed \/ Step(p, w).low.special # "unset"
      BY <1>3, <2>4, SpecialIsSet
    <3> QED BY <2>2, <2>3, <3>1 DEF Aligned
  <2>5. CASE ~AsksSpecial(w)
    <3>1. Step(p, w).low.special = p.low.special
      BY <2>5, StepKeepsTypes
    <3>2. Step(q, w).low.special = q.low.special
      BY <2>5, StepKeepsTypes
    <3> QED BY <2>1, <2>2, <2>3, <3>1, <3>2 DEF Aligned
  <2> QED BY <2>4, <2>5
<1> QED BY <1>1, <1>2, <1>3

\* One word more is one step more.
LEMMA ParseAppends ==
    ASSUME NEW S, NEW words \in Seq(S), NEW w \in S
    PROVE  Parse(Append(words, w)) = Step(Parse(words), w)
<1> DEFINE n    == Len(words)
           more == Append(words, w)
           Same(k) == After(more, k) = After(words, k)
           Wrong == {k \in 0 .. n : ~Same(k)}
<1>1. /\ n \in Nat /\ more \in Seq(S) /\ Len(more) = n + 1
      /\ more[n + 1] = w /\ \A k \in 1 .. n : more[k] = words[k]
  OBVIOUS
<1> HIDE DEF n, more
<1>2. Same(0)
  BY <1>1, ParseUnfolds
<1>3. ASSUME NEW k \in 1 .. n, Same(k - 1)
      PROVE  Same(k)
  <2>1. After(more, k) = Step(After(more, k - 1), more[k])
    <3>1. k \in 1 .. Len(more)
      BY <1>1
    <3> QED BY <1>1, <3>1, ParseUnfolds
  <2>2. After(words, k) = Step(After(words, k - 1), words[k])
    BY ParseUnfolds DEF n
  <2> QED BY <1>1, <1>3, <2>1, <2>2
<1> HIDE DEF Same
<1>4. Wrong = {}
  <2>1. SUFFICES ASSUME Wrong # {} PROVE FALSE
    OBVIOUS
  <2>2. Wrong \subseteq Nat
    BY <1>1
  <2>3. PICK k \in Wrong : \A m \in Wrong : k <= m
    BY <2>1, <2>2, LeastNumber
  <2>4. k # 0 /\ k \in 0 .. n /\ ~Same(k)
    BY <1>2, <2>3
  <2>5. k \in 1 .. n /\ k - 1 \in 0 .. n /\ k - 1 \notin Wrong
    BY <1>1, <2>3, <2>4
  <2> QED BY <1>3, <2>4, <2>5
<1>5. After(more, n) = After(words, n)
  BY <1>1, <1>4 DEF Same
<1>6. Parse(words) = After(words, n)
  BY ParseUnfolds DEF n
<1>7. Parse(more) = After(more, n + 1)
  BY <1>1, ParseUnfolds
<1>8. After(more, n + 1) = Step(After(more, n), w)
  <2>1. n + 1 \in 1 .. Len(more) /\ (n + 1) - 1 = n
    BY <1>1
  <2> QED BY <1>1, <2>1, ParseUnfolds
<1> QED BY <1>5, <1>6, <1>7, <1>8 DEF more

\* A sorted walk has one thread.
LEMMA SortedWalksHaveOneThread ==
    ASSUME NEW low, NEW e, Converts(low, e)
    PROVE  ~WalkPanics(HiArgs(low, e))
<1> DEFINE h   == HiArgs(low, e)
           one == PathsIn(low, e).oneFile
<1>1. h.result = "ok"
  BY HiArgsAre
<1>2. h.low = low /\ h.threads = ThreadsOf(low, one)
  BY <1>1, HiArgsAre
<1> HIDE DEF h, one
<1>3. low.sort # NoSort => ThreadsOf(low, one) = "1"
  BY DEF ThreadsOf
<1> QED BY <1>2, <1>3 DEF WalkPanics, h

-----------------------------------------------------------------------------
(***************************************************************************)
(* The configuration asks for no special mode, and leaves no flag waiting  *)
(* for a value that the first word of the command line would become, unless *)
(* no word asks for a special mode anyway.                                 *)
(***************************************************************************)

ConfigIsComplete ==
    /\ \A k \in 1 .. Len(rc) : ~AsksSpecial(rc[k])
    /\ Parse(rc).awaits = "none" \/ \A w \in theme : ~AsksSpecial(w)

SpecialsShowThemselves ==
    /\ stage = "cli" => \/ \A w \in theme : ~AsksSpecial(w)
                        \/ Aligned(parser, Parse(rc \o line))
    /\ stage = "low" => parser.low.special = "unset"
    /\ outcome # "panic"

\* No assertion of the conversion or of the walk fails: a special mode never
\* reaches from_low_args, and what is sorted has one thread (parse.rs,
\* HiArgs::from_low_args, HiArgs::walk_builder).
THEOREM AssertionsAreKept == Spec /\ ConfigIsComplete => []AssertionsHold
<1>1. Init /\ ConfigIsComplete => SpecialsShowThemselves
  <2> SUFFICES ASSUME Init, ConfigIsComplete PROVE SpecialsShowThemselves
    OBVIOUS
  <2>1. stage = "cli" /\ outcome = "none" /\ parser = Fresh /\ line = <<>>
    BY DEF Init
  <2>2. rc \in Seq(theme) /\ rc \o <<>> = rc
    <3>1. rc = <<>> \/ \E w \in theme : rc = <<w>>
      BY DEF Init
    <3>2. ASSUME NEW w \in theme
          PROVE  <<w>> \in Seq(theme)
      OBVIOUS
    <3>3. <<>> \in Seq(theme)
      OBVIOUS
    <3>4. rc \in Seq(theme)
      BY <3>1, <3>2, <3>3
    <3> QED BY <3>4
  <2>3. Parse(rc).low.special = "unset"
    BY <2>2, ParseKeepsTypes DEF ConfigIsComplete
  <2>4. Fresh.awaits = "none"
    BY DEF Fresh
  <2>5. \/ \A w \in theme : ~AsksSpecial(w)
        \/ Aligned(parser, Parse(rc \o line))
    BY <2>1, <2>2, <2>3, <2>4 DEF ConfigIsComplete, Aligned
  <2> QED BY <2>1, <2>5 DEF SpecialsShowThemselves
<1>2. ArgsInvariant /\ SpecialsShowThemselves /\ [Next]_vars => SpecialsShowThemselves'
  <2> SUFFICES ASSUME ArgsInvariant, SpecialsShowThemselves, [Next]_vars
               PROVE  SpecialsShowThemselves'
    OBVIOUS
  <2> USE DEF SpecialsShowThemselves
  <2>0. rc \in Seq(theme) /\ line \in Seq(theme) /\ rc \o line \in Seq(theme)
    <3>1. rc \in Seq(theme) /\ line \in Seq(theme)
      BY DEF ArgsInvariant
    <3> QED BY <3>1
  <2>1. ASSUME NEW w \in theme, Word(w) PROVE SpecialsShowThemselves'
    <3>1. /\ stage = "cli" /\ stage' = "cli" /\ theme' = theme /\ rc' = rc
          /\ line' = Append(line, w) /\ parser' = Step(parser, w) /\ outcome' = outcome
      BY <2>1 DEF Word
    <3>2. rc \o Append(line, w) = Append(rc \o line, w)
      BY <2>0
    <3>3. Parse((rc \o line)') = Step(Parse(rc \o line), w)
      BY <2>0, <3>1, <3>2, ParseAppends
    <3>4. ParserTyped(parser) /\ ParserTyped(Parse(rc \o line))
      BY <2>0, ParseKeepsTypes DEF ArgsInvariant
    <3>5. ASSUME Aligned(parser, Parse(rc \o line))
          PROVE  Aligned(parser', Parse((rc \o line)'))
      BY <3>1, <3>3, <3>4, <3>5, StepKeepsAligned
    <3> QED BY <3>1, <3>5
  <2>2. CASE BadArguments
    BY <2>2 DEF BadArguments, Ends
  <2>3. CASE ShortCircuit
    BY <2>3 DEF ShortCircuit, Ends
  <2>4. CASE SkipConfig
    BY <2>4 DEF SkipConfig
  <2>5. CASE ReadConfig
    <3>1. /\ stage = "cli" /\ parser.low.special = "unset" /\ ~Rejected(parser)
          /\ parser' = Parse(rc \o line)
          /\ \/ stage' = "done" /\ outcome' = "error"
             \/ stage' = "low" /\ outcome' = outcome /\ ~Rejected(parser')
      BY <2>5 DEF ReadConfig, Ends
    <3>2. CASE \A w \in theme : ~AsksSpecial(w)
      <4>1. \A k \in 1 .. Len(rc \o line) : (rc \o line)[k] \in theme
        BY <2>0
      <4>2. parser'.low.special = "unset"
        BY <2>0, <3>1, <3>2, <4>1, ParseKeepsTypes
      <4> QED BY <3>1, <4>2
    <3>3. CASE Aligned(parser, Parse(rc \o line))
      <4>1. ~Rejected(parser') => parser'.low.special = "unset"
        BY <3>1, <3>3 DEF Aligned, Rejected
      <4> QED BY <3>1, <4>1
    <3> QED BY <3>1, <3>2, <3>3
  <2>6. CASE Convert
    <3>1. /\ stage = "low" /\ parser.low.special = "unset"
          /\ hi' = HiArgs(parser.low, env)
          /\ \/ hi'.result = "ok" /\ stage' = "hi" /\ outcome' = outcome
             \/ hi'.result # "ok" /\ stage' = "done" /\ outcome' = hi'.result
      BY <2>6 DEF Convert, Ends
    <3>2. hi'.result # "panic"
      BY <3>1, HiArgsAre
    <3> QED BY <3>1, <3>2
  <2>7. CASE Run
    <3>1. stage = "hi" /\ hi.result = "ok" /\ hi = HiArgs(parser.low, env)
      BY <2>7 DEF Run, ArgsInvariant, Bad
    <3>2. ~WalkPanics(hi)
      BY <3>1, HiArgsAre, SortedWalksHaveOneThread
    <3>3. stage' = "done" /\ outcome' = Dispatch(hi)
      BY <2>7, <3>2 DEF Run, Ends
    <3> QED BY <3>3, DispatchIsTyped DEF Ran
  <2>8. CASE UNCHANGED vars
    BY <2>8 DEF vars
  <2> QED BY <2>1, <2>2, <2>3, <2>4, <2>5, <2>6, <2>7, <2>8 DEF Next
<1>3. SpecialsShowThemselves => AssertionsHold
  BY DEF SpecialsShowThemselves, AssertionsHold
<1> QED BY <1>1, <1>2, <1>3, ArgsInvariantHolds, PTL DEF Spec

-----------------------------------------------------------------------------
(***************************************************************************)
(* What a flag overrides.                                                  *)
(***************************************************************************)

\* A field that an update sets whatever was in it before.
Clobbers(update, f) ==
    /\ f \in DOMAIN update /\ f \notin Lists
    /\ f = "mode" => update.mode # "no-json"
    /\ f = "context" => "passthru" \in DOMAIN update.context

\* An update leaves nothing of what a flag had done; after --passthru a width of
\* context starts from none.
Wipes(update, g) ==
    \A u \in DOMAIN FLAGS[g].update : \A f \in DOMAIN FLAGS[g].update[u] :
        /\ f # "unrestricted"
        /\ \/ Clobbers(update, f)
           \/ g = "Passthru" /\ f = "context" /\ f \in DOMAIN update

\* --pre '' is as if it had not been given.
NoText == ""

\* Whatever switches a flag on leaves nothing of the flags it overrides.
Firm(flag) ==
    \A g \in flag.over :
        /\ g \in DOMAIN FLAGS /\ g # "Unrestricted"
        /\ \A v \in DOMAIN flag.update :
               v # "off" /\ v # NoText => Wipes(flag.update[v], g)

\* The flags that some flag of the table overrides.
Overridable == {
    "Pre", "Binary", "Text", "NullData", "Crlf", "StopOnNonmatch", "Multiline",
    "IgnoreCase", "SmartCase", "CaseSensitive", "WordRegexp", "LineRegexp", "PCRE2",
    "AutoHybridRegex", "Engine", "SearchZip", "Sortr", "Sort", "CountMatches", "Count",
    "FilesWithoutMatch", "FilesWithMatches", "TypeList", "Passthru", "Context",
    "AfterContext", "BeforeContext", "WithFilename", "WithFilenameNo", "BlockBuffered",
    "LineBuffered"}

\* The flags of the table that some flag overrides.
LEMMA NamedFlags ==
    /\ Overridable \subseteq DOMAIN FLAGS
    /\ FLAGS["Pre"] = Pre /\ FLAGS["Binary"] = Binary /\ FLAGS["Text"] = Text
    /\ FLAGS["NullData"] = NullData /\ FLAGS["Crlf"] = Crlf
    /\ FLAGS["StopOnNonmatch"] = StopOnNonmatch /\ FLAGS["Multiline"] = Multiline
    /\ FLAGS["IgnoreCase"] = IgnoreCase /\ FLAGS["SmartCase"] = SmartCase
    /\ FLAGS["CaseSensitive"] = CaseSensitive /\ FLAGS["WordRegexp"] = WordRegexp
    /\ FLAGS["LineRegexp"] = LineRegexp /\ FLAGS["PCRE2"] = PCRE2
    /\ FLAGS["AutoHybridRegex"] = AutoHybridRegex /\ FLAGS["Engine"] = Engine
    /\ FLAGS["SearchZip"] = SearchZip /\ FLAGS["Sortr"] = Sortr /\ FLAGS["Sort"] = Sort
    /\ FLAGS["CountMatches"] = CountMatches /\ FLAGS["Count"] = Count
    /\ FLAGS["FilesWithoutMatch"] = FilesWithoutMatch
    /\ FLAGS["FilesWithMatches"] = FilesWithMatches /\ FLAGS["TypeList"] = TypeList
    /\ FLAGS["Passthru"] = Passthru /\ FLAGS["Context"] = Context
    /\ FLAGS["AfterContext"] = AfterContext /\ FLAGS["BeforeContext"] = BeforeContext
    /\ FLAGS["WithFilename"] = WithFilename /\ FLAGS["WithFilenameNo"] = WithFilenameNo
    /\ FLAGS["BlockBuffered"] = BlockBuffered /\ FLAGS["LineBuffered"] = LineBuffered
BY DEF FLAGS, Overridable

\* What a flag sets is one of these fields.
Within(flag, fields) ==
    \A u \in DOMAIN flag.update : \A f \in DOMAIN flag.update[u] : f \in fields

\* What a flag sets, unless it is switched off, is all of these fields.
Resets(flag, fields) ==
    \A v \in DOMAIN flag.update :
        v # "off" /\ v # NoText => fields \subseteq DOMAIN flag.update[v]

\* Fields whose new value replaces the old one.
Plain(fields) == fields \cap (Lists \cup {"mode", "context", "unrestricted"}) = {}

\* A flag that sets all that the flags it overrides may set leaves nothing of them,
\* when none of it is a list, a mode, a context or the count of -u.
LEMMA PlainIsFirm ==
    ASSUME NEW flag, NEW fields, Plain(fields), Resets(flag, fields),
           flag.over \subseteq Overridable, \A g \in flag.over : Within(FLAGS[g], fields)
    PROVE  Firm(flag)
<1>1. "Unrestricted" \notin Overridable
  BY DEF Overridable
<1>2. ASSUME NEW g \in flag.over, NEW v \in DOMAIN flag.update,
             v # "off", v # NoText
      PROVE  Wipes(flag.update[v], g)
  <2>1. ASSUME NEW u \in DOMAIN FLAGS[g].update, NEW f \in DOMAIN FLAGS[g].update[u]
        PROVE  f # "unrestricted" /\ Clobbers(flag.update[v], f)
    <3>1. f \in fields
      BY <2>1 DEF Within
    <3>2. f \in DOMAIN flag.update[v]
      BY <1>2, <3>1 DEF Resets
    <3> QED BY <3>1, <3>2 DEF Clobbers, Plain
  <2> QED BY <2>1 DEF Wipes
<1> QED BY <1>1, <1>2, NamedFlags DEF Firm

\* The flags that override others by setting all that these set.
LEMMA PlainOnes ==
    /\ Firm(Crlf) /\ Firm(NullData)
    /\ Firm(Text) /\ Firm(Binary)
    /\ Firm(SearchZip)
    /\ Firm(Pre)
    /\ Firm(Multiline) /\ Firm(StopOnNonmatch)
    /\ Firm(CaseSensitive) /\ Firm(IgnoreCase) /\ Firm(SmartCase)
    /\ Firm(LineRegexp) /\ Firm(WordRegexp)
    /\ Firm(Engine) /\ Firm(PCRE2)
    /\ Firm(Sort) /\ Firm(Sortr) /\ Firm(SortFiles)
    /\ Firm(WithFilename) /\ Firm(WithFilenameNo)
    /\ Firm(BlockBuffered) /\ Firm(LineBuffered)
<1>1. /\ Plain({"crlf", "null_data"})
      /\ Plain({"binary"})
      /\ Plain({"search_zip", "pre"})
      /\ Plain({"multiline", "stop_on_nonmatch"})
      /\ Plain({"case"})
      /\ Plain({"boundary"})
      /\ Plain({"engine"})
      /\ Plain({"sort"})
      /\ Plain({"with_filename"})
      /\ Plain({"buffer"})
  BY DEF Plain, Lists
<1>2. /\ Within(Crlf, {"crlf", "null_data"}) /\ Resets(Crlf, {"crlf", "null_data"})
      /\ Within(NullData, {"crlf", "null_data"}) /\ Resets(NullData, {"crlf", "null_data"})
  BY DEF Within, Resets, Crlf, NullData, Toggle, Switch, Flag
<1>3. /\ Crlf.over = {"NullData"}
      /\ NullData.over = {"Crlf"}
  BY DEF Crlf, NullData, Toggle, Switch, Flag
<1>4. /\ Within(Text, {"binary"}) /\ Resets(Text, {"binary"})
      /\ Within(Binary, {"binary"}) /\ Resets(Binary, {"binary"})
  BY DEF Within, Resets, Text, Binary, Toggle, Flag
<1>5. /\ Text.over = {"Binary"}
      /\ Binary.over = {"Text"}
  BY DEF Text, Binary, Toggle, Flag
<1>6. /\ Within(SearchZip, {"search_zip", "pre"}) /\ Resets(SearchZip, {"search_zip", "pre"})
  BY DEF Within, Resets, SearchZip, Toggle, Flag
<1>7. /\ SearchZip.over = {"Pre"}
  BY DEF SearchZip, Toggle, Flag
<1>8. /\ Within(Pre, {"search_zip", "pre"}) /\ Resets(Pre, {"search_zip", "pre"})
  BY Zenon DEF Within, Resets, Pre, Retractable, Flag, NoText
<1>9. /\ Pre.over = {"SearchZip"}
  BY DEF Pre, Retractable, Flag
<1>10. /\ Within(Multiline, {"multiline", "stop_on_nonmatch"})
       /\ Resets(Multiline, {"multiline", "stop_on_nonmatch"})
      /\ Within(StopOnNonmatch, {"multiline", "stop_on_nonmatch"})
      /\ Resets(StopOnNonmatch, {"multiline", "stop_on_nonmatch"})
  BY DEF Within, Resets, Multiline, StopOnNonmatch, Toggle, Switch, Flag
<1>11. /\ Multiline.over = {"StopOnNonmatch"}
      /\ StopOnNonmatch.over = {"Multiline"}
  BY DEF Multiline, StopOnNonmatch, Toggle, Switch, Flag
<1>12. /\ Within(CaseSensitive, {"case"}) /\ Resets(CaseSensitive, {"case"})
      /\ Within(IgnoreCase, {"case"}) /\ Resets(IgnoreCase, {"case"})
      /\ Within(SmartCase, {"case"}) /\ Resets(SmartCase, {"case"})
  BY DEF Within, Resets, CaseSensitive, IgnoreCase, SmartCase, Switch, Flag
<1>13. /\ CaseSensitive.over = {"IgnoreCase", "SmartCase"}
      /\ IgnoreCase.over = {"CaseSensitive", "SmartCase"}
      /\ SmartCase.over = {"CaseSensitive", "IgnoreCase"}
  BY DEF CaseSensitive, IgnoreCase, SmartCase, Switch, Flag
<1>14. /\ Within(LineRegexp, {"boundary"}) /\ Resets(LineRegexp, {"boundary"})
      /\ Within(WordRegexp, {"boundary"}) /\ Resets(WordRegexp, {"boundary"})
  BY DEF Within, Resets, LineRegexp, WordRegexp, Switch, Flag
<1>15. /\ LineRegexp.over = {"WordRegexp"}
      /\ WordRegexp.over = {"LineRegexp"}
  BY DEF LineRegexp, WordRegexp, Switch, Flag
<1>16. /\ Within(Engine, {"engine"}) /\ Resets(Engine, {"engine"})
      /\ Within(PCRE2, {"engine"}) /\ Resets(PCRE2, {"engine"})
      /\ Within(AutoHybridRegex, {"engine"}) /\ Resets(AutoHybridRegex, {"engine"})
  BY DEF Within, Resets, Engine, PCRE2, AutoHybridRegex, Valued, Toggle, Sets, Only, Flag
<1>17. /\ Engine.over = {"PCRE2", "AutoHybridRegex"}
      /\ PCRE2.over = {"Engine"}
  BY DEF Engine, PCRE2, Valued, Toggle, Sets, Only, Flag
<1>18. /\ Within(Sort, {"sort"}) /\ Resets(Sort, {"sort"})
      /\ Within(Sortr, {"sort"}) /\ Resets(Sortr, {"sort"})
      /\ Within(SortFiles, {"sort"}) /\ Resets(SortFiles, {"sort"})
  BY DEF Within, Resets, Sort, Sortr, SortFiles, Valued, Toggle, Flag
<1>19. /\ Sort.over = {"Sortr"}
      /\ Sortr.over = {"Sort"}
      /\ SortFiles.over = {"Sort", "Sortr"}
  BY DEF Sort, Sortr, SortFiles, Valued, Toggle, Flag
<1>20. /\ Within(WithFilename, {"with_filename"}) /\ Resets(WithFilename, {"with_filename"})
      /\ Within(WithFilenameNo, {"with_filename"}) /\ Resets(WithFilenameNo, {"with_filename"})
  BY DEF Within, Resets, WithFilename, WithFilenameNo, Switch, Flag
<1>21. /\ WithFilename.over = {"WithFilenameNo"}
      /\ WithFilenameNo.over = {"WithFilename"}
  BY DEF WithFilename, WithFilenameNo, Switch, Flag
<1>22. /\ Within(BlockBuffered, {"buffer"}) /\ Resets(BlockBuffered, {"buffer"})
      /\ Within(LineBuffered, {"buffer"}) /\ Resets(LineBuffered, {"buffer"})
  BY DEF Within, Resets, BlockBuffered, LineBuffered, Toggle, Flag
<1>23. /\ BlockBuffered.over = {"LineBuffered"}
      /\ LineBuffered.over = {"BlockBuffered"}
  BY DEF BlockBuffered, LineBuffered, Toggle, Flag
<1>24. Firm(Crlf)
  BY <1>1, <1>2, <1>3, PlainIsFirm, NamedFlags DEF Overridable
<1>25. Firm(NullData)
  BY <1>1, <1>2, <1>3, PlainIsFirm, NamedFlags DEF Overridable
<1>26. Firm(Text)
  BY <1>1, <1>4, <1>5, PlainIsFirm, NamedFlags DEF Overridable
<1>27. Firm(Binary)
  BY <1>1, <1>4, <1>5, PlainIsFirm, NamedFlags DEF Overridable
<1>28. Firm(SearchZip)
  BY <1>1, <1>6, <1>7, <1>8, <1>9, PlainIsFirm, NamedFlags DEF Overridable
<1>29. Firm(Pre)
  BY <1>1, <1>6, <1>7, <1>8, <1>9, PlainIsFirm, NamedFlags DEF Overridable
<1>30. Firm(Multiline)
  BY <1>1, <1>10, <1>11, PlainIsFirm, NamedFlags DEF Overridable
<1>31. Firm(StopOnNonmatch)
  BY <1>1, <1>10, <1>11, PlainIsFirm, NamedFlags DEF Overridable
<1>32. Firm(CaseSensitive)
  BY <1>1, <1>12, <1>13, PlainIsFirm, NamedFlags DEF Overridable
<1>33. Firm(IgnoreCase)
  BY <1>1, <1>12, <1>13, PlainIsFirm, NamedFlags DEF Overridable
<1>34. Firm(SmartCase)
  BY <1>1, <1>12, <1>13, PlainIsFirm, NamedFlags DEF Overridable
<1>35. Firm(LineRegexp)
  BY <1>1, <1>14, <1>15, PlainIsFirm, NamedFlags DEF Overridable
<1>36. Firm(WordRegexp)
  BY <1>1, <1>14, <1>15, PlainIsFirm, NamedFlags DEF Overridable
<1>37. Firm(Engine)
  BY <1>1, <1>16, <1>17, PlainIsFirm, NamedFlags DEF Overridable
<1>38. Firm(PCRE2)
  BY <1>1, <1>16, <1>17, PlainIsFirm, NamedFlags DEF Overridable
<1>39. Firm(Sort)
  BY <1>1, <1>18, <1>19, PlainIsFirm, NamedFlags DEF Overridable
<1>40. Firm(Sortr)
  BY <1>1, <1>18, <1>19, PlainIsFirm, NamedFlags DEF Overridable
<1>41. Firm(SortFiles)
  BY <1>1, <1>18, <1>19, PlainIsFirm, NamedFlags DEF Overridable
<1>42. Firm(WithFilename)
  BY <1>1, <1>20, <1>21, PlainIsFirm, NamedFlags DEF Overridable
<1>43. Firm(WithFilenameNo)
  BY <1>1, <1>20, <1>21, PlainIsFirm, NamedFlags DEF Overridable
<1>44. Firm(BlockBuffered)
  BY <1>1, <1>22, <1>23, PlainIsFirm, NamedFlags DEF Overridable
<1>45. Firm(LineBuffered)
  BY <1>1, <1>22, <1>23, PlainIsFirm, NamedFlags DEF Overridable
<1> QED BY <1>24, <1>25, <1>26, <1>27, <1>28, <1>29, <1>30, <1>31, <1>32, <1>33, <1>34,
           <1>35, <1>36, <1>37, <1>38, <1>39, <1>40, <1>41, <1>42, <1>43, <1>44, <1>45

\* The modes: --count and --count-matches, -l and --files-without-match, and
\* --files over --type-list.
LEMMA ModesAreFirm ==
    /\ Firm(Count) /\ Firm(CountMatches) /\ Firm(FilesWithMatches)
    /\ Firm(FilesWithoutMatch) /\ Firm(Files)
<1>1. ASSUME NEW flag, flag.over \subseteq Overridable,
             \A g \in flag.over : Within(FLAGS[g], {"mode"}),
             Resets(flag, {"mode"}),
             \A v \in DOMAIN flag.update : flag.update[v].mode # "no-json"
      PROVE  Firm(flag)
  <2>1. "Unrestricted" \notin Overridable
    BY DEF Overridable
  <2>2. ASSUME NEW g \in flag.over, NEW v \in DOMAIN flag.update, v # "off", v # NoText
        PROVE  Wipes(flag.update[v], g)
    BY <1>1, <2>2 DEF Wipes, Clobbers, Within, Resets, Lists
  <2> QED BY <1>1, <2>1, <2>2, NamedFlags DEF Firm
<1>2. /\ Count.over = {"CountMatches"} /\ CountMatches.over = {"Count"}
      /\ FilesWithMatches.over = {"FilesWithoutMatch"}
      /\ FilesWithoutMatch.over = {"FilesWithMatches"} /\ Files.over = {"TypeList"}
  BY DEF Count, CountMatches, FilesWithMatches, FilesWithoutMatch, Files, Switch, Flag
<1> DEFINE Chooses(flag) ==
        /\ Within(flag, {"mode"}) /\ Resets(flag, {"mode"})
        /\ \A v \in DOMAIN flag.update : flag.update[v].mode # "no-json"
<1>3. Chooses(Count) /\ Chooses(CountMatches) /\ Chooses(TypeList)
  BY DEF Within, Resets, Count, CountMatches, TypeList, Switch, Flag, Mode
<1>4. Chooses(FilesWithMatches) /\ Chooses(FilesWithoutMatch) /\ Chooses(Files)
  BY DEF Within, Resets, FilesWithMatches, FilesWithoutMatch, Files, Switch, Flag, Mode
<1>5. Firm(Count) /\ Firm(CountMatches)
  BY <1>1, <1>2, <1>3, NamedFlags DEF Overridable
<1>6. Firm(FilesWithMatches) /\ Firm(FilesWithoutMatch)
  BY <1>1, <1>2, <1>4, NamedFlags DEF Overridable
<1>7. Firm(Files)
  BY <1>1, <1>2, <1>3, <1>4, NamedFlags DEF Overridable
<1> QED BY <1>5, <1>6, <1>7

\* --passthru and the widths of context.
LEMMA ContextsAreFirm ==
    /\ Firm(Context) /\ Firm(AfterContext) /\ Firm(BeforeContext) /\ Firm(Passthru)
<1>1. /\ Context.over = {"Passthru"} /\ AfterContext.over = {"Passthru"}
      /\ BeforeContext.over = {"Passthru"}
      /\ Passthru.over = {"Context", "AfterContext", "BeforeContext"}
  BY DEF Context, AfterContext, BeforeContext, Passthru, Valued, Switch, Flag
<1>2. /\ Within(Context, {"context"}) /\ Resets(Context, {"context"})
      /\ Within(AfterContext, {"context"}) /\ Resets(AfterContext, {"context"})
      /\ Within(BeforeContext, {"context"}) /\ Resets(BeforeContext, {"context"})
      /\ Within(Passthru, {"context"}) /\ Resets(Passthru, {"context"})
  BY DEF Within, Resets, Context, AfterContext, BeforeContext, Passthru, Valued, Switch, Flag
<1>3. \A v \in DOMAIN Passthru.update : "passthru" \in DOMAIN Passthru.update[v].context
  BY DEF Passthru, Switch, Flag
<1>4. "Unrestricted" \notin Overridable /\ "context" \notin Lists
  BY DEF Overridable, Lists
<1>5. ASSUME NEW flag \in {Context, AfterContext, BeforeContext}
      PROVE  Firm(flag)
  <2>1. flag.over = {"Passthru"} /\ Resets(flag, {"context"})
    BY <1>1, <1>2
  <2>2. ASSUME NEW v \in DOMAIN flag.update, v # "off", v # NoText
        PROVE  Wipes(flag.update[v], "Passthru")
    BY <1>2, <2>1, <2>2, NamedFlags DEF Wipes, Within, Resets
  <2> QED BY <1>4, <2>1, <2>2, NamedFlags DEF Firm, Overridable
<1>6. Firm(Passthru)
  <2>1. ASSUME NEW v \in DOMAIN Passthru.update, v # "off", v # NoText,
               NEW g \in Passthru.over
        PROVE  Wipes(Passthru.update[v], g)
    <3>1. Clobbers(Passthru.update[v], "context")
      BY <1>2, <1>3, <1>4, <2>1 DEF Clobbers, Resets
    <3>2. Within(FLAGS[g], {"context"})
      BY <1>1, <1>2, NamedFlags
    <3> QED BY <3>1, <3>2 DEF Wipes, Within
  <2> QED BY <1>1, <1>4, <2>1, NamedFlags DEF Firm, Overridable
<1> QED BY <1>5, <1>6

\* No other flag overrides any.
LEMMA FlagsAreFirm ==
    ASSUME NEW flag \in DOMAIN FLAGS
    PROVE  Firm(FLAGS[flag])
<1>1. ASSUME NEW other, other.over = {} PROVE Firm(other)
  BY <1>1 DEF Firm
<1>2. AutoHybridRegex.over = {} /\ Column.over = {} /\ Heading.over = {} /\
      JSON.over = {} /\ Mmap.over = {} /\ NoIgnore.over = {}
  BY DEF AutoHybridRegex, Column, Heading, JSON, Mmap, NoIgnore, Toggle, Flag
<1>3. ByteOffset.over = {} /\ FixedStrings.over = {} /\ Follow.over = {} /\
      GlobCaseInsensitive.over = {} /\ Hidden.over = {} /\
      IgnoreFileCaseInsensitive.over = {} /\ IncludeZero.over = {} /\
      InvertMatch.over = {} /\ MaxColumnsPreview.over = {} /\
      MultilineDotall.over = {} /\ NoIgnoreDot.over = {} /\
      NoIgnoreExclude.over = {} /\ NoIgnoreFiles.over = {} /\
      NoIgnoreGlobal.over = {} /\ NoIgnoreMessages.over = {} /\
      NoIgnoreParent.over = {}
  BY DEF ByteOffset, FixedStrings, Follow, GlobCaseInsensitive, Hidden,
         IgnoreFileCaseInsensitive, IncludeZero, InvertMatch,
         MaxColumnsPreview, MultilineDotall, NoIgnoreDot, NoIgnoreExclude,
         NoIgnoreFiles, NoIgnoreGlobal, NoIgnoreMessages, NoIgnoreParent,
         Bool, Toggle, Flag
<1>4. NoIgnoreVcs.over = {} /\ NoMessages.over = {} /\
      NoPcre2Unicode.over = {} /\ NoRequireGit.over = {} /\
      NoUnicode.over = {} /\ OneFileSystem.over = {} /\ Stats.over = {} /\
      Trim.over = {}
  BY DEF NoIgnoreVcs, NoMessages, NoPcre2Unicode, NoRequireGit, NoUnicode,
         OneFileSystem, Stats, Trim, Bool, Toggle, Flag
<1>5. Color.over = {} /\ Colors.over = {} /\ DfaSizeLimit.over = {} /\
      FieldContextSeparator.over = {} /\ FieldMatchSeparator.over = {} /\
      File.over = {} /\ Generate.over = {} /\ Glob.over = {} /\
      HostnameBin.over = {} /\ HyperlinkFormat.over = {} /\ IGlob.over = {} /\
      IgnoreFile.over = {} /\ Index.over = {} /\ IndexDir.over = {} /\
      IndexBackendFlag.over = {} /\ MaxColumns.over = {}
  BY DEF Color, Colors, DfaSizeLimit, FieldContextSeparator,
         FieldMatchSeparator, File, Generate, Glob, HostnameBin,
         HyperlinkFormat, IGlob, IgnoreFile, Index, IndexDir,
         IndexBackendFlag, MaxColumns, Valued, Flag
<1>6. MaxCount.over = {} /\ MaxDepth.over = {} /\ MaxFilesize.over = {} /\
      PathSeparator.over = {} /\ PreGlob.over = {} /\
      RegexSizeLimit.over = {} /\ Regexp.over = {} /\ Replace.over = {} /\
      Threads.over = {} /\ Type.over = {} /\ TypeAdd.over = {} /\
      TypeClear.over = {} /\ TypeNot.over = {}
  BY DEF MaxCount, MaxDepth, MaxFilesize, PathSeparator, PreGlob,
         RegexSizeLimit, Regexp, Replace, Threads, Type, TypeAdd, TypeClear,
         TypeNot, Valued, Flag
<1>7. ContextSeparator.over = {} /\ Encoding.over = {}
  BY DEF ContextSeparator, Encoding, Retractable, Flag
<1>8. Debug.over = {} /\ Help.over = {} /\ Bench.over = {} /\
      LineNumber.over = {} /\ LineNumberNo.over = {} /\ NoConfig.over = {} /\
      NoIndex.over = {} /\ Null.over = {} /\ OnlyMatching.over = {} /\
      PCRE2Version.over = {} /\ Pretty.over = {} /\ Quiet.over = {} /\
      Trace.over = {} /\ TypeList.over = {} /\ Unrestricted.over = {} /\
      Version.over = {}
  BY DEF Debug, Help, Bench, LineNumber, LineNumberNo, NoConfig, NoIndex,
         Null, OnlyMatching, PCRE2Version, Pretty, Quiet, Trace, TypeList,
         Unrestricted, Version, Switch, Flag
<1>9. Vimgrep.over = {}
  BY DEF Vimgrep, Switch, Flag
<1>10. FLAGS[flag] \in {
          AfterContext, AutoHybridRegex, BeforeContext, Binary, BlockBuffered,
          ByteOffset, CaseSensitive, Color, Colors, Column, Context,
          ContextSeparator, Count, CountMatches, Crlf, Debug, DfaSizeLimit,
          Encoding, Engine, FieldContextSeparator, FieldMatchSeparator, File,
          Files, FilesWithMatches, FilesWithoutMatch, FixedStrings, Follow,
          Generate, Glob, GlobCaseInsensitive, Heading, Help, Hidden,
          HostnameBin, HyperlinkFormat, IGlob, IgnoreCase, IgnoreFile,
          IgnoreFileCaseInsensitive, IncludeZero, Bench, Index, IndexDir,
          IndexBackendFlag, InvertMatch, JSON, LineBuffered, LineNumber,
          LineNumberNo, LineRegexp, MaxColumns, MaxColumnsPreview, MaxCount,
          MaxDepth, MaxFilesize, Mmap, Multiline, MultilineDotall, NoConfig,
          NoIgnore, NoIgnoreDot, NoIgnoreExclude, NoIgnoreFiles,
          NoIgnoreGlobal, NoIndex, NoIgnoreMessages, NoIgnoreParent,
          NoIgnoreVcs, NoMessages, NoPcre2Unicode, NoRequireGit, NoUnicode,
          Null, NullData, OneFileSystem, OnlyMatching, PathSeparator,
          Passthru, PCRE2, PCRE2Version, Pre, PreGlob, Pretty, Quiet,
          RegexSizeLimit, Regexp, Replace, SearchZip, SmartCase, SortFiles,
          Sort, Sortr, Stats, StopOnNonmatch, Text, Threads, Trace, Trim,
          Type, TypeAdd, TypeClear, TypeNot, TypeList, Unrestricted, Version,
          Vimgrep, WithFilename, WithFilenameNo, WordRegexp}
  BY DEF FLAGS
<1> QED BY <1>1, <1>2, <1>3, <1>4, <1>5, <1>6, <1>7, <1>8, <1>9, <1>10,
           PlainOnes, ModesAreFirm, ContextsAreFirm

\* What sets the context.
Contextual == {Context, AfterContext, BeforeContext, Passthru}

\* A flag that leaves the context alone.
Spares(flag) == \A u \in DOMAIN flag.update : "context" \notin DOMAIN flag.update[u]

\* No other flag of the table sets the context.
LEMMA OthersSpareContext ==
    ASSUME NEW flag \in DOMAIN FLAGS
    PROVE  FLAGS[flag] \in Contextual \/ Spares(FLAGS[flag])
<1>1. Spares(AutoHybridRegex) /\ Spares(Binary) /\ Spares(BlockBuffered) /\
      Spares(Column) /\ Spares(Crlf) /\ Spares(Heading) /\
      Spares(LineBuffered) /\ Spares(Mmap)
  BY DEF Spares, AutoHybridRegex, Binary, BlockBuffered, Column, Crlf,
         Heading, LineBuffered, Mmap, Toggle, Flag
<1>2. Spares(Multiline) /\ Spares(PCRE2) /\ Spares(SearchZip) /\
      Spares(SortFiles) /\ Spares(Text)
  BY DEF Spares, Multiline, PCRE2, SearchZip, SortFiles, Text, Toggle, Flag
<1>3. Spares(ByteOffset) /\ Spares(FixedStrings) /\ Spares(Follow) /\
      Spares(GlobCaseInsensitive) /\ Spares(Hidden) /\
      Spares(IgnoreFileCaseInsensitive) /\ Spares(IncludeZero) /\
      Spares(InvertMatch)
  BY DEF Spares, ByteOffset, FixedStrings, Follow, GlobCaseInsensitive,
         Hidden, IgnoreFileCaseInsensitive, IncludeZero, InvertMatch, Only,
         Bool, Toggle, Flag
<1>4. Spares(MaxColumnsPreview) /\ Spares(MultilineDotall) /\
      Spares(NoIgnoreDot) /\ Spares(NoIgnoreExclude) /\
      Spares(NoIgnoreFiles) /\ Spares(NoIgnoreGlobal) /\
      Spares(NoIgnoreMessages) /\ Spares(NoIgnoreParent)
  BY DEF Spares, MaxColumnsPreview, MultilineDotall, NoIgnoreDot,
         NoIgnoreExclude, NoIgnoreFiles, NoIgnoreGlobal, NoIgnoreMessages,
         NoIgnoreParent, Only, Bool, Toggle, Flag
<1>5. Spares(NoIgnoreVcs) /\ Spares(NoMessages) /\ Spares(NoPcre2Unicode) /\
      Spares(NoRequireGit) /\ Spares(NoUnicode) /\ Spares(OneFileSystem) /\
      Spares(Stats) /\ Spares(Trim)
  BY DEF Spares, NoIgnoreVcs, NoMessages, NoPcre2Unicode, NoRequireGit,
         NoUnicode, OneFileSystem, Stats, Trim, Only, Bool, Toggle, Flag
<1>6. Spares(CaseSensitive) /\ Spares(Debug) /\ Spares(Help) /\
      Spares(IgnoreCase) /\ Spares(Bench) /\ Spares(LineNumber) /\
      Spares(LineNumberNo) /\ Spares(LineRegexp)
  BY DEF Spares, CaseSensitive, Debug, Help, IgnoreCase, Bench, LineNumber,
         LineNumberNo, LineRegexp, Switch, Flag
<1>7. Spares(NoConfig) /\ Spares(NoIndex) /\ Spares(Null) /\
      Spares(NullData) /\ Spares(OnlyMatching) /\ Spares(PCRE2Version) /\
      Spares(Pretty) /\ Spares(Quiet)
  BY DEF Spares, NoConfig, NoIndex, Null, NullData, OnlyMatching,
         PCRE2Version, Pretty, Quiet, Switch, Flag
<1>8. Spares(SmartCase) /\ Spares(StopOnNonmatch) /\ Spares(Trace) /\
      Spares(Unrestricted) /\ Spares(Version) /\ Spares(Vimgrep) /\
      Spares(WithFilename) /\ Spares(WithFilenameNo)
  BY DEF Spares, SmartCase, StopOnNonmatch, Trace, Unrestricted, Version,
         Vimgrep, WithFilename, WithFilenameNo, Switch, Flag
<1>9. Spares(WordRegexp)
  BY DEF Spares, WordRegexp, Switch, Flag
<1>10. Spares(Color) /\ Spares(DfaSizeLimit) /\ Spares(Engine) /\
       Spares(FieldContextSeparator) /\ Spares(FieldMatchSeparator) /\
       Spares(Generate) /\ Spares(HyperlinkFormat) /\ Spares(MaxCount)
  BY DEF Spares, Color, DfaSizeLimit, Engine, FieldContextSeparator,
         FieldMatchSeparator, Generate, HyperlinkFormat, MaxCount, Sets, Only,
         Valued, Flag
<1>11. Spares(MaxDepth) /\ Spares(MaxFilesize) /\ Spares(RegexSizeLimit) /\
       Spares(Replace)
  BY DEF Spares, MaxDepth, MaxFilesize, RegexSizeLimit, Replace, Sets, Only,
         Valued, Flag
<1>12. Spares(Colors) /\ Spares(Glob) /\ Spares(IGlob) /\
       Spares(IgnoreFile) /\ Spares(PreGlob)
  BY DEF Spares, Colors, Glob, IGlob, IgnoreFile, PreGlob, Pushes, Only,
         Valued, Flag
<1>13. Spares(ContextSeparator) /\ Spares(Encoding)
  BY DEF Spares, ContextSeparator, Encoding, Sets, Only, Retractable, Flag
<1>14. Spares(Count) /\ Spares(CountMatches) /\ Spares(Files) /\
       Spares(FilesWithMatches) /\ Spares(FilesWithoutMatch) /\
       Spares(TypeList)
  BY DEF Spares, Count, CountMatches, Files, FilesWithMatches,
         FilesWithoutMatch, TypeList, Mode, Switch, Flag
<1>15. Spares(File) /\ Spares(Index) /\ Spares(IndexDir) /\
       Spares(IndexBackendFlag) /\ Spares(Regexp) /\ Spares(Sort) /\
       Spares(Sortr)
  BY DEF Spares, File, Index, IndexDir, IndexBackendFlag, Regexp, Sort, Sortr,
         Valued, Flag
<1>16. Spares(HostnameBin) /\ Spares(MaxColumns) /\ Spares(PathSeparator) /\
       Spares(Threads)
  BY DEF Spares, HostnameBin, MaxColumns, PathSeparator, Threads, SetsUnless,
         Only, Valued, Flag
<1>17. Spares(JSON)
  BY DEF Spares, JSON, Mode, Toggle, Flag
<1>18. Spares(NoIgnore)
  BY DEF Spares, NoIgnore, NoIgnoreAll, Toggle, Flag
<1>19. Spares(Pre)
  BY Zenon DEF Spares, Pre, Retractable, Flag
<1>20. Spares(Type) /\ Spares(TypeAdd) /\ Spares(TypeClear) /\ Spares(TypeNot)
  BY DEF Spares, Type, TypeAdd, TypeClear, TypeNot, TypeChange, Valued, Flag
<1>21. FLAGS[flag] \in {
          AfterContext, AutoHybridRegex, BeforeContext, Binary, BlockBuffered,
          ByteOffset, CaseSensitive, Color, Colors, Column, Context,
          ContextSeparator, Count, CountMatches, Crlf, Debug, DfaSizeLimit,
          Encoding, Engine, FieldContextSeparator, FieldMatchSeparator, File,
          Files, FilesWithMatches, FilesWithoutMatch, FixedStrings, Follow,
          Generate, Glob, GlobCaseInsensitive, Heading, Help, Hidden,
          HostnameBin, HyperlinkFormat, IGlob, IgnoreCase, IgnoreFile,
          IgnoreFileCaseInsensitive, IncludeZero, Bench, Index, IndexDir,
          IndexBackendFlag, InvertMatch, JSON, LineBuffered, LineNumber,
          LineNumberNo, LineRegexp, MaxColumns, MaxColumnsPreview, MaxCount,
          MaxDepth, MaxFilesize, Mmap, Multiline, MultilineDotall, NoConfig,
          NoIgnore, NoIgnoreDot, NoIgnoreExclude, NoIgnoreFiles,
          NoIgnoreGlobal, NoIndex, NoIgnoreMessages, NoIgnoreParent,
          NoIgnoreVcs, NoMessages, NoPcre2Unicode, NoRequireGit, NoUnicode,
          Null, NullData, OneFileSystem, OnlyMatching, PathSeparator,
          Passthru, PCRE2, PCRE2Version, Pre, PreGlob, Pretty, Quiet,
          RegexSizeLimit, Regexp, Replace, SearchZip, SmartCase, SortFiles,
          Sort, Sortr, Stats, StopOnNonmatch, Text, Threads, Trace, Trim,
          Type, TypeAdd, TypeClear, TypeNot, TypeList, Unrestricted, Version,
          Vimgrep, WithFilename, WithFilenameNo, WordRegexp}
  BY DEF FLAGS
<1>22. Contextual = {Context, AfterContext, BeforeContext, Passthru}
  BY DEF Contextual
<1> QED BY <1>1, <1>2, <1>3, <1>4, <1>5, <1>6, <1>7, <1>8, <1>9, <1>10, <1>11,
           <1>12, <1>13, <1>14, <1>15, <1>16, <1>17, <1>18, <1>19, <1>20,
           <1>21, <1>22
-----------------------------------------------------------------------------
(***************************************************************************)
(* Two parsers that read one word.                                         *)
(***************************************************************************)

\* What is left of a context when the next width is set.
Settled(context) == IF context.passthru THEN NoContext ELSE context

\* Two values of a field that no later word tells apart.
Alike(f, a, b) == a = b \/ (f = "context" /\ Settled(a) = Settled(b))

\* What a later word makes of two values is the same when nothing told them apart.
LEMMA JoinsAlike ==
    ASSUME NEW f, NEW a, NEW b, Alike(f, a, b), NEW new
    PROVE  Join(f, a, new) = Join(f, b, new)
<1>1. ASSUME f = "context", Settled(a) = Settled(b)
      PROVE  Join(f, a, new) = Join(f, b, new)
  <2>1. \A c : Join(f, c, new) = UpdateContext(c, new)
    BY <1>1 DEF Join, Lists
  <2>2. UpdateContext(a, new) = UpdateContext(b, new)
    <3> DEFINE rest(c) == IF "passthru" \in DOMAIN new \/ c.passthru THEN NoContext ELSE c
    <3>1. rest(a) = rest(b)
      BY <1>1 DEF Settled
    <3>2. \A c : UpdateContext(c, new)
                   = [g \in DOMAIN rest(c) |-> IF g \in DOMAIN new THEN new[g] ELSE rest(c)[g]]
      BY DEF UpdateContext
    <3> HIDE DEF rest
    <3> QED BY <3>1, <3>2
  <2> QED BY <2>1, <2>2
<1> QED BY <1>1 DEF Alike

\* What clobbers a field sets the same in it, whatever was there.
LEMMA ClobberingForgets ==
    ASSUME NEW update, NEW f, Clobbers(update, f), NEW a, NEW b
    PROVE  Join(f, a, update[f]) = Join(f, b, update[f])
<1>1. CASE f = "mode"
  <2>1. \A c : Join(f, c, update[f]) = UpdateMode(c, update[f])
    BY <1>1 DEF Join, Lists
  <2>2. \A c : UpdateMode(c, update[f]) = update[f]
    BY <1>1 DEF UpdateMode, Clobbers
  <2> QED BY <2>1, <2>2
<1>2. CASE f = "context"
  <2> DEFINE new == update[f]
  <2>1. \A c : Join(f, c, new) = UpdateContext(c, new)
    BY <1>2 DEF Join, Lists
  <2>2. "passthru" \in DOMAIN new
    BY <1>2 DEF Clobbers
  <2> DEFINE fresh == [g \in DOMAIN NoContext |-> IF g \in DOMAIN new THEN new[g]
                                                ELSE NoContext[g]]
  <2>3. ASSUME NEW c PROVE UpdateContext(c, new) = fresh
    <3> DEFINE rest == IF "passthru" \in DOMAIN new \/ c.passthru THEN NoContext ELSE c
    <3>1. rest = NoContext
      BY <2>2
    <3>2. UpdateContext(c, new)
            = [g \in DOMAIN rest |-> IF g \in DOMAIN new THEN new[g] ELSE rest[g]]
      BY DEF UpdateContext
    <3> HIDE DEF rest, new
    <3> QED BY <3>1, <3>2
  <2> HIDE DEF fresh
  <2> QED BY <2>1, <2>3
<1>3. CASE f # "mode" /\ f # "context"
  BY <1>3 DEF Join, Clobbers
<1> QED BY <1>1, <1>2, <1>3

\* Applying an update, field by field.
LEMMA Applied ==
    ASSUME NEW low, LowTyped(low), NEW update, NEW f \in DOMAIN LowArgs
    PROVE  Apply(low, update)[f] = IF f \in DOMAIN update THEN Join(f, low[f], update[f])
                                   ELSE low[f]
<1>1. DOMAIN low = DOMAIN LowArgs
  BY DEF LowTyped
<1> QED BY <1>1 DEF Apply

\* Two parsers leave a field alone, or what they make of it is the same if what
\* they had could not be told apart.
Together(one, other, oneNext, otherNext) ==
    \A f \in DOMAIN LowArgs :
        \/ oneNext[f] = one[f] /\ otherNext[f] = other[f]
        \/ Alike(f, one[f], other[f]) => oneNext[f] = otherNext[f]

\* The same update applied to both leaves them together.
LEMMA AppliedTogether ==
    ASSUME NEW one, LowTyped(one), NEW other, LowTyped(other), NEW update
    PROVE  Together(one, other, Apply(one, update), Apply(other, update))
BY Applied, JoinsAlike DEF Together

\* What holds of one word after the other holds of the two.
LEMMA TogetherTwice ==
    ASSUME NEW a, NEW b, NEW a1, NEW b1, NEW a2, NEW b2,
           Together(a, b, a1, b1), Together(a1, b1, a2, b2)
    PROVE  Together(a, b, a2, b2)
BY DEF Together, Alike

\* A parser that fails has failed.
LEMMA Failing ==
    ASSUME NEW p, ParserTyped(p)
    PROVE  Fails(p).failed
<1>1. Fails(p) = [p EXCEPT !.failed = TRUE]
  BY DEF Fails
<1>2. Fails(p) = [low |-> p.low, awaits |-> p.awaits, failed |-> TRUE]
  BY <1>1 DEF ParserTyped
<1> QED BY <1>2

\* Counting -u does the same to both when they have counted as many.
LEMMA RepeatTogether ==
    ASSUME NEW p, ParserTyped(p), NEW q, ParserTyped(q), ~p.failed, ~q.failed,
           p.low.unrestricted = q.low.unrestricted, ~Repeat(p).failed
    PROVE  /\ ~Repeat(q).failed
           /\ Together(p.low, q.low, Repeat(p).low, Repeat(q).low)
           /\ Repeat(q).low.context = q.low.context
<1> DEFINE n == p.low.unrestricted + 1
           once(low) == Apply(low, [unrestricted |-> n])
           twice(low) == Apply(once(low), Levels[n])
<1>1. n \in 1 .. 4
  BY DEF ParserTyped, LowTyped
<1>2. n > 3 => Repeat(p) = Fails(p)
  BY DEF Repeat
<1>3. n \in 1 .. 3
  BY <1>1, <1>2, Failing
<1>4. \A r : n = r.low.unrestricted + 1 => Repeat(r) = [r EXCEPT !.low = twice(r.low)]
  BY <1>3 DEF Repeat
<1>5. /\ Repeat(p) = [low |-> twice(p.low), awaits |-> p.awaits, failed |-> p.failed]
      /\ Repeat(q) = [low |-> twice(q.low), awaits |-> q.awaits, failed |-> q.failed]
  <2> HIDE DEF twice
  <2> QED BY <1>4 DEF ParserTyped
<1>6. ASSUME NEW low, LowTyped(low)
      PROVE  LowTyped(once(low)) /\ once(low).context = low.context
  <2>1. LowTyped(once(low))
    BY <1>3, <1>6, ApplyKeepsTypes
  <2>2. "context" \notin DOMAIN [unrestricted |-> n]
    OBVIOUS
  <2> QED BY <1>6, <2>1, <2>2, FieldsAreThere, Applied
<1>7. "context" \notin DOMAIN Levels[n]
  BY <1>3, LevelsAreTame
<1> HIDE DEF n
<1>8. /\ Together(p.low, q.low, once(p.low), once(q.low))
      /\ Together(once(p.low), once(q.low), twice(p.low), twice(q.low))
  <2>1. LowTyped(p.low) /\ LowTyped(q.low)
    BY DEF ParserTyped
  <2>2. LowTyped(once(p.low)) /\ LowTyped(once(q.low))
    BY <1>6, <2>1
  <2>3. Together(p.low, q.low, once(p.low), once(q.low))
    BY <2>1, AppliedTogether
  <2> HIDE DEF once
  <2> QED BY <2>2, <2>3, AppliedTogether
<1>9. twice(q.low).context = q.low.context
  <2>1. LowTyped(q.low)
    BY DEF ParserTyped
  <2>2. LowTyped(once(q.low)) /\ once(q.low).context = q.low.context
    BY <1>6, <2>1
  <2> HIDE DEF once
  <2> QED BY <1>7, <2>2, FieldsAreThere, Applied
<1> HIDE DEF once, twice
<1>10. Together(p.low, q.low, twice(p.low), twice(q.low))
  BY <1>8, TogetherTwice
<1> QED BY <1>5, <1>9, <1>10

\* What a flag makes of a word, and what it does with it.
Says(w) == IF w.name \in FLAGS[Find[w.name]].negated THEN "off"
           ELSE IF "on" \in DOMAIN FLAGS[Find[w.name]].update THEN "on"
           ELSE w.value

Does(w) == FLAGS[Find[w.name]].update[Says(w)]

\* A flag that does the same however often it is given.
Sure(w) == IsFlag(w) /\ Find[w.name] # "Unrestricted"

\* A parser that takes the next word for a flag or a path.
Idle(p) == ParserTyped(p) /\ ~p.failed /\ p.awaits = "none"

\* A flag with its value is an error for every parser, or updates the low level
\* arguments of every one.
LEMMA FlagUpdates ==
    ASSUME NEW w, IsFlag(w), ~Opens(w)
    PROVE  /\ Find[w.name] \in DOMAIN FLAGS
           /\ \/ \A p : Idle(p) => Step(p, w) = Fails(p)
              \/ \A p : Idle(p) => Step(p, w) = Update(p, Find[w.name], Says(w))
<1> DEFINE flag    == Find[w.name]
           negated == w.name \in FLAGS[flag].negated
           switch  == "on" \in DOMAIN FLAGS[flag].update
<1>1. w.name \in Names /\ w.name \notin DOMAIN SpecialModes /\ w.name # ""
  BY NamesAreWords DEF IsFlag
<1>2. flag \in DOMAIN FLAGS
  BY <1>1, FindFinds
<1>3. \A p : Idle(p) => Step(p, w) = Match(p, flag, w)
  BY <1>1 DEF Step, Idle
<1>4. CASE negated \/ switch
  <2>1. \A p : Match(p, flag, w) = IF w.value # "none" THEN Fails(p)
                                   ELSE Update(p, flag, IF negated THEN "off" ELSE "on")
    BY <1>4 DEF Match
  <2>2. Says(w) = IF negated THEN "off" ELSE "on"
    BY <1>4 DEF Says
  <2> QED BY <1>2, <1>3, <2>1, <2>2
<1>5. CASE ~negated /\ ~switch
  <2>1. w.value # "none"
    BY <1>1, <1>5 DEF Opens
  <2>2. \A p : Match(p, flag, w) = Update(p, flag, w.value)
    BY <1>5, <2>1 DEF Match
  <2>3. Says(w) = w.value
    BY <1>5 DEF Says
  <2> QED BY <1>2, <1>3, <2>2, <2>3
<1> QED BY <1>4, <1>5

\* A switch that is not an error carries no value.
LEMMA SwitchesTakeNoValue ==
    ASSUME NEW p, Idle(p), NEW w, IsFlag(w), ~Step(p, w).failed,
           "on" \in DOMAIN FLAGS[Find[w.name]].update
    PROVE  w.value = "none"
<1> DEFINE flag    == Find[w.name]
           negated == w.name \in FLAGS[flag].negated
<1>1. w.name \in Names /\ w.name \notin DOMAIN SpecialModes /\ w.name # ""
  BY NamesAreWords DEF IsFlag
<1>2. Step(p, w) = Match(p, flag, w)
  BY <1>1 DEF Step, Idle
<1>3. Match(p, flag, w) = IF w.value # "none" THEN Fails(p)
                          ELSE Update(p, flag, IF negated THEN "off" ELSE "on")
  BY DEF Match
<1> QED BY <1>2, <1>3, Failing DEF Idle

\* A flag that does not fail one parser does the same to all.
LEMMA SureFlagDoes ==
    ASSUME NEW p, Idle(p), NEW w, Sure(w), ~Opens(w), ~Step(p, w).failed
    PROVE  /\ Find[w.name] \in DOMAIN FLAGS
           /\ Says(w) \in DOMAIN FLAGS[Find[w.name]].update
           /\ \A q : Idle(q) => ~Step(q, w).failed /\ Step(q, w).low = Apply(q.low, Does(w))
<1> DEFINE flag == Find[w.name]
<1>1. /\ flag \in DOMAIN FLAGS /\ flag # "Unrestricted"
      /\ \A q : Idle(q) => Step(q, w) = Update(q, flag, Says(w))
  BY FlagUpdates, Failing DEF Sure, Idle
<1>2. Says(w) \in DOMAIN FLAGS[flag].update
  <2>1. Says(w) \notin DOMAIN FLAGS[flag].update => Update(p, flag, Says(w)) = Fails(p)
    BY DEF Update
  <2> QED BY <1>1, <2>1, Failing DEF Idle
<1>3. \A q : Update(q, flag, Says(w)) = [q EXCEPT !.low = Apply(@, Does(w))]
  BY <1>1, <1>2 DEF Update, Does
<1> HIDE DEF flag
<1>4. ASSUME NEW q, Idle(q)
      PROVE  Step(q, w) = [low |-> Apply(q.low, Does(w)), awaits |-> q.awaits,
                           failed |-> q.failed]
  BY <1>1, <1>3, <1>4 DEF ParserTyped, Idle
<1> QED BY <1>1, <1>2, <1>4 DEF flag, Idle

\* One word that is not an error does the same to two parsers, as far as they
\* cannot be told apart, and the context changes with a flag that sets it.
LEMMA OneWordTwice ==
    ASSUME NEW p, Idle(p), NEW q, Idle(q), p.low.unrestricted = q.low.unrestricted,
           NEW w, ~Opens(w), ~Step(p, w).failed
    PROVE  /\ Idle(Step(p, w)) /\ Idle(Step(q, w))
           /\ Together(p.low, q.low, Step(p, w).low, Step(q, w).low)
           /\ \/ Step(q, w).low.context = q.low.context
              \/ Sure(w) /\ "context" \in DOMAIN Does(w)
<1> DEFINE Done == /\ ~Step(q, w).failed
                   /\ Together(p.low, q.low, Step(p, w).low, Step(q, w).low)
                   /\ \/ Step(q, w).low.context = q.low.context
                      \/ Sure(w) /\ "context" \in DOMAIN Does(w)
<1> SUFFICES Done
  BY StepKeepsTypes, AwaitsMoves DEF Idle
<1>1. LowTyped(p.low) /\ LowTyped(q.low) /\ "context" \in DOMAIN LowArgs
  BY FieldsAreThere DEF Idle, ParserTyped
<1>2. ASSUME NEW update, "context" \notin DOMAIN update,
             \A r : Idle(r) => Step(r, w) = [r EXCEPT !.low = Apply(@, update)]
      PROVE  Done
  <2>1. ASSUME NEW r, Idle(r)
        PROVE  Step(r, w) = [low |-> Apply(r.low, update), awaits |-> r.awaits,
                             failed |-> r.failed]
    BY <1>2, <2>1 DEF ParserTyped, Idle
  <2>2. Apply(q.low, update).context = q.low.context
    BY <1>1, <1>2, Applied
  <2> QED BY <1>1, <2>1, <2>2, AppliedTogether DEF Idle
<1>3. CASE w.name = ""
  <2> DEFINE update == [positional |-> <<w.value>>]
  <2>1. \A r : Idle(r) => Step(r, w) = [r EXCEPT !.low = Apply(@, update)]
    BY <1>3, NamesAreWords DEF Step, Idle
  <2>2. "context" \notin DOMAIN update
    OBVIOUS
  <2> HIDE DEF update, Done
  <2> QED BY <1>2, <2>1, <2>2
<1>4. CASE w.name # "" /\ w.name \in DOMAIN SpecialModes
  <2> DEFINE update == [special |-> SpecialModes[w.name]]
  <2>1. \A r : Idle(r) => Step(r, w) = IF w.value # "none" THEN Fails(r)
                                       ELSE [r EXCEPT !.low = Apply(@, update)]
    BY <1>4 DEF Step, Idle
  <2>2. "context" \notin DOMAIN update
    OBVIOUS
  <2>3. w.value = "none"
    BY <2>1, Failing DEF Idle
  <2> HIDE DEF update, Done
  <2> QED BY <1>2, <2>1, <2>2, <2>3
<1>5. CASE Sure(w)
  <2>1. \A r : Idle(r) => ~Step(r, w).failed /\ Step(r, w).low = Apply(r.low, Does(w))
    BY <1>5, SureFlagDoes
  <2>2. "context" \notin DOMAIN Does(w) => Apply(q.low, Does(w)).context = q.low.context
    BY <1>1, Applied
  <2> QED BY <1>1, <1>5, <2>1, <2>2, AppliedTogether
<1>6. CASE IsFlag(w) /\ Find[w.name] = "Unrestricted"
  <2>1. \A r : Idle(r) => Step(r, w) = Update(r, "Unrestricted", Says(w))
    BY <1>6, FlagUpdates, Failing DEF Idle
  <2>2. \A r : \/ Update(r, "Unrestricted", Says(w)) = Fails(r)
               \/ Says(w) \in DOMAIN FLAGS["Unrestricted"].update
    BY DEF Update
  <2>3. Says(w) \in DOMAIN FLAGS["Unrestricted"].update
    BY <2>1, <2>2, Failing DEF Idle
  <2>4. \A r : Idle(r) => Step(r, w) = Repeat(r)
    BY <2>1, <2>3 DEF Update
  <2> QED BY <2>4, RepeatTogether DEF Idle
<1>7. CASE w.name # "" /\ w.name \notin DOMAIN SpecialModes /\ w.name \notin Names
  <2>1. Step(p, w) = Fails(p)
    BY <1>7 DEF Step, Idle
  <2> QED BY <2>1, Failing DEF Idle
<1> HIDE DEF Done
<1> QED BY <1>3, <1>4, <1>5, <1>6, <1>7 DEF IsFlag, Sure

-----------------------------------------------------------------------------
(***************************************************************************)
(* The survivors.                                                          *)
(***************************************************************************)

\* The survivors among the first words.
Kept(words) ==
    CHOOSE upTo : upTo =
        [n \in 0 .. Len(words) |->
            IF n = 0 THEN <<>>
            ELSE IF Overridden(words, n) THEN upTo[n - 1]
            ELSE Append(upTo[n - 1], words[n])]

\* The survivors among the first words, word by word.
LEMMA SurvivorsUnfold ==
    ASSUME NEW S, NEW words \in Seq(S)
    PROVE  /\ Survivors(words) = Kept(words)[Len(words)]
           /\ Kept(words)[0] = <<>>
           /\ \A k \in 1 .. Len(words) :
                  Kept(words)[k] = IF Overridden(words, k) THEN Kept(words)[k - 1]
                                   ELSE Append(Kept(words)[k - 1], words[k])
<1> DEFINE next(g, k) == IF Overridden(words, k) THEN g ELSE Append(g, words[k])
           Does1(g, n) == g = [k \in 0 .. n |-> IF k = 0 THEN <<>> ELSE next(g[k - 1], k)]
           Missing == {n \in Nat : \A g : ~Does1(g, n)}
<1>1. ASSUME Missing # {} PROVE FALSE
  <2> HIDE DEF Does1, next
  <2>1. PICK n \in Missing : \A m \in Missing : n <= m
    BY <1>1, LeastNumber
  <2>2. CASE n = 0
    <3> DEFINE g == [k \in 0 .. 0 |-> <<>>]
    <3>1. Does1(g, 0)
      BY DEF Does1
    <3> QED BY <2>1, <2>2, <3>1
  <2>3. CASE n # 0
    <3>1. n \in Nat /\ n - 1 \in Nat /\ n - 1 \notin Missing
      BY <2>1, <2>3
    <3>2. PICK h : Does1(h, n - 1)
      BY <3>1
    <3> DEFINE g == [k \in 0 .. n |-> IF k = n THEN next(h[n - 1], n) ELSE h[k]]
    <3>3. ASSUME NEW k \in 0 .. n
          PROVE  g[k] = IF k = 0 THEN <<>> ELSE next(g[k - 1], k)
      <4>1. CASE k = n
        <5>1. k - 1 \in 0 .. n /\ k - 1 # n /\ k # 0
          BY <3>1, <4>1, <2>3
        <5> QED BY <4>1, <5>1
      <4>2. CASE k # n
        <5>1. k \in 0 .. n - 1 /\ (k # 0 => k - 1 \in 0 .. n /\ k - 1 # n)
          BY <3>1, <4>2
        <5>2. h[k] = IF k = 0 THEN <<>> ELSE next(h[k - 1], k)
          BY <3>2, <5>1 DEF Does1
        <5> QED BY <4>2, <5>1, <5>2
      <4> QED BY <4>1, <4>2
    <3>4. Does1(g, n)
      BY <3>3 DEF Does1
    <3> QED BY <2>1, <3>4
  <2> QED BY <2>2, <2>3
<1> DEFINE n == Len(words)
<1>2. n \in Nat
  OBVIOUS
<1>3. Kept(words) = CHOOSE g : Does1(g, n)
  BY DEF Kept
<1>4. Survivors(words) = Kept(words)[n]
  BY DEF Survivors, Kept
<1> HIDE DEF n
<1>5. Does1(Kept(words), n)
  <2> HIDE DEF Does1
  <2>1. \E g : Does1(g, n)
    BY <1>1, <1>2
  <2> QED BY <1>3, <2>1
<1> HIDE DEF Missing
<1>6. Kept(words)[0] = <<>>
  <2>1. 0 \in 0 .. n
    BY <1>2
  <2> HIDE DEF next
  <2> QED BY <1>5, <2>1
<1>7. ASSUME NEW k \in 1 .. n
      PROVE  Kept(words)[k] = next(Kept(words)[k - 1], k)
  <2>1. k \in 0 .. n /\ k # 0
    BY <1>2
  <2> HIDE DEF next
  <2> QED BY <1>5, <2>1
<1> QED BY <1>4, <1>6, <1>7 DEF n

\* While the parser fails at no word and every flag has its value attached, it is
\* idle after each.
LEMMA ParserStaysIdle ==
    ASSUME NEW S, NEW words \in Seq(S), ~Parse(words).failed,
           \A k \in 1 .. Len(words) : ~Opens(words[k])
    PROVE  \A k \in 0 .. Len(words) : Idle(After(words, k))
<1> DEFINE n == Len(words)
           fails == {k \in 0 .. n : After(words, n - k).failed}
           stirs == {k \in 0 .. n : ~Idle(After(words, k))}
<1>1. n \in Nat
  OBVIOUS
<1>2. /\ After(words, n) = Parse(words) /\ After(words, 0) = Fresh
      /\ \A k \in 1 .. n : After(words, k) = Step(After(words, k - 1), words[k])
  BY ParseUnfolds
<1> HIDE DEF n
<1>3. fails = {}
  <2>1. SUFFICES ASSUME fails # {} PROVE FALSE
    OBVIOUS
  <2>2. fails \subseteq Nat
    BY <1>1
  <2>3. PICK k \in fails : \A m \in fails : k <= m
    BY <2>1, <2>2, LeastNumber
  <2>4. k # 0
    <3>1. n - 0 = n
      BY <1>1
    <3> QED BY <1>2, <2>3, <3>1
  <2>5. k \in 1 .. n /\ k - 1 \in 0 .. n /\ k - 1 \notin fails
    BY <1>1, <2>3, <2>4
  <2>6. /\ n - (k - 1) \in 1 .. n /\ n - (k - 1) - 1 = n - k
    BY <1>1, <2>5
  <2>7. After(words, n - (k - 1)) = Step(After(words, n - k), words[n - (k - 1)])
    BY <1>2, <2>6
  <2>8. After(words, n - k).failed
    BY <2>3
  <2>9. After(words, n - (k - 1)).failed
    BY <2>7, <2>8 DEF Step
  <2> QED BY <2>5, <2>9
<1>4. ASSUME NEW k \in 0 .. n PROVE ~After(words, k).failed
  <2>1. n - k \in 0 .. n /\ n - (n - k) = k
    BY <1>1
  <2> QED BY <1>3, <2>1
<1>5. stirs = {}
  <2>1. SUFFICES ASSUME stirs # {} PROVE FALSE
    OBVIOUS
  <2>2. stirs \subseteq Nat
    BY <1>1
  <2>3. PICK k \in stirs : \A m \in stirs : k <= m
    BY <2>1, <2>2, LeastNumber
  <2>4. k # 0
    <3>1. Idle(Fresh)
      BY FreshIsTyped DEF Idle, Fresh
    <3> QED BY <1>2, <2>3, <3>1
  <2>5. k \in 1 .. n /\ k - 1 \in 0 .. n /\ k - 1 \notin stirs
    BY <1>1, <2>3, <2>4
  <2>6. Idle(After(words, k - 1)) /\ After(words, k) = Step(After(words, k - 1), words[k])
    BY <1>2, <2>5
  <2>7. ~After(words, k).failed /\ ~Opens(words[k])
    BY <1>4, <2>5 DEF n
  <2>8. Idle(After(words, k))
    BY <2>6, <2>7, StepKeepsTypes, AwaitsMoves DEF Idle
  <2> QED BY <2>3, <2>8
<1> QED BY <1>5 DEF n

-----------------------------------------------------------------------------
(***************************************************************************)
(* The parser of all words and the parser of the survivors.                *)
(***************************************************************************)

\* A later word sets the field whatever is in it.
Doomed(words, k, f) ==
    \E j \in k + 1 .. Len(words) : Sure(words[j]) /\ Clobbers(Does(words[j]), f)

\* A later word sets the context.
Resumes(words, k) ==
    \E j \in k + 1 .. Len(words) : Sure(words[j]) /\ "context" \in DOMAIN Does(words[j])

\* After k words, of which the second parser has seen those that survive: where
\* the two disagree a later word sees to it.
Shadows(words, k) ==
    LET all  == After(words, k)
        some == Parse(Kept(words)[k])
    IN  /\ Idle(some)
        /\ all.low.unrestricted = some.low.unrestricted
        /\ \A f \in DOMAIN LowArgs :
               \/ all.low[f] = some.low[f]
               \/ Doomed(words, k, f)
               \/ Alike(f, all.low[f], some.low[f]) /\ Resumes(words, k)
        /\ some.low.context # NoContext =>
               \E i \in 1 .. k : /\ ~Overridden(words, i) /\ Sure(words[i])
                                 /\ "context" \in DOMAIN Does(words[i])

\* Whoever comes later comes later than the word before, or is the next word.
LEMMA NextOrLater ==
    ASSUME NEW S, NEW words \in Seq(S), NEW k \in 1 .. Len(words)
    PROVE  /\ k - 1 \in 0 .. Len(words) /\ k \in 0 .. Len(words)
           /\ k \in k - 1 + 1 .. Len(words)
           /\ \A j : j \in k - 1 + 1 .. Len(words) <=> j = k \/ j \in k + 1 .. Len(words)
           /\ \A i \in 1 .. k - 1 : i \in 1 .. k /\ k \in i + 1 .. Len(words)
OBVIOUS

\* The survivors are words of the line.
LEMMA KeptAreWords ==
    ASSUME NEW S, NEW words \in Seq(S)
    PROVE  \A k \in 0 .. Len(words) : Kept(words)[k] \in Seq(S)
<1> DEFINE n == Len(words)
           Wrong == {k \in 0 .. n : Kept(words)[k] \notin Seq(S)}
<1>1. n \in Nat
  OBVIOUS
<1>2. /\ Kept(words)[0] = <<>>
      /\ \A k \in 1 .. n : Kept(words)[k] = IF Overridden(words, k) THEN Kept(words)[k - 1]
                                            ELSE Append(Kept(words)[k - 1], words[k])
  BY SurvivorsUnfold
<1>3. \A k \in 1 .. n : words[k] \in S
  OBVIOUS
<1> HIDE DEF n
<1>4. SUFFICES ASSUME Wrong # {} PROVE FALSE
  BY DEF n
<1>5. Wrong \subseteq Nat
  BY <1>1
<1>6. PICK k \in Wrong : \A m \in Wrong : k <= m
  BY <1>4, <1>5, LeastNumber
<1>7. k # 0
  <2>1. <<>> \in Seq(S)
    OBVIOUS
  <2> QED BY <1>2, <1>6, <2>1
<1>8. k \in 1 .. n /\ k - 1 \in 0 .. n /\ k - 1 \notin Wrong
  BY <1>1, <1>6, <1>7
<1>9. Kept(words)[k] \in Seq(S)
  <2>1. words[k] \in S /\ Kept(words)[k - 1] \in Seq(S)
    BY <1>3, <1>8
  <2>2. \A s \in Seq(S), w \in S : Append(s, w) \in Seq(S)
    OBVIOUS
  <2>3. Append(Kept(words)[k - 1], words[k]) \in Seq(S)
    BY <2>1, <2>2
  <2> QED BY <1>2, <1>8, <2>1, <2>3
<1> QED BY <1>6, <1>9

\* A word that survives is read by both.
LEMMA KeptWord ==
    ASSUME NEW S, NEW words \in Seq(S), NEW k \in 1 .. Len(words),
           Shadows(words, k - 1), ~Overridden(words, k), ~Opens(words[k]),
           Idle(After(words, k - 1)), Idle(After(words, k))
    PROVE  Shadows(words, k)
<1> DEFINE w == words[k]
           x == After(words, k - 1)
           y == Parse(Kept(words)[k - 1])
           x1 == After(words, k)
           y1 == Parse(Kept(words)[k])
<1>1. x1 = Step(x, w) /\ y1 = Step(y, w)
  <2>1. Kept(words)[k] = Append(Kept(words)[k - 1], w)
    BY SurvivorsUnfold
  <2>2. Kept(words)[k - 1] \in Seq(S) /\ w \in S
    BY KeptAreWords, NextOrLater
  <2> QED BY <2>1, <2>2, ParseAppends, ParseUnfolds
<1>2. /\ Idle(y) /\ x.low.unrestricted = y.low.unrestricted
      /\ \A f \in DOMAIN LowArgs :
             \/ x.low[f] = y.low[f]
             \/ Doomed(words, k - 1, f)
             \/ Alike(f, x.low[f], y.low[f]) /\ Resumes(words, k - 1)
      /\ y.low.context # NoContext =>
             \E i \in 1 .. k - 1 : /\ ~Overridden(words, i) /\ Sure(words[i])
                                   /\ "context" \in DOMAIN Does(words[i])
  BY DEF Shadows
<1>3. Idle(x) /\ Idle(x1) /\ ~x1.failed
  BY DEF Idle
<1> HIDE DEF x, y, x1, y1
<1>4. /\ Idle(y1) /\ Together(x.low, y.low, x1.low, y1.low)
      /\ y1.low.context = y.low.context \/ (Sure(w) /\ "context" \in DOMAIN Does(w))
  BY <1>1, <1>2, <1>3, OneWordTwice
<1>5. Sure(w) => x1.low = Apply(x.low, Does(w)) /\ y1.low = Apply(y.low, Does(w))
  BY <1>1, <1>2, <1>3, SureFlagDoes
<1>6. LowTyped(x.low) /\ LowTyped(y.low)
  BY <1>2, <1>3 DEF Idle, ParserTyped
<1>7. ASSUME NEW f \in DOMAIN LowArgs
      PROVE  \/ x1.low[f] = y1.low[f]
             \/ Doomed(words, k, f)
             \/ Alike(f, x1.low[f], y1.low[f]) /\ Resumes(words, k)
  <2>1. ASSUME Sure(w), Clobbers(Does(w), f)
        PROVE  x1.low[f] = y1.low[f]
    <3>1. f \in DOMAIN Does(w)
      BY <2>1 DEF Clobbers
    <3> QED BY <1>5, <1>6, <2>1, <3>1, Applied, ClobberingForgets
  <2>2. ASSUME Sure(w), f \in DOMAIN Does(w), Alike(f, x.low[f], y.low[f])
        PROVE  x1.low[f] = y1.low[f]
    BY <1>5, <1>6, <2>2, Applied, JoinsAlike
  <2>3. CASE x.low[f] = y.low[f]
    BY <1>4, <2>3 DEF Together, Alike
  <2>4. CASE Doomed(words, k - 1, f)
    <3>1. PICK j \in k - 1 + 1 .. Len(words) : Sure(words[j]) /\ Clobbers(Does(words[j]), f)
      BY <2>4 DEF Doomed
    <3>2. j = k \/ j \in k + 1 .. Len(words)
      BY NextOrLater
    <3> QED BY <2>1, <3>1, <3>2 DEF Doomed
  <2>5. CASE Alike(f, x.low[f], y.low[f]) /\ Resumes(words, k - 1)
    <3>1. PICK j \in k - 1 + 1 .. Len(words) :
              Sure(words[j]) /\ "context" \in DOMAIN Does(words[j])
      BY <2>5 DEF Resumes
    <3>2. CASE j = k
      <4>1. f = "context" => x1.low[f] = y1.low[f]
        BY <2>2, <2>5, <3>1, <3>2
      <4> QED BY <1>4, <2>5, <4>1 DEF Together, Alike
    <3>3. CASE j \in k + 1 .. Len(words)
      <4>1. Resumes(words, k)
        BY <3>1, <3>3 DEF Resumes
      <4> QED BY <1>4, <2>5, <4>1 DEF Together
    <3> QED BY <3>2, <3>3, NextOrLater
  <2> QED BY <1>2, <2>3, <2>4, <2>5
<1>8. x1.low.unrestricted = y1.low.unrestricted
  BY <1>2, <1>4, FieldsAreThere DEF Together, Alike
<1>9. ASSUME y1.low.context # NoContext
      PROVE  \E i \in 1 .. k : /\ ~Overridden(words, i) /\ Sure(words[i])
                               /\ "context" \in DOMAIN Does(words[i])
  <2>1. CASE Sure(w) /\ "context" \in DOMAIN Does(w)
    <3>1. k \in 1 .. k
      OBVIOUS
    <3> QED BY <2>1, <3>1
  <2>2. CASE y1.low.context = y.low.context
    BY <1>2, <1>9, <2>2, NextOrLater
  <2> QED BY <1>4, <2>1, <2>2
<1> QED BY <1>4, <1>7, <1>8, <1>9 DEF Shadows, x1, y1

\* What overrides a word, and how.
LEMMA Overrider ==
    ASSUME NEW S, NEW words \in Seq(S), NEW k \in 1 .. Len(words), Overridden(words, k),
           \A i \in 1 .. Len(words) : ~Opens(words[i]) /\ words[i].value \notin {"on", "off"},
           \A i \in 0 .. Len(words) : Idle(After(words, i))
    PROVE  /\ Sure(words[k])
           /\ \E j \in k + 1 .. Len(words) :
                  /\ Sure(words[j]) /\ Find[words[k].name] \in OverriddenBy(words[j])
                  /\ Wipes(Does(words[j]), Find[words[k].name])
<1> DEFINE g == Find[words[k].name]
<1>1. IsFlag(words[k]) /\ \E j \in k + 1 .. Len(words) : g \in OverriddenBy(words[j])
  BY DEF Overridden
<1>2. PICK j \in k + 1 .. Len(words) : g \in OverriddenBy(words[j])
  BY <1>1
<1> DEFINE v == words[j]
           flag == Find[v.name]
<1>3. /\ IsFlag(v) /\ v.value # NoText /\ v.name \notin FLAGS[flag].negated
      /\ g \in FLAGS[flag].over
  BY <1>2 DEF OverriddenBy, NoText
<1>4. flag \in DOMAIN FLAGS
  BY <1>3, FindFinds DEF IsFlag
<1>5. Firm(FLAGS[flag])
  BY <1>4, FlagsAreFirm
<1>6. g \in DOMAIN FLAGS /\ g # "Unrestricted"
  BY <1>3, <1>5 DEF Firm
<1>7. flag # "Unrestricted"
  <2>1. FLAGS["Unrestricted"] = Unrestricted
    BY DEF FLAGS
  <2>2. Unrestricted.over = {}
    BY DEF Unrestricted, Switch, Flag
  <2> QED BY <1>3, <2>1, <2>2
<1>8. /\ j \in 1 .. Len(words) /\ j - 1 \in 0 .. Len(words) /\ j \in 0 .. Len(words)
  BY <1>2
<1>9. Idle(After(words, j - 1)) /\ ~Step(After(words, j - 1), v).failed
  <2>1. After(words, j) = Step(After(words, j - 1), words[j])
    BY <1>8, ParseUnfolds
  <2> QED BY <1>8, <2>1 DEF Idle
<1>10. Sure(v) /\ ~Opens(v) /\ v.value \notin {"on", "off"}
  BY <1>3, <1>7, <1>8 DEF Sure
<1>11. Says(v) \in DOMAIN FLAGS[flag].update
  BY <1>9, <1>10, SureFlagDoes
<1>12. Says(v) # "off" /\ Says(v) # NoText
  <2>1. "on" # NoText
    BY DEF NoText
  <2>2. Says(v) \in {"on", v.value}
    BY <1>3 DEF Says
  <2> QED BY <1>3, <1>10, <2>1, <2>2
<1>13. Wipes(Does(v), g)
  BY <1>3, <1>5, <1>11, <1>12 DEF Firm, Does
<1> QED BY <1>1, <1>2, <1>6, <1>10, <1>13 DEF Sure

\* The four flags that set the context.
LEMMA ContextFlags ==
    ASSUME NEW flag \in DOMAIN FLAGS, NEW u \in DOMAIN FLAGS[flag].update,
           "context" \in DOMAIN FLAGS[flag].update[u]
    PROVE  flag \in {"Context", "AfterContext", "BeforeContext", "Passthru"}
<1>1. FLAGS[flag] \in {Context, AfterContext, BeforeContext, Passthru}
  BY OthersSpareContext DEF Spares, Contextual
<1>2. ASSUME NEW other \in {"Context", "AfterContext", "BeforeContext", "Passthru"},
             FLAGS[flag] = FLAGS[other], flag # other
      PROVE  FALSE
  <2>1. other \in DOMAIN FLAGS
    BY <1>2, NamedFlags DEF Overridable
  <2>2. NamesOf(flag) = NamesOf(other) /\ NamesOf(flag) \cap NamesOf(other) = {}
    BY <1>2, <2>1, NamesAssumption DEF NamesOf
  <2>3. /\ "context" \in Context.names /\ "after-context" \in AfterContext.names
        /\ "before-context" \in BeforeContext.names /\ "passthru" \in Passthru.names
    BY DEF Context, AfterContext, BeforeContext, Passthru, Valued, Switch, Flag
  <2>4. NamesOf(other) # {}
    BY <1>2, <2>3, NamedFlags DEF NamesOf
  <2> QED BY <2>2, <2>4
<1> QED BY <1>1, <1>2, NamedFlags

\* A word that is overridden is read by one of the two: what it does is undone.
LEMMA RemovedWord ==
    ASSUME NEW S, NEW words \in Seq(S), NEW k \in 1 .. Len(words),
           Shadows(words, k - 1), Overridden(words, k),
           \A i \in 1 .. Len(words) : ~Opens(words[i]) /\ words[i].value \notin {"on", "off"},
           \A i \in 0 .. Len(words) : Idle(After(words, i))
    PROVE  Shadows(words, k)
<1> DEFINE w == words[k]
           g == Find[w.name]
           x == After(words, k - 1)
           y == Parse(Kept(words)[k - 1])
           x1 == After(words, k)
<1>1. /\ Kept(words)[k] = Kept(words)[k - 1]
      /\ x1 = Step(x, w)
  BY SurvivorsUnfold, ParseUnfolds
<1>2. /\ Idle(y) /\ x.low.unrestricted = y.low.unrestricted
      /\ \A f \in DOMAIN LowArgs :
             \/ x.low[f] = y.low[f]
             \/ Doomed(words, k - 1, f)
             \/ Alike(f, x.low[f], y.low[f]) /\ Resumes(words, k - 1)
      /\ y.low.context # NoContext =>
             \E i \in 1 .. k - 1 : /\ ~Overridden(words, i) /\ Sure(words[i])
                                   /\ "context" \in DOMAIN Does(words[i])
  BY DEF Shadows
<1>3. Idle(x) /\ Idle(x1) /\ ~x1.failed /\ ~Opens(w)
  <2>1. Idle(x) /\ Idle(x1)
    BY NextOrLater
  <2> QED BY <2>1 DEF Idle
<1>4. PICK j \in k + 1 .. Len(words) :
          Sure(words[j]) /\ g \in OverriddenBy(words[j]) /\ Wipes(Does(words[j]), g)
  BY Overrider
<1>5. Sure(w)
  BY Overrider
<1> HIDE DEF x, y, x1
<1>6. /\ g \in DOMAIN FLAGS /\ Says(w) \in DOMAIN FLAGS[g].update
      /\ x1.low = Apply(x.low, Does(w))
  BY <1>1, <1>3, <1>5, SureFlagDoes
<1>7. LowTyped(x.low) /\ LowTyped(y.low)
  BY <1>2, <1>3 DEF Idle, ParserTyped
<1>8. ASSUME NEW f \in DOMAIN Does(w)
      PROVE  /\ f # "unrestricted"
             /\ \/ Clobbers(Does(words[j]), f)
                \/ g = "Passthru" /\ f = "context" /\ f \in DOMAIN Does(words[j])
  BY <1>4, <1>6, <1>8 DEF Wipes, Does
<1>9. ASSUME g = "Passthru", "context" \in DOMAIN Does(w)
      PROVE  Alike("context", x1.low.context, y.low.context)
  <2>1. y.low.context = NoContext
    <3>1. SUFFICES ASSUME y.low.context # NoContext PROVE FALSE
      OBVIOUS
    <3>2. PICK i \in 1 .. k - 1 : /\ ~Overridden(words, i) /\ Sure(words[i])
                                  /\ "context" \in DOMAIN Does(words[i])
      BY <1>2, <3>1
    <3> DEFINE h == Find[words[i].name]
    <3>3. i \in 1 .. Len(words) /\ i - 1 \in 0 .. Len(words) /\ i \in 0 .. Len(words)
      BY <3>2
    <3>4. /\ h \in DOMAIN FLAGS /\ Says(words[i]) \in DOMAIN FLAGS[h].update
      <4>1. Idle(After(words, i - 1)) /\ ~Opens(words[i])
        BY <3>3
      <4>2. ~Step(After(words, i - 1), words[i]).failed
        BY <3>3, ParseUnfolds DEF Idle
      <4> QED BY <3>2, <4>1, <4>2, SureFlagDoes
    <3>5. h \in {"Context", "AfterContext", "BeforeContext", "Passthru"}
      BY <3>2, <3>4, ContextFlags DEF Does
    <3>6. h \in OverriddenBy(words[j]) \/ h \in OverriddenBy(w)
      <4>1. Passthru.over = {"Context", "AfterContext", "BeforeContext"}
            /\ Passthru.negated = {} /\ "on" \in DOMAIN Passthru.update
        BY DEF Passthru, Switch, Flag
      <4>2. w.value = "none" /\ IsFlag(w)
        BY <1>1, <1>3, <1>5, <1>9, <4>1, NamedFlags, SwitchesTakeNoValue DEF Sure
      <4>3. OverriddenBy(w) = FLAGS[g].over
        BY <1>9, <4>1, <4>2, NamedFlags DEF OverriddenBy
      <4> QED BY <1>4, <1>9, <3>5, <4>1, <4>3, NamedFlags
    <3>7. j \in i + 1 .. Len(words) /\ k \in i + 1 .. Len(words)
      BY <1>4, <3>2
    <3> QED BY <3>2, <3>6, <3>7 DEF Overridden, Sure
  <2>2. x1.low.context.passthru
    <3>1. Does(w) = Passthru.update[Says(w)] /\ Says(w) \in DOMAIN Passthru.update
      BY <1>6, <1>9, NamedFlags DEF Does
    <3>2. Does(w)["context"] = [passthru |-> TRUE]
      <4>1. Passthru.update = [on |-> [context |-> [passthru |-> TRUE]]]
        BY Zenon DEF Passthru, Switch, Flag
      <4>2. Says(w) = "on"
        BY <3>1, <4>1
      <4>3. Does(w) = [context |-> [passthru |-> TRUE]]
        BY <3>1, <4>1, <4>2
      <4> QED BY <4>3
    <3>3. x1.low["context"] = UpdateContext(x.low["context"], [passthru |-> TRUE])
      BY <1>6, <1>7, <1>9, <3>2, FieldsAreThere, Applied DEF Join, Lists
    <3>4. ASSUME NEW c PROVE UpdateContext(c, [passthru |-> TRUE]).passthru
      <4> DEFINE set == [passthru |-> TRUE]
                 rest == IF "passthru" \in DOMAIN set \/ c.passthru THEN NoContext ELSE c
      <4>1. rest = NoContext
        OBVIOUS
      <4>2. UpdateContext(c, set)
              = [f \in DOMAIN rest |-> IF f \in DOMAIN set THEN set[f] ELSE rest[f]]
        BY DEF UpdateContext
      <4>3. "passthru" \in DOMAIN NoContext
        BY DEF NoContext
      <4>4. "passthru" \in DOMAIN set /\ set["passthru"] = TRUE
        OBVIOUS
      <4> HIDE DEF rest, set
      <4>5. UpdateContext(c, set).passthru
        BY <4>1, <4>2, <4>3, <4>4
      <4> QED BY <4>5 DEF set
    <3> QED BY <3>3, <3>4
  <2> QED BY <2>1, <2>2 DEF Alike, Settled, NoContext
<1>10. ASSUME NEW f \in DOMAIN LowArgs
       PROVE  \/ x1.low[f] = y.low[f]
              \/ Doomed(words, k, f)
              \/ Alike(f, x1.low[f], y.low[f]) /\ Resumes(words, k)
  <2>1. CASE f \in DOMAIN Does(w)
    BY <1>4, <1>8, <1>9, <2>1 DEF Doomed, Resumes
  <2>2. CASE f \notin DOMAIN Does(w)
    <3>1. x1.low[f] = x.low[f]
      BY <1>6, <1>7, <2>2, Applied
    <3>2. Doomed(words, k - 1, f) => Doomed(words, k, f)
      BY <2>2, NextOrLater DEF Doomed, Clobbers
    <3>3. f = "context" /\ Resumes(words, k - 1) => Resumes(words, k)
      BY <2>2, NextOrLater DEF Resumes
    <3> QED BY <1>2, <3>1, <3>2, <3>3 DEF Alike
  <2> QED BY <2>1, <2>2
<1>11. x1.low.unrestricted = y.low.unrestricted
  BY <1>2, <1>6, <1>7, <1>8, FieldsAreThere, Applied
<1>12. y.low.context # NoContext =>
           \E i \in 1 .. k : /\ ~Overridden(words, i) /\ Sure(words[i])
                             /\ "context" \in DOMAIN Does(words[i])
  BY <1>2, NextOrLater
<1> QED BY <1>1, <1>2, <1>10, <1>11, <1>12 DEF Shadows, x1, y

\* The survivors of a line say what the line says.
LEMMA SurvivorsSayTheSame ==
    ASSUME NEW S, NEW words \in Seq(S), ~Parse(words).failed,
           \A i \in 1 .. Len(words) : ~Opens(words[i]) /\ words[i].value \notin {"on", "off"}
    PROVE  Parse(Survivors(words)).low = Parse(words).low
<1> DEFINE n == Len(words)
           Wrong == {k \in 0 .. n : ~Shadows(words, k)}
<1>1. n \in Nat
  OBVIOUS
<1>2. \A k \in 0 .. n : Idle(After(words, k))
  BY ParserStaysIdle
<1>3. Shadows(words, 0)
  <2>1. After(words, 0) = Fresh /\ Kept(words)[0] = <<>>
    BY ParseUnfolds, SurvivorsUnfold
  <2>2. Parse(<<>>) = Fresh
    <3>1. <<>> \in Seq(S) /\ Len(<<>>) = 0
      OBVIOUS
    <3> QED BY <3>1, ParseUnfolds
  <2>3. Fresh.low.context = NoContext
    BY DEF Fresh, LowArgs
  <2>4. Idle(Fresh)
    BY FreshIsTyped DEF Idle, Fresh
  <2> QED BY <2>1, <2>2, <2>3, <2>4 DEF Shadows
<1>4. ASSUME NEW k \in 1 .. n, Shadows(words, k - 1)
      PROVE  Shadows(words, k)
  <2>1. Idle(After(words, k - 1)) /\ Idle(After(words, k))
    BY <1>1, <1>2
  <2> QED BY <1>2, <1>4, <2>1, KeptWord, RemovedWord
<1> HIDE DEF n
<1>5. Wrong = {}
  <2>1. SUFFICES ASSUME Wrong # {} PROVE FALSE
    OBVIOUS
  <2>2. Wrong \subseteq Nat
    BY <1>1
  <2>3. PICK k \in Wrong : \A m \in Wrong : k <= m
    BY <2>1, <2>2, LeastNumber
  <2>4. k # 0 /\ k \in 0 .. n /\ ~Shadows(words, k)
    BY <1>3, <2>3
  <2>5. k \in 1 .. n /\ k - 1 \in 0 .. n /\ k - 1 \notin Wrong
    BY <1>1, <2>3, <2>4
  <2> QED BY <1>4, <2>4, <2>5
<1>6. Shadows(words, n) /\ Idle(After(words, n))
  BY <1>1, <1>2, <1>5
<1>7. n + 1 .. Len(words) = {}
  BY <1>1 DEF n
<1> DEFINE x == After(words, n)
           y == Parse(Kept(words)[n])
<1>8. \A f \in DOMAIN LowArgs : x.low[f] = y.low[f]
  BY <1>6, <1>7 DEF Shadows, Doomed, Resumes
<1>9. LowTyped(x.low) /\ LowTyped(y.low)
  BY <1>6 DEF Shadows, Idle, ParserTyped
<1>10. x = Parse(words) /\ y = Parse(Survivors(words))
  BY ParseUnfolds, SurvivorsUnfold DEF n
<1> HIDE DEF x, y
<1>11. x.low = y.low
  BY <1>8, <1>9 DEF LowTyped
<1> QED BY <1>10, <1>11

\* On the command line the parser has read the line.
ReadTheLine == stage = "cli" => parser = Parse(line)

\* What the parser holds is what it makes of the words read so far.
LEMMA LineIsRead == Spec => []ReadTheLine
<1>1. Init => ReadTheLine
  <2> SUFFICES ASSUME Init PROVE ReadTheLine
    OBVIOUS
  <2>1. <<>> \in Seq(theme) /\ Len(<<>>) = 0
    OBVIOUS
  <2>2. Parse(<<>>) = Fresh
    BY <2>1, ParseUnfolds
  <2> QED BY <2>2 DEF Init, ReadTheLine
<1>2. ArgsInvariant /\ ReadTheLine /\ [Next]_vars => ReadTheLine'
  <2> SUFFICES ASSUME ArgsInvariant, ReadTheLine, [Next]_vars PROVE ReadTheLine'
    OBVIOUS
  <2>1. ASSUME NEW w \in theme, Word(w) PROVE ReadTheLine'
    <3>1. line \in Seq(theme)
      BY DEF ArgsInvariant
    <3> QED BY <2>1, <3>1, ParseAppends DEF Word, ReadTheLine
  <2>2. CASE BadArguments \/ ShortCircuit \/ SkipConfig \/ ReadConfig
    BY <2>2 DEF BadArguments, ShortCircuit, SkipConfig, ReadConfig, Ends, ReadTheLine
  <2>3. CASE Convert \/ Run
    BY <2>3 DEF Convert, Run, Ends, ReadTheLine
  <2>4. CASE UNCHANGED vars
    BY <2>4 DEF vars, ReadTheLine
  <2> QED BY <2>1, <2>2, <2>3, <2>4 DEF Next
<1> QED BY <1>1, <1>2, ArgsInvariantHolds, PTL DEF Spec

\* A flag that a later one overrides, as the documentation of that one says,
\* leaves nothing behind in any field of the low level arguments (defs.rs, the
\* updates of the flags; lowargs.rs, Mode::update and ContextMode).
THEOREM OverriddenFlagsAreForgotten == Spec => []OverriddenFlagsLeaveNoTrace
<1>1. ArgsInvariant /\ ReadTheLine => OverriddenFlagsLeaveNoTrace
  <2> SUFFICES ASSUME ArgsInvariant, ReadTheLine, stage = "cli", ~Rejected(parser),
                      ValuesAttached(line)
               PROVE  Parse(Survivors(line)).low = parser.low
    BY DEF OverriddenFlagsLeaveNoTrace
  <2>1. theme \in Themes /\ line \in Seq(theme)
    BY DEF ArgsInvariant
  <2>2. parser = Parse(line) /\ ~Parse(line).failed
    BY DEF ReadTheLine, Rejected
  <2>3. ASSUME NEW i \in 1 .. Len(line)
        PROVE  ~Opens(line[i]) /\ line[i].value \notin {"on", "off"}
    <3>1. line[i] \in theme /\ line[i] \in ToSet(line)
      BY <2>1 DEF ToSet
    <3>2. line[i].value \notin {"on", "off"}
      BY <2>1, <3>1, ThemesAssumption
    <3>3. ~Opens(line[i])
      BY <3>1 DEF ValuesAttached, Opens, IsFlag
    <3> QED BY <3>2, <3>3
  <2> QED BY <2>1, <2>2, <2>3, SurvivorsSayTheSame
<1> QED BY <1>1, ArgsInvariantHolds, LineIsRead, PTL
=============================================================================
