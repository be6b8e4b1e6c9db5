------------------------- MODULE GlasstraceCli_proofs -------------------------
(***************************************************************************)
(* The commands of the CLI keep what the user wrote, a failed init leaves  *)
(* nothing behind, and keys outlive every step that is not theirs to take, *)
(* for any projects, options, keys and number of commands, wherever they   *)
(* fail or are killed, and with a running SDK next to them.  Where nothing *)
(* comes in between, uninit gives the project back, and every command ends *)
(* in a state that `validate` and `status` describe.                       *)
(***************************************************************************)
EXTENDS GlasstraceCli, FiniteSetTheorems, SequenceTheorems, WellFoundedInduction, TLAPS

-----------------------------------------------------------------------------
\* The invariant

UserFiles == Instrumentation \cup Configs \cup InfoFiles
               \cup {".gitignore", ".env.local", "mcp_config.json"}

\* A text fit for file n.
FileSound(n, text) ==
  /\ n = ".env.local" => text \in Seq(EnvLine)
  /\ n \in McpFiles => text \in McpText
  /\ n = "anon_key" => text \in AnonKey
  /\ n = "claimed-key" => text \in DevKey
  /\ n \in InfoFiles => text \in Seq(InfoLine) /\ SectionsWhole(text)

DirSound(dir) == \A n \in DOMAIN dir : FileSound(n, dir[n])

\* What the user has in one directory is still there in another.
KeepsAll(was, now) ==
  \A n \in UserFiles : KeepsUserText(n, TextAt(was, n), TextAt(now, n))

AllKept ==
  \A d \in Dir :
    DirSound(fs[d]) /\ KeepsAll(original[d], fs[d]) /\ KeepsAll(original[d], before[d])

SameAt(was, now, n) ==
  (Has(now, n) <=> Has(was, n)) /\ (Has(was, n) => now[n] = was[n])

\* What init did to the instrumentation file since it began, and can undo.
InstrumentationDone(was, now) ==
  /\ "instrumentation" \in cmd.undo =>
       /\ cmd.target \in Instrumentation /\ Has(now, cmd.target)
       /\ cmd.saved <=> Has(was, cmd.target)
       /\ now[cmd.target] = IF cmd.saved THEN MergedInstrumentation(was[cmd.target])
                            ELSE {"import", "register", "call"}
  /\ \A n \in Instrumentation :
       ("instrumentation" \in cmd.undo /\ n = cmd.target) \/ SameAt(was, now, n)

ConfigDone(was, now) ==
  \/ "next-config" \notin cmd.undo /\ \A n \in Configs : SameAt(was, now, n)
  \/ /\ "next-config" \in cmd.undo
     /\ \E name \in Configs :
          /\ Has(was, name) /\ Has(now, name)
          /\ ~ MentionsWrapper(was[name]) /\ ExportOf(name) \in was[name]
          /\ now[name] = WrapExport(was[name])
          /\ name = "next.config.js" => ~ Has(now, "next.config.ts")
          /\ \A n \in Configs \ {name} : SameAt(was, now, n)

EnvLinesOf(dir) == IF Has(dir, ".env.local") THEN dir[".env.local"] ELSE <<>>
NoKeyLine(env) == \A k \in DOMAIN env : ~ IsKeyLine(env[k])

EnvDone(was, now) ==
  sdk.claim = "no" =>
    \/ "env-local" \notin cmd.undo /\ SameAt(was, now, ".env.local")
    \/ /\ "env-local" \in cmd.undo
       /\ EnvLinesOf(was) \in Seq(EnvLine) /\ NoKeyLine(EnvLinesOf(was))
       /\ Has(now, ".env.local")
       /\ now[".env.local"] = Append(EnvLinesOf(was), Placeholder)

UndoOf(pc) ==
  CASE pc = "instrumentation" -> {}
    [] pc = "next-config" -> {"instrumentation"}
    [] pc = "env-local" -> {"instrumentation", "next-config"}
    [] OTHER -> {"instrumentation", "next-config", "env-local"}

\* A command that runs has not ended; a scaffolding step of init knows what
\* the steps before it did.
Scaffolding ==
  /\ cmd.pc # "idle" => cmd.exit = "none"
  /\ cmd.name = "init" /\ cmd.pc \in {"instrumentation", "next-config", "env-local", "gitignore"} =>
       /\ cmd.undo \subseteq UndoOf(cmd.pc)
       /\ InstrumentationDone(before[cmd.root], fs[cmd.root])
       /\ ConfigDone(before[cmd.root], fs[cmd.root])
       /\ EnvDone(before[cmd.root], fs[cmd.root])

\* The text of .env.local that the SDK is about to write over the file.
Claims ==
  sdk.claim = "read" =>
    /\ UserLines(sdk.env) = UserLines(TextAt(original["app"], ".env.local"))
    /\ EnvKey(fs["app"]) \in {ReadEnvLocalApiKey(sdk.env), ""}

\* Windsurf is on the list until its configuration is replaced.
Staged == cmd.pc = "windsurf" => "windsurf" \in cmd.todo

\* The text of .env.local that uninit read before it asked: as long as no SDK
\* has run, it is the one in the file.
Asked ==
  cmd.pc = "env-confirm" =>
    /\ cmd.name = "uninit"
    /\ UserLines(cmd.env) = UserLines(TextAt(original[cmd.root], ".env.local"))
    /\ sdk.state = "absent" /\ sdk.claim = "no" =>
         Has(Here, ".env.local") /\ cmd.env = Here[".env.local"]

CliInv == TypeOK /\ AllKept /\ Scaffolding /\ Claims /\ Staged /\ Asked

-----------------------------------------------------------------------------
\* Files of a directory

LEMMA WithIs ==
  ASSUME NEW dir, NEW name, NEW text
  PROVE  /\ DOMAIN With(dir, name, text) = DOMAIN dir \cup {name}
         /\ With(dir, name, text)[name] = text
         /\ \A n \in DOMAIN dir : n # name => With(dir, name, text)[n] = dir[n]
BY DEF With

LEMMA WithoutIs ==
  ASSUME NEW dir, NEW names
  PROVE  /\ DOMAIN Without(dir, names) = DOMAIN dir \ names
         /\ \A n \in DOMAIN dir \ names : Without(dir, names)[n] = dir[n]
BY DEF Without, Restrict

LEMMA ConfigNames == ToSet(NextConfigs) = Configs
BY DEF ToSet, NextConfigs, Configs

\* KeepsUserText speaks of a file once.
LEMMA KeepsIs ==
  ASSUME NEW n, NEW text, NEW now
  PROVE  /\ n \in Instrumentation =>
              (KeepsUserText(n, text, now) <=> UserText(text) \subseteq now)
         /\ n \in Configs =>
              (KeepsUserText(n, text, now) <=> KeepsConfig(text, now))
         /\ n = ".gitignore" =>
              (KeepsUserText(n, text, now) <=> text \ GitignoreEntries \subseteq now)
         /\ n = ".env.local" =>
              (KeepsUserText(n, text, now) <=> UserLines(now) = UserLines(text))
         /\ n \in InfoFiles =>
              (KeepsUserText(n, text, now) <=> TextLines(now) = TextLines(text))
         /\ n = "mcp_config.json" =>
              (KeepsUserText(n, text, now) <=> (text.other => now.other))
BY DEF KeepsUserText, Configs, Instrumentation, InfoFiles

LEMMA KeepsReflexive ==
  ASSUME NEW n \in UserFiles, NEW text
  PROVE  KeepsUserText(n, text, text)
BY KeepsIs DEF UserFiles, UserText, KeepsConfig

\* A wrapper that comes or goes changes nothing, and what is broken stays so.
LEMMA ConfigTransitive ==
  ASSUME NEW a, NEW b, NEW c, KeepsConfig(a, b), KeepsConfig(b, c)
  PROVE  KeepsConfig(a, c)
<1> DEFINE Ours == {"wrap", "wrapImport", "broken"}
           Whole(x, y) == /\ x \ {"wrap", "wrapImport"} \subseteq y
                          /\ "broken" \in y => "broken" \in x
           Breaks(x, y) == /\ "misclosed" \in x /\ "broken" \in y
                           /\ x \ {"wrap", "wrapImport", "misclosed"} \subseteq y
<1>1. /\ b \ Ours \subseteq a /\ c \ Ours \subseteq b
      /\ Whole(a, b) \/ Breaks(a, b)
      /\ Whole(b, c) \/ Breaks(b, c)
  BY DEF KeepsConfig
<1>2. c \ Ours \subseteq a
  BY <1>1
<1>3. CASE Whole(a, b) /\ Whole(b, c)
  <2>1. Whole(a, c)
    BY <1>3
  <2>2. QED
    BY <1>2, <2>1 DEF KeepsConfig
<1>4. CASE Whole(a, b) /\ Breaks(b, c)
  <2>1. Breaks(a, c)
    BY <1>1, <1>4
  <2>2. QED
    BY <1>2, <2>1 DEF KeepsConfig
<1>5. CASE Breaks(a, b) /\ (Whole(b, c) \/ Breaks(b, c))
  <2>1. Breaks(a, c)
    BY <1>5
  <2>2. QED
    BY <1>2, <2>1 DEF KeepsConfig
<1>6. QED
  BY <1>1, <1>3, <1>4, <1>5

\* The wrapper is put round the export, and taken off it.
LEMMA WrapperKeeps ==
  ASSUME NEW text
  PROVE  KeepsConfig(text, WrapExport(text)) /\ KeepsConfig(text, UnwrapExport(text))
<1>1. KeepsConfig(text, WrapExport(text))
  BY DEF KeepsConfig, WrapExport
<1>2. CASE "misclosed" \in text
  BY <1>1, <1>2 DEF KeepsConfig, UnwrapExport, WithEarlierParenthesis
<1>3. CASE "misclosed" \notin text
  BY <1>1, <1>3 DEF KeepsConfig, UnwrapExport, WithEarlierParenthesis
<1>4. QED
  BY <1>2, <1>3

LEMMA KeepsTransitive ==
  ASSUME NEW n \in UserFiles, NEW a, NEW b, NEW c,
         KeepsUserText(n, a, b), KeepsUserText(n, b, c)
  PROVE  KeepsUserText(n, a, c)
<1>1. CASE n \in Instrumentation
  BY <1>1, KeepsIs DEF UserText
<1>2. CASE n \in Configs
  BY <1>2, KeepsIs, ConfigTransitive
<1>3. CASE n \in InfoFiles \cup {".gitignore", ".env.local", "mcp_config.json"}
  BY <1>3, KeepsIs
<1>4. QED
  BY <1>1, <1>2, <1>3 DEF UserFiles

LEMMA AllTransitive ==
  ASSUME NEW a, NEW b, NEW c, KeepsAll(a, b), KeepsAll(b, c)
  PROVE  KeepsAll(a, c)
BY KeepsTransitive DEF KeepsAll

\* A file that is written is to be fit for its name and keep the user's text.
LEMMA WithKeeps ==
  ASSUME NEW dir, NEW name, NEW text, DirSound(dir), FileSound(name, text),
         name \in UserFiles => KeepsUserText(name, TextAt(dir, name), text)
  PROVE  DirSound(With(dir, name, text)) /\ KeepsAll(dir, With(dir, name, text))
<1> DEFINE new == With(dir, name, text)
<1>1. /\ DOMAIN new = DOMAIN dir \cup {name} /\ new[name] = text
      /\ \A n \in DOMAIN dir : n # name => new[n] = dir[n]
  BY DEF With
<1> HIDE DEF new
<1>2. DirSound(new)
  BY <1>1 DEF DirSound
<1>3. ASSUME NEW n \in UserFiles
      PROVE  KeepsUserText(n, TextAt(dir, n), TextAt(new, n))
  <2>1. CASE n = name
    BY <1>1, <2>1 DEF TextAt, Has
  <2>2. CASE n # name
    <3>1. TextAt(new, n) = TextAt(dir, n)
      BY <1>1, <2>2 DEF TextAt, Has
    <3>2. QED
      BY <3>1, KeepsReflexive
  <2>3. QED
    BY <2>1, <2>2
<1>4. QED
  BY <1>2, <1>3 DEF KeepsAll, new

\* A file that is deleted holds nothing of the user's.
LEMMA WithoutKeeps ==
  ASSUME NEW dir, NEW names, DirSound(dir),
         \A n \in names \cap UserFiles \cap DOMAIN dir : KeepsUserText(n, dir[n], EmptyText(n))
  PROVE  DirSound(Without(dir, names)) /\ KeepsAll(dir, Without(dir, names))
<1> DEFINE new == Without(dir, names)
<1>1. /\ DOMAIN new = DOMAIN dir \ names
      /\ \A n \in DOMAIN dir \ names : new[n] = dir[n]
  BY WithoutIs
<1> HIDE DEF new
<1>2. DirSound(new)
  BY <1>1 DEF DirSound
<1>3. ASSUME NEW n \in UserFiles
      PROVE  KeepsUserText(n, TextAt(dir, n), TextAt(new, n))
  <2>1. CASE n \in names \cap DOMAIN dir
    BY <1>1, <2>1 DEF TextAt, Has
  <2>2. CASE n \notin names \cap DOMAIN dir
    <3>1. TextAt(new, n) = TextAt(dir, n)
      BY <1>1, <2>2 DEF TextAt, Has
    <3>2. QED
      BY <3>1, KeepsReflexive
  <2>3. QED
    BY <2>1, <2>2
<1>4. QED
  BY <1>2, <1>3 DEF KeepsAll, new

LEMMA SoundFiles ==
  ASSUME NEW dir
  PROVE  DirSound(dir) <=>
           /\ TypedFiles(dir)
           /\ \A n \in InfoFiles : Has(dir, n) => SectionsWhole(dir[n])
BY DEF DirSound, TypedFiles, FileSound, Has

-----------------------------------------------------------------------------
\* The least and the greatest of some positions

\* Whatever holds at 0 and from each number to the next holds up to n: the
\* smallest number where it did not would have one before it.
LEMMA UpTo ==
  ASSUME NEW n \in Nat, NEW T \in SUBSET (0 .. n), 0 \in T,
         \A i \in 0 .. n - 1 : i \in T => i + 1 \in T
  PROVE  T = 0 .. n
<1> DEFINE C == (0 .. n) \ T
<1> SUFFICES ASSUME C # {} PROVE FALSE
  OBVIOUS
<1>1. C \in SUBSET Nat
  OBVIOUS
<1>2. \E m \in C : \A k \in C : ~ (<<k, m>> \in OpToRel(<, Nat))
  <2> HIDE DEF C
  <2>1. QED
    BY <1>1, NatLessThanWellFounded, WFMin
<1>3. PICK m \in C : \A k \in C : ~ (<<k, m>> \in OpToRel(<, Nat))
  BY <1>2
<1>4. m \in 1 .. n /\ m - 1 \in 0 .. n - 1 /\ m - 1 < m /\ (m - 1) + 1 = m
  OBVIOUS
<1>5. m - 1 \in C
  BY <1>4
<1>6. <<m - 1, m>> \in OpToRel(<, Nat)
  BY <1>4 DEF OpToRel
<1>7. QED
  BY <1>3, <1>5, <1>6

LEMMA MinIs ==
  ASSUME NEW n \in Nat, NEW S \in SUBSET (1 .. n), S # {}
  PROVE  Min(S) \in S /\ \A k \in S : Min(S) <= k
<1>1. S \in SUBSET Nat
  OBVIOUS
<1>2. PICK m \in S : \A k \in S : ~ (<<k, m>> \in OpToRel(<, Nat))
  BY <1>1, NatLessThanWellFounded, WFMin
<1>3. ASSUME NEW k \in S PROVE m <= k
  <2>1. m \in Nat /\ k \in Nat
    BY <1>1
  <2>2. ~ (<<k, m>> \in OpToRel(<, Nat))
    BY <1>2
  <2>3. ~ (k < m)
    BY <2>1, <2>2 DEF OpToRel
  <2>4. QED
    BY <2>1, <2>3
<1>4. QED
  BY <1>3 DEF Min

LEMMA MaxIs ==
  ASSUME NEW n \in Nat, NEW S \in SUBSET (1 .. n), S # {}
  PROVE  Max(S) \in S /\ \A k \in S : k <= Max(S)
<1> DEFINE T == {m \in 0 .. n : \/ S \cap (1 .. m) = {}
                                \/ \E x \in S : x <= m /\ \A k \in S : k <= m => k <= x}
<1>1. 0 \in T
  OBVIOUS
<1>2. ASSUME NEW m \in 0 .. n - 1, m \in T PROVE m + 1 \in T
  <2>1. CASE m + 1 \in S
    <3>1. \A k \in S : k <= m + 1 => k <= m + 1
      OBVIOUS
    <3>2. QED
      BY <2>1, <3>1
  <2>2. CASE m + 1 \notin S
    <3>1. \A k \in S : k <= m + 1 => k <= m
      BY <2>2
    <3>2. CASE S \cap (1 .. m) = {}
      <4>1. S \cap (1 .. m + 1) = {}
        BY <3>1, <3>2
      <4>2. QED
        BY <4>1
    <3>3. CASE \E x \in S : x <= m /\ \A k \in S : k <= m => k <= x
      <4>1. PICK x \in S : x <= m /\ \A k \in S : k <= m => k <= x
        BY <3>3
      <4>2. x <= m + 1 /\ \A k \in S : k <= m + 1 => k <= x
        BY <3>1, <4>1
      <4>3. QED
        BY <4>2
    <3>4. QED
      BY <1>2, <3>2, <3>3
  <2>3. QED
    BY <2>1, <2>2
<1>3. T = 0 .. n
  <2> HIDE DEF T
  <2>1. T \in SUBSET (0 .. n)
    BY DEF T
  <2>2. QED
    BY <1>1, <1>2, <2>1, UpTo
<1>4. n \in T
  BY <1>3
<1>5. PICK x \in S : x <= n /\ \A k \in S : k <= n => k <= x
  <2>1. S \cap (1 .. n) # {}
    OBVIOUS
  <2>2. QED
    BY <1>4, <2>1
<1>6. \A k \in S : x >= k
  BY <1>5
<1>7. Max(S) \in S /\ \A k \in S : Max(S) >= k
  BY <1>6 DEF Max
<1>8. QED
  BY <1>7

LEMMA CountOne ==
  ASSUME NEW k \in Nat, NEW S \in SUBSET (1 .. k)
  PROVE  /\ IsFiniteSet(S) /\ Cardinality(S) \in Nat
         /\ Cardinality(S \cup {k + 1}) = Cardinality(S) + 1
<1>1. 1 \in Int /\ k \in Int
  OBVIOUS
<1>2. IsFiniteSet(1 .. k)
  BY <1>1, FS_Interval
<1>3. IsFiniteSet(S)
  BY <1>2, FS_Subset
<1>4. k + 1 \notin S
  OBVIOUS
<1>5. QED
  BY <1>3, <1>4, FS_AddElement, FS_CardinalityType

-----------------------------------------------------------------------------
\* .env.local

LEMMA LinesOf ==
  /\ Placeholder \in EnvLine /\ Placeholder.name = "key" /\ ~ Assigns(Placeholder)
  /\ CoverageLine("strict", "true") \in EnvLine
  /\ CoverageLine("strict", "true").name = "coverage"
  /\ \A key \in DevKey :
       /\ KeyLine("strict", key) \in EnvLine
       /\ KeyLine("strict", key).name = "key" /\ KeyLine("strict", key).value = key
       /\ Assigns(KeyLine("strict", key))
<1>1. /\ Placeholder \in EnvLine /\ Placeholder.name = "key"
      /\ Placeholder.form = "comment"
  BY DEF Placeholder, KeyLine, EnvLine
<1>2. ~ Assigns(Placeholder)
  BY <1>1 DEF Assigns
<1>3. /\ CoverageLine("strict", "true") \in EnvLine
      /\ CoverageLine("strict", "true").name = "coverage"
  BY DEF CoverageLine, EnvLine
<1>4. ASSUME NEW key \in DevKey
      PROVE  /\ KeyLine("strict", key) \in EnvLine
             /\ KeyLine("strict", key).name = "key" /\ KeyLine("strict", key).value = key
             /\ Assigns(KeyLine("strict", key))
  BY KeysAssumption DEF KeyLine, EnvLine, Assigns, IsKeyLine
<1>5. QED
  BY <1>1, <1>2, <1>3, <1>4

LEMMA UserLinesOfNone == UserLines(<<>>) = 0
<1>1. {k \in DOMAIN <<>> : <<>>[k].name = "user"} = {}
  OBVIOUS
<1>2. QED
  BY <1>1, FS_EmptySet DEF UserLines

LEMMA UserLinesAppended ==
  ASSUME NEW env \in Seq(EnvLine), NEW line \in EnvLine
  PROVE  UserLines(Append(env, line)) =
           UserLines(env) + (IF line.name = "user" THEN 1 ELSE 0)
<1> DEFINE S == {k \in DOMAIN env : env[k].name = "user"}
           T == {k \in DOMAIN Append(env, line) : Append(env, line)[k].name = "user"}
<1>1. /\ Len(env) \in Nat /\ DOMAIN env = 1 .. Len(env)
      /\ DOMAIN Append(env, line) = 1 .. Len(env) + 1
      /\ Append(env, line)[Len(env) + 1] = line
      /\ \A k \in DOMAIN env : Append(env, line)[k] = env[k]
  OBVIOUS
<1>2. S \in SUBSET (1 .. Len(env))
  BY <1>1
<1>3. T = IF line.name = "user" THEN S \cup {Len(env) + 1} ELSE S
  BY <1>1
<1>4. UserLines(env) = Cardinality(S) /\ UserLines(Append(env, line)) = Cardinality(T)
  BY DEF UserLines
<1> HIDE DEF S, T
<1>5. Cardinality(S) \in Nat /\ Cardinality(S \cup {Len(env) + 1}) = Cardinality(S) + 1
  BY <1>1, <1>2, CountOne
<1>6. QED
  BY <1>3, <1>4, <1>5

\* Lines that change without becoming a user's, or ceasing to be one.
LEMMA UserLinesSame ==
  ASSUME NEW env, NEW now, DOMAIN now = DOMAIN env,
         \A k \in DOMAIN env : now[k].name = "user" <=> env[k].name = "user"
  PROVE  UserLines(now) = UserLines(env)
<1>1. {k \in DOMAIN now : now[k].name = "user"} = {k \in DOMAIN env : env[k].name = "user"}
  OBVIOUS
<1>2. QED
  BY <1>1 DEF UserLines

\* What the loop of filter() has kept after each line.
Keeping(f, env, names, n) ==
  f = [k \in 0 .. n |->
         IF k = 0 THEN <<>>
         ELSE IF env[k].name \in names THEN Append(f[k - 1], env[k]) ELSE f[k - 1]]

LEMMA FilterRuns ==
  ASSUME NEW env, NEW names, NEW n \in Nat
  PROVE  \E f : Keeping(f, env, names, n)
<1> DEFINE T == {m \in 0 .. n : \E f : Keeping(f, env, names, m)}
<1>1. 0 \in T
  <2> DEFINE f == [k \in 0 .. 0 |-> <<>>]
  <2>1. Keeping(f, env, names, 0)
    BY DEF Keeping
  <2>2. QED
    BY <2>1
<1>2. ASSUME NEW m \in 0 .. n - 1, m \in T PROVE m + 1 \in T
  <2>1. PICK f : Keeping(f, env, names, m)
    BY <1>2
  <2> DEFINE step(k) == IF env[k].name \in names THEN Append(f[k - 1], env[k]) ELSE f[k - 1]
             g == [k \in 0 .. m + 1 |-> IF k = 0 THEN <<>> ELSE step(k)]
  <2>2. \A k \in 0 .. m : f[k] = IF k = 0 THEN <<>> ELSE step(k)
    BY <2>1 DEF Keeping
  <2>3. \A k \in 0 .. m : g[k] = f[k]
    BY <2>2
  <2>4. ASSUME NEW k \in 0 .. m + 1, k # 0 PROVE g[k - 1] = f[k - 1]
    <3>1. k - 1 \in 0 .. m
      BY <2>4
    <3> HIDE DEF g
    <3>2. QED
      BY <2>3, <3>1
  <2>5. \A k \in 0 .. m + 1 : k # 0 =>
          step(k) = IF env[k].name \in names THEN Append(g[k - 1], env[k]) ELSE g[k - 1]
    BY <2>4
  <2>6. g = [k \in 0 .. m + 1 |->
               IF k = 0 THEN <<>>
               ELSE IF env[k].name \in names THEN Append(g[k - 1], env[k]) ELSE g[k - 1]]
    BY <2>5
  <2> HIDE DEF g
  <2>7. Keeping(g, env, names, m + 1)
    BY <2>6 DEF Keeping
  <2>8. QED
    BY <2>7
<1>3. T = 0 .. n
  <2> HIDE DEF T
  <2>1. T \in SUBSET (0 .. n)
    BY DEF T
  <2>2. QED
    BY <1>1, <1>2, <2>1, UpTo
<1>4. QED
  BY <1>3

LEMMA FilterIs ==
  ASSUME NEW env, NEW names, Len(env) \in Nat
  PROVE  \E f : /\ LinesNamed(env, names) = f[Len(env)] /\ f[0] = <<>>
                /\ \A k \in 1 .. Len(env) :
                     f[k] = IF env[k].name \in names THEN Append(f[k - 1], env[k]) ELSE f[k - 1]
<1> DEFINE f == CHOOSE f : Keeping(f, env, names, Len(env))
<1>1. Keeping(f, env, names, Len(env))
  BY FilterRuns
<1>2. LinesNamed(env, names) = f[Len(env)]
  BY DEF LinesNamed, Keeping
<1> HIDE DEF f
<1>3. \A k \in 0 .. Len(env) :
        f[k] = IF k = 0 THEN <<>>
               ELSE IF env[k].name \in names THEN Append(f[k - 1], env[k]) ELSE f[k - 1]
  BY <1>1 DEF Keeping
<1>4. QED
  BY <1>1, <1>2, <1>3

\* filter() keeps lines of these kinds, all that are the user's among them.
LEMMA FilterKeeps ==
  ASSUME NEW env \in Seq(EnvLine), NEW names
  PROVE  /\ LinesNamed(env, names) \in Seq(EnvLine)
         /\ \A k \in DOMAIN LinesNamed(env, names) : LinesNamed(env, names)[k].name \in names
         /\ "user" \in names => UserLines(LinesNamed(env, names)) = UserLines(env)
<1>1. PICK f : /\ LinesNamed(env, names) = f[Len(env)] /\ f[0] = <<>>
               /\ \A k \in 1 .. Len(env) :
                    f[k] = IF env[k].name \in names THEN Append(f[k - 1], env[k]) ELSE f[k - 1]
  BY FilterIs
<1> DEFINE users(m) == {k \in 1 .. m : env[k].name = "user"}
           T == {m \in 0 .. Len(env) :
                   /\ f[m] \in Seq(EnvLine)
                   /\ \A k \in DOMAIN f[m] : f[m][k].name \in names
                   /\ "user" \in names => UserLines(f[m]) = Cardinality(users(m))}
<1>2. 0 \in T
  <2>1. users(0) = {}
    OBVIOUS
  <2>2. Cardinality(users(0)) = 0
    BY <2>1, FS_EmptySet
  <2>3. 0 \in 0 .. Len(env) /\ <<>> \in Seq(EnvLine) /\ DOMAIN <<>> = {}
    OBVIOUS
  <2> HIDE DEF users
  <2>4. QED
    BY <1>1, <2>2, <2>3, UserLinesOfNone
<1>3. ASSUME NEW m \in 0 .. Len(env) - 1, m \in T PROVE m + 1 \in T
  <2>1. m + 1 \in 1 .. Len(env) /\ (m + 1) - 1 = m /\ m \in Nat
        /\ env[m + 1] \in EnvLine /\ m + 1 \in 0 .. Len(env)
    OBVIOUS
  <2>2. f[m + 1] = IF env[m + 1].name \in names THEN Append(f[m], env[m + 1]) ELSE f[m]
    BY <1>1, <2>1
  <2>3. /\ f[m] \in Seq(EnvLine) /\ \A k \in DOMAIN f[m] : f[m][k].name \in names
        /\ "user" \in names => UserLines(f[m]) = Cardinality(users(m))
    BY <1>3
  <2>4. users(m) \in SUBSET (1 .. m)
    OBVIOUS
  <2>5. Cardinality(users(m)) \in Nat
        /\ Cardinality(users(m) \cup {m + 1}) = Cardinality(users(m)) + 1
    <3> HIDE DEF users
    <3>1. QED
      BY <2>1, <2>4, CountOne
  <2>6. users(m + 1) = IF env[m + 1].name = "user" THEN users(m) \cup {m + 1} ELSE users(m)
    OBVIOUS
  <2> HIDE DEF users, T
  <2>7. CASE env[m + 1].name \in names
    <3>1. f[m + 1] = Append(f[m], env[m + 1])
      BY <2>2, <2>7
    <3>2. f[m + 1] \in Seq(EnvLine)
      BY <2>1, <2>3, <3>1
    <3>3. \A k \in DOMAIN f[m + 1] : f[m + 1][k].name \in names
      <4>1. \A k \in DOMAIN f[m + 1] : k = Len(f[m]) + 1 \/ k \in DOMAIN f[m]
        BY <2>1, <2>3, <3>1
      <4>2. f[m + 1][Len(f[m]) + 1] = env[m + 1]
            /\ \A k \in DOMAIN f[m] : f[m + 1][k] = f[m][k]
        BY <2>1, <2>3, <3>1
      <4>3. QED
        BY <2>3, <2>7, <4>1, <4>2
    <3>4. UserLines(f[m + 1]) = UserLines(f[m]) + (IF env[m + 1].name = "user" THEN 1 ELSE 0)
      BY <2>1, <2>3, <3>1, UserLinesAppended
    <3>5. "user" \in names => UserLines(f[m + 1]) = Cardinality(users(m + 1))
      BY <2>3, <2>5, <2>6, <3>4
    <3>6. QED
      BY <2>1, <3>2, <3>3, <3>5 DEF T
  <2>8. CASE env[m + 1].name \notin names
    <3>1. f[m + 1] = f[m]
      BY <2>2, <2>8
    <3>2. "user" \in names => users(m + 1) = users(m)
      BY <2>6, <2>8
    <3>3. QED
      BY <2>1, <2>3, <3>1, <3>2 DEF T
  <2>9. QED
    BY <2>7, <2>8
<1>4. T = 0 .. Len(env)
  <2> HIDE DEF T
  <2>1. T \in SUBSET (0 .. Len(env)) /\ Len(env) \in Nat
    BY DEF T
  <2>2. QED
    BY <1>2, <1>3, <2>1, UpTo
<1>5. Len(env) \in T
  <2> HIDE DEF T
  <2>1. QED
    BY <1>4
<1>6. UserLines(env) = Cardinality(users(Len(env)))
  <2>1. DOMAIN env = 1 .. Len(env)
    OBVIOUS
  <2>2. QED
    BY <2>1 DEF UserLines
<1> HIDE DEF users
<1>7. QED
  BY <1>1, <1>5, <1>6

LEMMA ReadIs ==
  ASSUME NEW env \in Seq(EnvLine)
  PROVE  /\ (\E k \in DOMAIN env : Assigns(env[k])) =>
              \E m \in DOMAIN env :
                /\ Assigns(env[m]) /\ ReadEnvLocalApiKey(env) = env[m].value
                /\ \A k \in DOMAIN env : Assigns(env[k]) => k <= m
         /\ (\A k \in DOMAIN env : ~ Assigns(env[k])) => ReadEnvLocalApiKey(env) = ""
<1> DEFINE at == {k \in DOMAIN env : Assigns(env[k])}
<1>1. at \in SUBSET (1 .. Len(env)) /\ Len(env) \in Nat
  OBVIOUS
<1>2. ReadEnvLocalApiKey(env) = IF at = {} THEN "" ELSE env[Max(at)].value
  BY DEF ReadEnvLocalApiKey
<1>3. at # {} => Max(at) \in at /\ \A k \in at : k <= Max(at)
  <2> HIDE DEF at
  <2>1. QED
    BY <1>1, MaxIs
<1>4. QED
  BY <1>2, <1>3

\* The last assignment is the same where the same lines assign the same.
LEMMA ReadSame ==
  ASSUME NEW env, NEW now,
         \A k \in DOMAIN now : Assigns(now[k]) => k \in DOMAIN env /\ Assigns(env[k]),
         \A k \in DOMAIN env : Assigns(env[k]) =>
           k \in DOMAIN now /\ Assigns(now[k]) /\ now[k].value = env[k].value,
         NEW n \in Nat, DOMAIN env \subseteq 1 .. n
  PROVE  ReadEnvLocalApiKey(now) = ReadEnvLocalApiKey(env)
<1> DEFINE at == {k \in DOMAIN env : Assigns(env[k])}
<1>1. at = {k \in DOMAIN now : Assigns(now[k])}
  OBVIOUS
<1>2. /\ ReadEnvLocalApiKey(env) = IF at = {} THEN "" ELSE env[Max(at)].value
      /\ ReadEnvLocalApiKey(now) = IF at = {} THEN "" ELSE now[Max(at)].value
  BY <1>1 DEF ReadEnvLocalApiKey
<1>3. at # {} => Max(at) \in at
  <2>1. at \in SUBSET (1 .. n)
    OBVIOUS
  <2> HIDE DEF at
  <2>2. QED
    BY <2>1, MaxIs
<1>4. at # {} => now[Max(at)].value = env[Max(at)].value
  BY <1>3
<1>5. CASE at = {}
  BY <1>2, <1>5
<1>6. CASE at # {}
  BY <1>2, <1>4, <1>6
<1>7. QED
  BY <1>5, <1>6

\* An edit of .env.local that leaves the user's lines and the key alone.
Harmless(env, now) ==
  /\ now \in Seq(EnvLine)
  /\ UserLines(now) = UserLines(env)
  /\ ReadEnvLocalApiKey(now) = ReadEnvLocalApiKey(env)

LEMMA AppendHarmless ==
  ASSUME NEW env \in Seq(EnvLine), NEW line \in EnvLine,
         ~ Assigns(line), line.name # "user"
  PROVE  Harmless(env, Append(env, line))
<1> DEFINE now == Append(env, line)
<1>1. /\ Len(env) \in Nat /\ DOMAIN env = 1 .. Len(env) /\ DOMAIN now = 1 .. Len(env) + 1
      /\ now[Len(env) + 1] = line /\ \A k \in DOMAIN env : now[k] = env[k]
  OBVIOUS
<1>2. now \in Seq(EnvLine)
  OBVIOUS
<1>3. UserLines(now) = UserLines(env)
  <2>1. UserLines(now) = UserLines(env) + 0
    BY UserLinesAppended
  <2>2. UserLines(env) \in Nat
    <3>1. {k \in DOMAIN env : env[k].name = "user"} \in SUBSET (1 .. Len(env))
      BY <1>1
    <3>2. QED
      BY <1>1, <3>1, CountOne DEF UserLines
  <2>3. QED
    BY <2>1, <2>2
<1> HIDE DEF now
<1>4. /\ \A k \in DOMAIN now : Assigns(now[k]) => k \in DOMAIN env /\ Assigns(env[k])
      /\ \A k \in DOMAIN env : Assigns(env[k]) =>
           k \in DOMAIN now /\ Assigns(now[k]) /\ now[k].value = env[k].value
  BY <1>1
<1>5. ReadEnvLocalApiKey(now) = ReadEnvLocalApiKey(env)
  BY <1>1, <1>4, ReadSame
<1>6. QED
  BY <1>2, <1>3, <1>5 DEF Harmless, now

LEMMA PlaceholderHarmless ==
  ASSUME NEW env \in Seq(EnvLine)
  PROVE  /\ Harmless(env, WithPlaceholder(env))
         /\ WithPlaceholder(env) # env =>
              NoKeyLine(env) /\ WithPlaceholder(env) = Append(env, Placeholder)
<1>1. CASE \E k \in DOMAIN env : IsKeyLine(env[k])
  BY <1>1 DEF WithPlaceholder, Harmless
<1>2. CASE ~ \E k \in DOMAIN env : IsKeyLine(env[k])
  <2>1. WithPlaceholder(env) = Append(env, Placeholder) /\ NoKeyLine(env)
    BY <1>2 DEF WithPlaceholder, NoKeyLine
  <2>2. Harmless(env, Append(env, Placeholder))
    BY LinesOf, AppendHarmless
  <2>3. QED
    BY <2>1, <2>2
<1>3. QED
  BY <1>1, <1>2

LEMMA CoverageHarmless ==
  ASSUME NEW env \in Seq(EnvLine)
  PROVE  Harmless(env, WithCoverageMap(env))
<1> DEFINE set == {k \in DOMAIN env : env[k].name = "coverage" /\ env[k].form # "comment"}
<1>1. CASE set = {}
  <2>1. WithCoverageMap(env) = Append(env, CoverageLine("strict", "true"))
    BY <1>1 DEF WithCoverageMap
  <2>2. ~ Assigns(CoverageLine("strict", "true"))
    BY LinesOf DEF Assigns, IsKeyLine
  <2>3. QED
    BY <2>1, <2>2, LinesOf, AppendHarmless
<1>2. CASE set # {}
  <2>1. set \in SUBSET (1 .. Len(env)) /\ Len(env) \in Nat /\ DOMAIN env = 1 .. Len(env)
    OBVIOUS
  <2>2. Min(set) \in set
    <3> HIDE DEF set
    <3>1. QED
      BY <1>2, <2>1, MinIs
  <2> DEFINE m == Min(set)
             line == [env[m] EXCEPT !.value = "true"]
             now == [env EXCEPT ![m] = line]
  <2>3. WithCoverageMap(env) = now
    BY <1>2 DEF WithCoverageMap
  <2>4. m \in DOMAIN env /\ env[m].name = "coverage" /\ env[m] \in EnvLine
    BY <2>2
  <2> HIDE DEF m
  <2>5. line \in EnvLine /\ line.name = "coverage"
    BY <2>4 DEF EnvLine
  <2> HIDE DEF line
  <2>6. now \in Seq(EnvLine) /\ DOMAIN now = DOMAIN env /\ now[m] = line
        /\ \A k \in DOMAIN env : k # m => now[k] = env[k]
    BY <2>4, <2>5
  <2> HIDE DEF now
  <2>7. UserLines(now) = UserLines(env)
    BY <2>4, <2>5, <2>6, UserLinesSame
  <2>8. ~ Assigns(now[m]) /\ ~ Assigns(env[m])
    BY <2>4, <2>5, <2>6 DEF Assigns, IsKeyLine
  <2>9. /\ \A k \in DOMAIN now : Assigns(now[k]) => k \in DOMAIN env /\ Assigns(env[k])
        /\ \A k \in DOMAIN env : Assigns(env[k]) =>
             k \in DOMAIN now /\ Assigns(now[k]) /\ now[k].value = env[k].value
    BY <2>6, <2>8
  <2>10. ReadEnvLocalApiKey(now) = ReadEnvLocalApiKey(env)
    BY <2>1, <2>9, ReadSame
  <2>11. QED
    BY <2>3, <2>6, <2>7, <2>10 DEF Harmless
<1>3. QED
  BY <1>1, <1>2

\* The SDK's key replaces no line of the user's; and where a developer key was
\* in force one still is.
LEMMA ClaimWritten ==
  ASSUME NEW env \in Seq(EnvLine), NEW key \in DevKey
  PROVE  /\ WithClaimedKey(env, key) \in Seq(EnvLine)
         /\ UserLines(WithClaimedKey(env, key)) = UserLines(env)
         /\ ReadEnvLocalApiKey(env) \in DevKey =>
              ReadEnvLocalApiKey(WithClaimedKey(env, key)) \in DevKey
<1> DEFINE strict == {k \in DOMAIN env : IsKeyLine(env[k]) /\ env[k].form = "strict"}
           line == KeyLine("strict", key)
           now == WithClaimedKey(env, key)
<1>0. line \in EnvLine /\ line.name = "key" /\ line.value = key /\ Assigns(line)
  BY LinesOf
<1>1. Len(env) \in Nat /\ DOMAIN env = 1 .. Len(env)
  OBVIOUS
<1> HIDE DEF line
<1>2. CASE strict = {}
  <2>1. now = Append(env, line)
    BY <1>2 DEF WithClaimedKey, line
  <2>2. now \in Seq(EnvLine) /\ DOMAIN now = 1 .. Len(env) + 1 /\ now[Len(env) + 1] = line
    BY <1>0, <1>1, <2>1
  <2>3. UserLines(now) = UserLines(env) + 0
    BY <1>0, <2>1, UserLinesAppended
  <2>4. UserLines(env) \in Nat
    <3>1. {k \in DOMAIN env : env[k].name = "user"} \in SUBSET (1 .. Len(env))
      BY <1>1
    <3>2. QED
      BY <1>1, <3>1, CountOne DEF UserLines
  <2> HIDE DEF now
  <2>5. ReadEnvLocalApiKey(now) = key
    <3>0. Len(env) + 1 \in DOMAIN now /\ Assigns(now[Len(env) + 1])
      BY <1>0, <1>1, <2>2
    <3>1. PICK m \in DOMAIN now :
            /\ Assigns(now[m]) /\ ReadEnvLocalApiKey(now) = now[m].value
            /\ \A k \in DOMAIN now : Assigns(now[k]) => k <= m
      BY <2>2, <3>0, ReadIs
    <3>2. m = Len(env) + 1
      BY <1>0, <1>1, <2>2, <3>1
    <3>3. QED
      BY <1>0, <2>2, <3>1, <3>2
  <2>6. QED
    BY <2>2, <2>3, <2>4, <2>5 DEF now
<1>3. CASE strict # {}
  <2>1. now = [k \in DOMAIN env |-> IF k \in strict THEN line ELSE env[k]]
    BY <1>3 DEF WithClaimedKey, line
  <2>2. /\ DOMAIN now = DOMAIN env
        /\ \A k \in DOMAIN env : now[k] = IF k \in strict THEN line ELSE env[k]
    BY <2>1
  <2>3. \A k \in DOMAIN env : env[k] \in EnvLine
    OBVIOUS
  <2>4. now \in Seq(EnvLine)
    <3> HIDE DEF strict
    <3>1. now \in [1 .. Len(env) -> EnvLine]
      BY <1>0, <1>1, <2>1, <2>3
    <3> HIDE DEF now
    <3>2. QED
      BY <1>1, <3>1, SeqDef
  <2> HIDE DEF now
  <2>5. UserLines(now) = UserLines(env)
    <3>1. \A k \in strict : env[k].name # "user"
      BY DEF IsKeyLine
    <3> HIDE DEF strict
    <3>2. QED
      BY <1>0, <2>2, <3>1, UserLinesSame
  <2>6. ASSUME ReadEnvLocalApiKey(env) \in DevKey
        PROVE  ReadEnvLocalApiKey(now) \in DevKey
    <3>1. \E k \in DOMAIN env : Assigns(env[k])
      BY <2>6, KeysAssumption, ReadIs
    <3>2. PICK m \in DOMAIN env :
            /\ Assigns(env[m]) /\ ReadEnvLocalApiKey(env) = env[m].value
            /\ \A k \in DOMAIN env : Assigns(env[k]) => k <= m
      BY <3>1, ReadIs
    <3>3. Assigns(now[m])
      BY <1>0, <2>2, <3>2
    <3>4. PICK l \in DOMAIN now :
            /\ Assigns(now[l]) /\ ReadEnvLocalApiKey(now) = now[l].value
            /\ \A k \in DOMAIN now : Assigns(now[k]) => k <= l
      BY <2>2, <2>4, <3>3, ReadIs
    <3>5. CASE l \in strict
      BY <1>0, <2>2, <3>4, <3>5
    <3>6. CASE l \notin strict
      <4>1. now[l] = env[l] /\ Assigns(env[l]) /\ l <= m /\ m <= l
        BY <2>2, <3>2, <3>3, <3>4, <3>6
      <4>2. l = m
        BY <1>1, <2>2, <4>1
      <4>3. QED
        BY <2>6, <3>2, <3>4, <4>1, <4>2
    <3>7. QED
      BY <3>5, <3>6
  <2>7. QED
    BY <2>4, <2>5, <2>6 DEF now
<1>4. QED
  BY <1>2, <1>3

LEMMA FilteredOut ==
  ASSUME NEW env \in Seq(EnvLine), NEW names, "key" \notin names
  PROVE  ReadEnvLocalApiKey(LinesNamed(env, names)) = ""
<1> DEFINE now == LinesNamed(env, names)
<1>1. now \in Seq(EnvLine) /\ \A k \in DOMAIN now : now[k].name \in names
  BY FilterKeeps
<1> HIDE DEF now
<1>2. \A k \in DOMAIN now : ~ Assigns(now[k])
  BY <1>1 DEF Assigns, IsKeyLine
<1>3. ReadEnvLocalApiKey(now) = ""
  BY <1>1, <1>2, ReadIs
<1>4. QED
  BY <1>3 DEF now

\* rollbackSteps() takes what scaffoldEnvLocal() added.
LEMMA PlaceholderUndone ==
  ASSUME NEW env \in Seq(EnvLine), NoKeyLine(env)
  PROVE  WithoutKeyLines(Append(env, Placeholder)) = env
<1> DEFINE now == Append(env, Placeholder)
           names == {"coverage", "user"}
<1>1. /\ Len(env) \in Nat /\ DOMAIN env = 1 .. Len(env) /\ Len(now) = Len(env) + 1
      /\ now[Len(env) + 1] = Placeholder /\ \A k \in 1 .. Len(env) : now[k] = env[k]
  OBVIOUS
<1>2. \A k \in 1 .. Len(env) : env[k].name \in names
  <2>1. \A k \in 1 .. Len(env) : env[k] \in EnvLine /\ env[k].name # "key"
    BY DEF NoKeyLine, IsKeyLine
  <2>2. QED
    BY <2>1 DEF EnvLine
<1>3. Placeholder.name \notin names
  BY LinesOf
<1> HIDE DEF now, names
<1>4. PICK f : /\ LinesNamed(now, names) = f[Len(now)] /\ f[0] = <<>>
               /\ \A k \in 1 .. Len(now) :
                    f[k] = IF now[k].name \in names THEN Append(f[k - 1], now[k]) ELSE f[k - 1]
  BY <1>1, FilterIs
<1> DEFINE T == {m \in 0 .. Len(env) : f[m] = SubSeq(env, 1, m)}
<1>5. 0 \in T
  <2>1. SubSeq(env, 1, 0) = <<>> /\ 0 \in 0 .. Len(env)
    BY <1>1
  <2>2. QED
    BY <1>4, <2>1
<1>6. ASSUME NEW m \in 0 .. Len(env) - 1, m \in T PROVE m + 1 \in T
  <2>1. m + 1 \in 1 .. Len(env) /\ m + 1 \in 1 .. Len(now) /\ (m + 1) - 1 = m
    BY <1>1
  <2>2. f[m + 1] = Append(f[m], env[m + 1])
    BY <1>1, <1>2, <1>4, <2>1
  <2>3. Append(SubSeq(env, 1, m), env[m + 1]) = SubSeq(env, 1, m + 1)
    OBVIOUS
  <2>4. f[m] = SubSeq(env, 1, m) /\ m + 1 \in 0 .. Len(env)
    BY <1>6
  <2>5. f[m + 1] = SubSeq(env, 1, m + 1)
    BY <2>2, <2>3, <2>4
  <2>6. QED
    BY <2>4, <2>5
<1>7. T = 0 .. Len(env)
  <2> HIDE DEF T
  <2>1. T \in SUBSET (0 .. Len(env))
    BY DEF T
  <2>2. QED
    BY <1>1, <1>5, <1>6, <2>1, UpTo
<1>8. f[Len(env)] = SubSeq(env, 1, Len(env))
  <2>1. Len(env) \in T
    <3> HIDE DEF T
    <3>1. QED
      BY <1>1, <1>7
  <2>2. QED
    BY <2>1
<1>9. SubSeq(env, 1, Len(env)) = env
  OBVIOUS
<1>10. f[Len(now)] = f[Len(env)]
  <2>1. Len(env) + 1 \in 1 .. Len(now) /\ (Len(env) + 1) - 1 = Len(env)
    BY <1>1
  <2>2. QED
    BY <1>1, <1>3, <1>4, <2>1
<1>11. QED
  BY <1>4, <1>8, <1>9, <1>10 DEF WithoutKeyLines, now, names

-----------------------------------------------------------------------------
\* Instruction files

LEMMA SectionIs ==
  /\ Section \in Seq(InfoLine) /\ Len(Section) = 3
  /\ Section[1] = "start v=cur" /\ Section[2] = "body" /\ Section[3] = "end"
BY DEF Section, InfoLine, StartMarkers

LEMMA SameLines ==
  ASSUME NEW s \in Seq(InfoLine), NEW t \in Seq(InfoLine), Len(s) = Len(t),
         \A k \in 1 .. Len(s) : s[k] = t[k]
  PROVE  s = t
OBVIOUS

LEMMA Joined ==
  ASSUME NEW s \in Seq(InfoLine), NEW t \in Seq(InfoLine)
  PROVE  /\ s \o t \in Seq(InfoLine) /\ Len(s \o t) = Len(s) + Len(t)
         /\ \A k \in 1 .. Len(s) : (s \o t)[k] = s[k]
         /\ \A k \in 1 .. Len(t) : (s \o t)[Len(s) + k] = t[k]
<1>1. Len(s) \in Nat /\ Len(t) \in Nat
  OBVIOUS
<1>2. /\ s \o t \in Seq(InfoLine) /\ Len(s \o t) = Len(s) + Len(t)
      /\ \A i \in 1 .. Len(s) + Len(t) :
           (s \o t)[i] = IF i <= Len(s) THEN s[i] ELSE t[i - Len(s)]
  BY ConcatProperties
<1>3. ASSUME NEW k \in 1 .. Len(s) PROVE (s \o t)[k] = s[k]
  <2>1. k \in 1 .. Len(s) + Len(t) /\ k <= Len(s)
    BY <1>1
  <2>2. QED
    BY <1>2, <2>1
<1>4. ASSUME NEW k \in 1 .. Len(t) PROVE (s \o t)[Len(s) + k] = t[k]
  <2>1. /\ Len(s) + k \in 1 .. Len(s) + Len(t) /\ ~ (Len(s) + k <= Len(s))
        /\ Len(s) + k - Len(s) = k
    BY <1>1
  <2>2. QED
    BY <1>2, <2>1
<1>5. QED
  BY <1>2, <1>3, <1>4

\* The end of the section that is replaced: the first after a start marker.
EndsAt(lines, e) ==
  /\ e \in DOMAIN lines /\ e > 2 /\ lines[e] = "end"
  /\ lines[e - 1] = "body" /\ lines[e - 2] \in StartMarkers
  /\ \A j, k \in DOMAIN lines : lines[j] \in StartMarkers /\ lines[k] = "end" /\ j < k => e <= k

NoSection(lines) ==
  \A j, k \in DOMAIN lines : ~ (lines[j] \in StartMarkers /\ lines[k] = "end" /\ j < k)

LEMMA BoundariesAre ==
  ASSUME NEW lines \in Seq(InfoLine), SectionsWhole(lines)
  PROVE  \/ NoSection(lines) /\ FindMarkerBoundaries(lines) = <<0, 0>>
         \/ \E e \in Nat : EndsAt(lines, e) /\ FindMarkerBoundaries(lines) = <<e - 2, e>>
<1> DEFINE starts == {k \in DOMAIN lines : lines[k] \in StartMarkers}
           ends == {k \in DOMAIN lines : lines[k] = "end" /\ \E j \in starts : j < k}
           e == Min(ends)
           earlier == {k \in starts : k < e}
<1>0. Len(lines) \in Nat /\ DOMAIN lines = 1 .. Len(lines)
  OBVIOUS
<1>1. FindMarkerBoundaries(lines) = IF ends = {} THEN <<0, 0>> ELSE <<Max(earlier), e>>
  BY DEF FindMarkerBoundaries
<1>2. CASE ends = {}
  BY <1>1, <1>2 DEF NoSection
<1>3. CASE ends # {}
  <2>1. ends \in SUBSET (1 .. Len(lines))
    BY <1>0
  <2>2. e \in ends /\ \A k \in ends : e <= k
    <3> HIDE DEF ends
    <3>1. QED
      BY <1>0, <1>3, <2>1, MinIs
  <2> HIDE DEF e
  <2>3. e \in DOMAIN lines /\ lines[e] = "end"
    BY <2>2
  <2>4. PICK j \in DOMAIN lines : lines[j] \in StartMarkers /\ j < e
    BY <2>2
  <2>5. e > 2 /\ lines[e - 1] = "body" /\ lines[e - 2] \in StartMarkers
    BY <2>3, <2>4 DEF SectionsWhole
  <2>6. e \in Nat /\ e - 2 \in DOMAIN lines /\ e - 2 < e
    BY <1>0, <2>3, <2>5
  <2>7. e - 2 \in earlier
    BY <2>5, <2>6
  <2>8. \A k \in earlier : k <= e - 2
    <3>0. lines[e - 1] \notin StartMarkers
      BY <2>5 DEF StartMarkers
    <3>1. \A k \in earlier : k \in Nat /\ k < e /\ k # e - 1
      BY <1>0, <3>0
    <3> HIDE DEF earlier
    <3>2. QED
      BY <2>6, <3>1
  <2>9. earlier \in SUBSET (1 .. Len(lines)) /\ earlier # {}
    BY <1>0, <2>7
  <2>10. Max(earlier) \in earlier /\ \A k \in earlier : k <= Max(earlier)
    <3> HIDE DEF earlier
    <3>1. QED
      BY <1>0, <2>9, MaxIs
  <2>11. Max(earlier) = e - 2
    <3>1. Max(earlier) \in Nat
      BY <2>9, <2>10
    <3> HIDE DEF earlier
    <3>2. QED
      BY <2>6, <2>7, <2>8, <2>10, <3>1
  <2>12. EndsAt(lines, e)
    <3>1. \A i, k \in DOMAIN lines :
            lines[i] \in StartMarkers /\ lines[k] = "end" /\ i < k => e <= k
      BY <2>2
    <3>2. QED
      BY <2>3, <2>5, <3>1 DEF EndsAt
  <2>13. QED
    BY <1>1, <1>3, <2>6, <2>11, <2>12
<1>4. QED
  BY <1>2, <1>3

LEMMA SectionManaged ==
  ASSUME NEW lines \in Seq(InfoLine), SectionsWhole(lines), HasManagedSection(lines)
  PROVE  \E e \in Nat : EndsAt(lines, e) /\ FindMarkerBoundaries(lines) = <<e - 2, e>>
BY BoundariesAre DEF HasManagedSection

\* The section goes to the end of the file.
LEMMA SectionAppended ==
  ASSUME NEW lines \in Seq(InfoLine)
  PROVE  LET now == lines \o Section
         IN /\ now \in Seq(InfoLine) /\ Len(now) = Len(lines) + 3
            /\ \A k \in 1 .. Len(lines) : now[k] = lines[k]
            /\ now[Len(lines) + 1] = "start v=cur"
            /\ now[Len(lines) + 2] = "body" /\ now[Len(lines) + 3] = "end"
<1>1. /\ lines \o Section \in Seq(InfoLine)
      /\ Len(lines \o Section) = Len(lines) + Len(Section)
      /\ \A k \in 1 .. Len(lines) : (lines \o Section)[k] = lines[k]
      /\ \A k \in 1 .. Len(Section) : (lines \o Section)[Len(lines) + k] = Section[k]
  BY SectionIs, Joined
<1>2. 1 \in 1 .. 3 /\ 2 \in 1 .. 3 /\ 3 \in 1 .. 3
  OBVIOUS
<1>3. QED
  BY <1>1, <1>2, SectionIs

\* The section takes the place of the one that is there.
LEMMA SectionReplaced ==
  ASSUME NEW lines \in Seq(InfoLine), NEW e \in Nat, EndsAt(lines, e)
  PROVE  LET now == SubSeq(lines, 1, e - 3) \o Section \o SubSeq(lines, e + 1, Len(lines))
         IN /\ now \in Seq(InfoLine) /\ Len(now) = Len(lines)
            /\ now[e - 2] = "start v=cur"
            /\ \A k \in 1 .. Len(lines) : k # e - 2 => now[k] = lines[k]
<1> DEFINE head == SubSeq(lines, 1, e - 3)
           tail == SubSeq(lines, e + 1, Len(lines))
           most == head \o Section
           now == most \o tail
<1>1. /\ Len(lines) \in Nat /\ e \in 3 .. Len(lines)
      /\ lines[e] = "end" /\ lines[e - 1] = "body"
  BY DEF EndsAt
<1>2. /\ head \in Seq(InfoLine) /\ Len(head) = e - 3
      /\ \A k \in 1 .. e - 3 : head[k] = lines[k]
  BY <1>1
<1>3. /\ tail \in Seq(InfoLine) /\ Len(tail) = Len(lines) - e
      /\ \A k \in 1 .. Len(lines) - e : tail[k] = lines[e + k]
  BY <1>1
<1> HIDE DEF head, tail
<1>4. /\ most \in Seq(InfoLine) /\ Len(most) = e
      /\ \A k \in 1 .. e - 3 : most[k] = lines[k]
      /\ most[e - 2] = "start v=cur" /\ most[e - 1] = "body" /\ most[e] = "end"
  <2>1. /\ most \in Seq(InfoLine) /\ Len(most) = Len(head) + Len(Section)
        /\ \A k \in 1 .. Len(head) : most[k] = head[k]
        /\ \A k \in 1 .. Len(Section) : most[Len(head) + k] = Section[k]
    BY <1>2, SectionIs, Joined
  <2> HIDE DEF most
  <2>2. /\ 1 \in 1 .. 3 /\ 2 \in 1 .. 3 /\ 3 \in 1 .. 3
        /\ (e - 3) + 1 = e - 2 /\ (e - 3) + 2 = e - 1 /\ (e - 3) + 3 = e
    BY <1>1
  <2>3. most[(e - 3) + 1] = Section[1] /\ most[(e - 3) + 2] = Section[2]
        /\ most[(e - 3) + 3] = Section[3]
    BY <1>2, <2>1, <2>2, SectionIs
  <2>4. QED
    BY <1>2, <2>1, <2>2, <2>3, SectionIs
<1>5. /\ now \in Seq(InfoLine) /\ Len(now) = e + (Len(lines) - e)
      /\ \A k \in 1 .. e : now[k] = most[k]
      /\ \A k \in 1 .. Len(lines) - e : now[e + k] = tail[k]
  <2> HIDE DEF most
  <2>1. /\ most \o tail \in Seq(InfoLine) /\ Len(most \o tail) = Len(most) + Len(tail)
        /\ \A k \in 1 .. Len(most) : (most \o tail)[k] = most[k]
        /\ \A k \in 1 .. Len(tail) : (most \o tail)[Len(most) + k] = tail[k]
    BY <1>3, <1>4, Joined
  <2>2. QED
    BY <1>3, <1>4, <2>1
<1> HIDE DEF now, most
<1>6. Len(now) = Len(lines)
  BY <1>1, <1>5
<1>7. ASSUME NEW k \in e + 1 .. Len(lines) PROVE now[k] = lines[k]
  <2>1. k - e \in 1 .. Len(lines) - e /\ e + (k - e) = k
    BY <1>1
  <2>2. now[e + (k - e)] = tail[k - e] /\ tail[k - e] = lines[e + (k - e)]
    BY <1>3, <1>5, <2>1
  <2>3. QED
    BY <2>1, <2>2
<1>8. \A k \in 1 .. Len(lines) : k # e - 2 => now[k] = lines[k]
  <2> SUFFICES ASSUME NEW k \in 1 .. Len(lines), k # e - 2 PROVE now[k] = lines[k]
    OBVIOUS
  <2>1. k \in 1 .. e - 3 \/ k = e - 1 \/ k = e \/ k \in e + 1 .. Len(lines)
    BY <1>1
  <2>2. k \in 1 .. e - 3 => k \in 1 .. e
    BY <1>1
  <2>3. k \in 1 .. e - 3 => now[k] = lines[k]
    BY <1>4, <1>5, <2>2
  <2>4. e - 1 \in 1 .. e /\ e \in 1 .. e
    BY <1>1
  <2>5. k = e - 1 \/ k = e => now[k] = lines[k]
    BY <1>1, <1>4, <1>5, <2>4
  <2>6. QED
    BY <1>7, <2>1, <2>3, <2>5
<1>9. now[e - 2] = "start v=cur"
  <2>1. e - 2 \in 1 .. e
    BY <1>1
  <2>2. QED
    BY <1>4, <1>5, <2>1
<1>10. QED
  BY <1>5, <1>6, <1>8, <1>9 DEF now, most, head, tail

\* The section is cut out.
LEMMA SectionRemoved ==
  ASSUME NEW lines \in Seq(InfoLine), NEW e \in Nat, EndsAt(lines, e)
  PROVE  LET now == SubSeq(lines, 1, e - 3) \o SubSeq(lines, e + 1, Len(lines))
         IN /\ now \in Seq(InfoLine) /\ Len(now) = Len(lines) - 3
            /\ \A k \in 1 .. Len(lines) - 3 :
                 now[k] = IF k < e - 2 THEN lines[k] ELSE lines[k + 3]
<1> DEFINE head == SubSeq(lines, 1, e - 3)
           tail == SubSeq(lines, e + 1, Len(lines))
           now == head \o tail
<1>1. Len(lines) \in Nat /\ e \in 3 .. Len(lines)
  BY DEF EndsAt
<1>2. /\ head \in Seq(InfoLine) /\ Len(head) = e - 3
      /\ \A k \in 1 .. e - 3 : head[k] = lines[k]
  BY <1>1
<1>3. /\ tail \in Seq(InfoLine) /\ Len(tail) = Len(lines) - e
      /\ \A k \in 1 .. Len(lines) - e : tail[k] = lines[e + k]
  BY <1>1
<1> HIDE DEF head, tail
<1>4. /\ now \in Seq(InfoLine) /\ Len(now) = (e - 3) + (Len(lines) - e)
      /\ \A k \in 1 .. e - 3 : now[k] = head[k]
      /\ \A k \in 1 .. Len(lines) - e : now[(e - 3) + k] = tail[k]
  <2>1. /\ head \o tail \in Seq(InfoLine) /\ Len(head \o tail) = Len(head) + Len(tail)
        /\ \A k \in 1 .. Len(head) : (head \o tail)[k] = head[k]
        /\ \A k \in 1 .. Len(tail) : (head \o tail)[Len(head) + k] = tail[k]
    BY <1>2, <1>3, Joined
  <2>2. QED
    BY <1>2, <1>3, <2>1
<1> HIDE DEF now
<1>5. Len(now) = Len(lines) - 3 /\ \A k \in 1 .. e - 3 : now[k] = lines[k]
  BY <1>1, <1>2, <1>4
<1>6. ASSUME NEW k \in e - 2 .. Len(lines) - 3 PROVE now[k] = lines[k + 3]
  <2>1. /\ k - (e - 3) \in 1 .. Len(lines) - e /\ e + (k - (e - 3)) = k + 3
        /\ (e - 3) + (k - (e - 3)) = k
    BY <1>1
  <2>2. /\ now[(e - 3) + (k - (e - 3))] = tail[k - (e - 3)]
        /\ tail[k - (e - 3)] = lines[e + (k - (e - 3))]
    BY <1>3, <1>4, <2>1
  <2>3. QED
    BY <2>1, <2>2
<1>7. \A k \in 1 .. Len(lines) - 3 : now[k] = IF k < e - 2 THEN lines[k] ELSE lines[k + 3]
  <2> SUFFICES ASSUME NEW k \in 1 .. Len(lines) - 3
               PROVE  now[k] = IF k < e - 2 THEN lines[k] ELSE lines[k + 3]
    OBVIOUS
  <2>1. k < e - 2 => k \in 1 .. e - 3
    BY <1>1
  <2>2. ~ (k < e - 2) => k \in e - 2 .. Len(lines) - 3
    BY <1>1
  <2>3. QED
    BY <1>5, <1>6, <2>1, <2>2
<1>8. QED
  BY <1>4, <1>5, <1>7 DEF now, head, tail

LEMMA Indices ==
  ASSUME NEW s \in Seq(InfoLine)
  PROVE  Len(s) \in Nat /\ DOMAIN s = 1 .. Len(s)
OBVIOUS

LEMMA TextLinesSame ==
  ASSUME NEW lines, NEW now, DOMAIN now = DOMAIN lines,
         \A k \in DOMAIN lines : now[k] = "text" <=> lines[k] = "text"
  PROVE  TextLines(now) = TextLines(lines)
<1>1. {k \in DOMAIN now : now[k] = "text"} = {k \in DOMAIN lines : lines[k] = "text"}
  OBVIOUS
<1>2. QED
  BY <1>1 DEF TextLines

LEMMA NoText ==
  ASSUME NEW lines, \A k \in DOMAIN lines : lines[k] # "text"
  PROVE  TextLines(lines) = 0
<1>1. {k \in DOMAIN lines : lines[k] = "text"} = {}
  OBVIOUS
<1>2. QED
  BY <1>1, FS_EmptySet DEF TextLines

\* What is written over an instruction file, or into a new one.
InfoSound(lines, now) ==
  now \in Seq(InfoLine) /\ SectionsWhole(now) /\ TextLines(now) = TextLines(lines)

LEMMA AppendSound ==
  ASSUME NEW lines \in Seq(InfoLine), SectionsWhole(lines)
  PROVE  InfoSound(lines, lines \o Section)
<1> DEFINE now == lines \o Section
           n == Len(lines)
<1>1. n \in Nat /\ DOMAIN lines = 1 .. n
  OBVIOUS
<1>2. /\ now \in Seq(InfoLine) /\ Len(now) = n + 3
      /\ \A k \in 1 .. n : now[k] = lines[k]
      /\ now[n + 1] = "start v=cur" /\ now[n + 2] = "body" /\ now[n + 3] = "end"
  BY SectionAppended
<1> HIDE DEF now, n
<1>3. DOMAIN now = 1 .. n + 3
  <2>1. DOMAIN now = 1 .. Len(now)
    BY <1>2, Indices
  <2>2. QED
    BY <1>2, <2>1
<1>4. ASSUME NEW j \in DOMAIN now, NEW k \in DOMAIN now,
             now[j] \in StartMarkers, now[k] = "end", j < k
      PROVE  k > 2 /\ now[k - 1] = "body" /\ now[k - 2] \in StartMarkers
  <2>1. CASE k \in 1 .. n
    <3>1. j \in DOMAIN lines /\ k \in DOMAIN lines
      BY <1>1, <1>3, <1>4, <2>1
    <3>2. lines[j] \in StartMarkers /\ lines[k] = "end"
      BY <1>1, <1>2, <1>4, <3>1
    <3>3. k > 2 /\ lines[k - 1] = "body" /\ lines[k - 2] \in StartMarkers
      BY <1>4, <3>1, <3>2 DEF SectionsWhole
    <3>4. k - 1 \in 1 .. n /\ k - 2 \in 1 .. n
      BY <1>1, <2>1, <3>3
    <3>5. QED
      BY <1>2, <3>3, <3>4
  <2>2. CASE k \notin 1 .. n
    <3>1. k = n + 1 \/ k = n + 2 \/ k = n + 3
      BY <1>1, <1>3, <2>2
    <3>2. k = n + 3
      BY <1>2, <1>4, <3>1
    <3>3. k > 2 /\ k - 1 = n + 2 /\ k - 2 = n + 1
      BY <1>1, <1>3, <1>4, <3>2
    <3>4. QED
      BY <1>2, <3>3 DEF StartMarkers
  <2>3. QED
    BY <2>1, <2>2
<1>5. {k \in DOMAIN now : now[k] = "text"} = {k \in DOMAIN lines : lines[k] = "text"}
  <2>1. ASSUME NEW k \in 1 .. n + 3, now[k] = "text" PROVE k \in 1 .. n
    <3>1. k \in 1 .. n \/ k = n + 1 \/ k = n + 2 \/ k = n + 3
      BY <1>1
    <3>2. QED
      BY <1>2, <2>1, <3>1
  <2>2. \A k \in 1 .. n : k \in 1 .. n + 3
    BY <1>1
  <2>3. QED
    BY <1>1, <1>2, <1>3, <2>1, <2>2
<1>6. TextLines(now) = TextLines(lines)
  BY <1>5 DEF TextLines
<1>7. SectionsWhole(now)
  BY <1>4 DEF SectionsWhole
<1>8. QED
  BY <1>2, <1>6, <1>7 DEF InfoSound, now

LEMMA ReplaceSound ==
  ASSUME NEW lines \in Seq(InfoLine), SectionsWhole(lines), NEW e \in Nat, EndsAt(lines, e)
  PROVE  LET now == SubSeq(lines, 1, e - 3) \o Section \o SubSeq(lines, e + 1, Len(lines))
         IN InfoSound(lines, now) /\ EndsAt(now, e) /\ now[e - 2] = "start v=cur"
<1> DEFINE now == SubSeq(lines, 1, e - 3) \o Section \o SubSeq(lines, e + 1, Len(lines))
<1>1. Len(lines) \in Nat /\ DOMAIN lines = 1 .. Len(lines)
  OBVIOUS
<1>2. /\ now \in Seq(InfoLine) /\ Len(now) = Len(lines)
      /\ now[e - 2] = "start v=cur"
      /\ \A k \in 1 .. Len(lines) : k # e - 2 => now[k] = lines[k]
  BY SectionReplaced
<1>3. /\ e \in DOMAIN lines /\ e > 2 /\ lines[e] = "end"
      /\ lines[e - 1] = "body" /\ lines[e - 2] \in StartMarkers
      /\ \A j, k \in DOMAIN lines :
           lines[j] \in StartMarkers /\ lines[k] = "end" /\ j < k => e <= k
  BY DEF EndsAt
<1> HIDE DEF now
<1>4. DOMAIN now = DOMAIN lines
  <2>1. DOMAIN now = 1 .. Len(now)
    BY <1>2, Indices
  <2>2. QED
    BY <1>1, <1>2, <2>1
<1>5. /\ \A k \in DOMAIN lines : now[k] \in StartMarkers <=> lines[k] \in StartMarkers
      /\ \A k \in DOMAIN lines : now[k] = "end" <=> lines[k] = "end"
      /\ \A k \in DOMAIN lines : now[k] = "body" <=> lines[k] = "body"
      /\ \A k \in DOMAIN lines : now[k] = "text" <=> lines[k] = "text"
  BY <1>1, <1>2, <1>3 DEF StartMarkers
<1>6. ASSUME NEW j \in DOMAIN now, NEW k \in DOMAIN now,
             now[j] \in StartMarkers, now[k] = "end", j < k
      PROVE  k > 2 /\ now[k - 1] = "body" /\ now[k - 2] \in StartMarkers
  <2>1. k > 2 /\ lines[k - 1] = "body" /\ lines[k - 2] \in StartMarkers
    BY <1>4, <1>5, <1>6 DEF SectionsWhole
  <2>2. k - 1 \in DOMAIN lines /\ k - 2 \in DOMAIN lines
    BY <1>1, <1>4, <2>1
  <2>3. QED
    BY <1>5, <2>1, <2>2
<1>7. SectionsWhole(now)
  BY <1>6 DEF SectionsWhole
<1>8. TextLines(now) = TextLines(lines)
  BY <1>4, <1>5, TextLinesSame
<1>9. EndsAt(now, e)
  <2>1. e - 1 \in DOMAIN lines /\ e - 2 \in DOMAIN lines
    BY <1>1, <1>3
  <2>2. QED
    BY <1>3, <1>4, <1>5, <2>1 DEF EndsAt
<1>10. QED
  BY <1>2, <1>7, <1>8, <1>9 DEF InfoSound, now

LEMMA RemoveSound ==
  ASSUME NEW lines \in Seq(InfoLine), SectionsWhole(lines), NEW e \in Nat, EndsAt(lines, e)
  PROVE  InfoSound(lines, SubSeq(lines, 1, e - 3) \o SubSeq(lines, e + 1, Len(lines)))
<1> DEFINE now == SubSeq(lines, 1, e - 3) \o SubSeq(lines, e + 1, Len(lines))
           n == Len(lines)
           was(k) == IF k < e - 2 THEN k ELSE k + 3
<1>1. n \in Nat /\ DOMAIN lines = 1 .. n
  OBVIOUS
<1>2. /\ now \in Seq(InfoLine) /\ Len(now) = n - 3
      /\ \A k \in 1 .. n - 3 : now[k] = IF k < e - 2 THEN lines[k] ELSE lines[k + 3]
  BY SectionRemoved
<1>3. /\ e \in 3 .. n /\ lines[e] = "end"
      /\ lines[e - 1] = "body" /\ lines[e - 2] \in StartMarkers
      /\ \A j, k \in DOMAIN lines :
           lines[j] \in StartMarkers /\ lines[k] = "end" /\ j < k => e <= k
  BY <1>1 DEF EndsAt
<1> HIDE DEF now, n
<1>4. DOMAIN now = 1 .. n - 3
  BY <1>1, <1>2, <1>3
<1>5. ASSUME NEW k \in DOMAIN now
      PROVE  was(k) \in DOMAIN lines /\ now[k] = lines[was(k)]
  BY <1>1, <1>2, <1>3, <1>4, <1>5
<1>6. ASSUME NEW j \in DOMAIN now, NEW k \in DOMAIN now,
             now[j] \in StartMarkers, now[k] = "end", j < k
      PROVE  k > 2 /\ now[k - 1] = "body" /\ now[k - 2] \in StartMarkers
  <2>1. lines[was(j)] \in StartMarkers /\ lines[was(k)] = "end"
        /\ was(j) \in DOMAIN lines /\ was(k) \in DOMAIN lines
    BY <1>5, <1>6
  <2>2. was(j) < was(k)
    BY <1>3, <1>4, <1>6
  <2>3. /\ was(k) > 2 /\ lines[was(k) - 1] = "body" /\ lines[was(k) - 2] \in StartMarkers
        /\ e <= was(k)
    <3> HIDE DEF was
    <3>1. QED
      BY <1>3, <2>1, <2>2 DEF SectionsWhole
  <2>4. was(k) = k + 3 /\ was(k) - 1 = k + 2 /\ was(k) - 2 = k + 1
    BY <1>3, <1>4, <2>3
  <2>5. k + 2 # e /\ k + 1 # e
    BY <1>3, <2>3, <2>4 DEF StartMarkers
  <2>6. k - 1 \in DOMAIN now /\ k - 2 \in DOMAIN now /\ k > 2
        /\ was(k - 1) = k + 2 /\ was(k - 2) = k + 1
    <3>1. k \in 1 .. n - 3 /\ e <= k + 3 /\ n \in Nat
      BY <1>1, <1>4, <2>3, <2>4
    <3>2. k + 3 # e
      <4>1. ~ (k < e - 2)
        BY <1>3, <2>3, <2>4, <3>1
      <4>2. QED
        BY <1>3, <3>1, <4>1
    <3>3. k >= e
      BY <1>3, <2>5, <3>1, <3>2
    <3>4. k - 1 \in 1 .. n - 3 /\ k - 2 \in 1 .. n - 3 /\ k > 2
      BY <1>3, <3>1, <3>3
    <3>5. was(k - 1) = k + 2
      BY <1>3, <3>1, <3>3
    <3>6. was(k - 2) = k + 1
      BY <1>3, <3>1, <3>3
    <3>7. QED
      BY <1>4, <3>4, <3>5, <3>6
  <2>7. now[k - 1] = lines[k + 2] /\ now[k - 2] = lines[k + 1]
    <3>1. now[k - 1] = lines[was(k - 1)]
      BY <1>5, <2>6
    <3>2. now[k - 2] = lines[was(k - 2)]
      BY <1>5, <2>6
    <3>3. QED
      BY <2>6, <3>1, <3>2
  <2>8. QED
    BY <2>3, <2>4, <2>6, <2>7
<1>7. SectionsWhole(now)
  BY <1>6 DEF SectionsWhole
<1>8. TextLines(now) = TextLines(lines)
  <2> DEFINE S == {k \in DOMAIN now : now[k] = "text"}
             T == {k \in DOMAIN lines : lines[k] = "text"}
             f == [k \in S |-> was(k)]
  <2>1. ASSUME NEW k \in S PROVE f[k] \in T
    BY <1>5
  <2>2. ASSUME NEW j \in S, NEW k \in S, f[j] = f[k] PROVE j = k
    <3>1. j \in Nat /\ k \in Nat
      BY <1>4
    <3>2. QED
      BY <1>3, <2>2, <3>1
  <2>3. ASSUME NEW m \in T PROVE \E k \in S : f[k] = m
    <3>1. m \in 1 .. n /\ lines[m] = "text"
      BY <1>1
    <3>2. m # e /\ m # e - 1 /\ m # e - 2
      BY <1>3, <3>1 DEF StartMarkers
    <3>3. PICK k \in 1 .. n - 3 : was(k) = m
      <4>1. CASE m < e - 2
        <5>1. m \in 1 .. n - 3
          BY <1>1, <1>3, <3>1, <4>1
        <5>2. was(m) = m
          BY <4>1
        <5>3. QED
          BY <5>1, <5>2
      <4>2. CASE m > e
        <5>1. m - 3 \in 1 .. n - 3
          BY <1>1, <1>3, <3>1, <4>2
        <5>2. was(m - 3) = m
          BY <1>1, <1>3, <3>1, <4>2
        <5>3. QED
          BY <5>1, <5>2
      <4>3. QED
        BY <1>3, <3>1, <3>2, <4>1, <4>2
    <3>4. k \in S
      BY <1>4, <1>5, <3>1, <3>3
    <3>5. QED
      BY <3>3, <3>4
  <2>4. ExistsBijection(S, T)
    <3> HIDE DEF S, T
    <3>1. f \in [S -> T]
      BY <2>1
    <3> HIDE DEF f
    <3>2. f \in Bijection(S, T)
      BY <2>2, <2>3, <3>1 DEF Bijection, Injection, Surjection, IsInjective
    <3>3. QED
      BY <3>2 DEF ExistsBijection
  <2>5. IsFiniteSet(S)
    <3>1. S \in SUBSET (1 .. n - 3) /\ n - 3 \in Nat
      BY <1>1, <1>3, <1>4
    <3> HIDE DEF S
    <3>2. QED
      BY <3>1, CountOne
  <2>6. Cardinality(T) = Cardinality(S)
    <3> HIDE DEF S, T
    <3>1. QED
      BY <2>4, <2>5, FS_Bijection
  <2>7. QED
    BY <2>6 DEF TextLines
<1>9. QED
  BY <1>2, <1>7, <1>8 DEF InfoSound, now, n

\* A section of this version is where the next one would be put.
UpToDate(lines) == \E e \in Nat : EndsAt(lines, e) /\ lines[e - 2] = "start v=cur"

LEMMA EndUnique ==
  ASSUME NEW lines \in Seq(InfoLine), NEW e \in Nat, NEW e2 \in Nat,
         EndsAt(lines, e), EndsAt(lines, e2)
  PROVE  e = e2
<1>1. /\ e \in DOMAIN lines /\ e - 2 \in DOMAIN lines /\ lines[e - 2] \in StartMarkers
      /\ lines[e] = "end" /\ e - 2 < e
  BY DEF EndsAt
<1>2. /\ e2 \in DOMAIN lines /\ e2 - 2 \in DOMAIN lines /\ lines[e2 - 2] \in StartMarkers
      /\ lines[e2] = "end" /\ e2 - 2 < e2
  BY DEF EndsAt
<1>3. e2 <= e /\ e <= e2
  BY <1>1, <1>2 DEF EndsAt
<1>4. QED
  BY <1>3

LEMMA NoneIsNone ==
  ASSUME NEW lines, NEW e \in Nat, NoSection(lines), EndsAt(lines, e),
         e - 2 \in DOMAIN lines
  PROVE  FALSE
<1>1. e \in DOMAIN lines /\ lines[e] = "end" /\ lines[e - 2] \in StartMarkers /\ e - 2 < e
  BY DEF EndsAt
<1>2. QED
  BY <1>1 DEF NoSection

LEMMA AppendedUpToDate ==
  ASSUME NEW lines \in Seq(InfoLine), NoSection(lines)
  PROVE  UpToDate(lines \o Section) /\ EndsAt(lines \o Section, Len(lines) + 3)
<1> DEFINE now == lines \o Section
           n == Len(lines)
<1>1. n \in Nat /\ DOMAIN lines = 1 .. n
  BY Indices
<1>2. /\ now \in Seq(InfoLine) /\ Len(now) = n + 3
      /\ \A k \in 1 .. n : now[k] = lines[k]
      /\ now[n + 1] = "start v=cur" /\ now[n + 2] = "body" /\ now[n + 3] = "end"
  BY SectionAppended
<1> HIDE DEF now, n
<1>3. DOMAIN now = 1 .. n + 3
  <2>1. DOMAIN now = 1 .. Len(now)
    BY <1>2, Indices
  <2>2. QED
    BY <1>2, <2>1
<1>4. ASSUME NEW j \in DOMAIN now, NEW k \in DOMAIN now,
             now[j] \in StartMarkers, now[k] = "end", j < k
      PROVE  n + 3 <= k
  <2>1. j \in Nat /\ k \in 1 .. n + 3
    BY <1>3
  <2>2. CASE k \in 1 .. n
    <3>1. j \in 1 .. n
      BY <1>1, <1>3, <1>4, <2>2
    <3>2. lines[j] \in StartMarkers /\ lines[k] = "end"
      BY <1>2, <1>4, <2>2, <3>1
    <3>3. QED
      BY <1>1, <1>4, <2>2, <3>1, <3>2 DEF NoSection
  <2>3. CASE k \notin 1 .. n
    <3>1. k = n + 1 \/ k = n + 2 \/ k = n + 3
      BY <1>1, <2>1, <2>3
    <3>2. k = n + 3
      BY <1>2, <1>4, <3>1
    <3>3. QED
      BY <1>1, <3>2
  <2>4. QED
    BY <2>2, <2>3
<1>5. EndsAt(now, n + 3)
  <2>1. n + 3 \in DOMAIN now /\ n + 3 > 2 /\ (n + 3) - 1 = n + 2 /\ (n + 3) - 2 = n + 1
    BY <1>1, <1>3
  <2>2. now[(n + 3) - 2] \in StartMarkers /\ now[(n + 3) - 1] = "body"
    BY <1>2, <2>1 DEF StartMarkers
  <2>3. QED
    BY <1>2, <1>4, <2>1, <2>2 DEF EndsAt
<1>6. now[(n + 3) - 2] = "start v=cur" /\ n + 3 \in Nat
  <2>1. (n + 3) - 2 = n + 1 /\ n + 3 \in Nat
    BY <1>1
  <2>2. QED
    BY <1>2, <2>1
<1>7. UpToDate(now)
  BY <1>5, <1>6 DEF UpToDate
<1>8. QED
  BY <1>5, <1>7 DEF now, n

LEMMA BoundaryArithmetic ==
  ASSUME NEW e \in Nat
  PROVE  (e - 2) - 1 = e - 3
OBVIOUS

\* injectAllTargets() on a file that is there.
LEMMA ManagedSound ==
  ASSUME NEW lines \in Seq(InfoLine), SectionsWhole(lines)
  PROVE  InfoSound(lines, WithManagedSection(lines)) /\ UpToDate(WithManagedSection(lines))
<1>1. CASE NoSection(lines) /\ FindMarkerBoundaries(lines) = <<0, 0>>
  <2>1. WithManagedSection(lines) = lines \o Section
    BY <1>1 DEF WithManagedSection
  <2>2. QED
    BY <1>1, <2>1, AppendSound, AppendedUpToDate
<1>2. ASSUME NEW e \in Nat, EndsAt(lines, e), FindMarkerBoundaries(lines) = <<e - 2, e>>
      PROVE  InfoSound(lines, WithManagedSection(lines)) /\ UpToDate(WithManagedSection(lines))
  <2> DEFINE now == SubSeq(lines, 1, e - 3) \o Section \o SubSeq(lines, e + 1, Len(lines))
  <2>1. WithManagedSection(lines) = now
    <3>1. <<e - 2, e>> # <<0, 0>> /\ <<e - 2, e>>[1] = e - 2 /\ <<e - 2, e>>[2] = e
      BY <1>2 DEF EndsAt
    <3>2. WithManagedSection(lines) =
            SubSeq(lines, 1, (e - 2) - 1) \o Section \o SubSeq(lines, e + 1, Len(lines))
      BY <1>2, <3>1 DEF WithManagedSection
    <3>3. QED
      BY <3>2, BoundaryArithmetic
  <2>2. InfoSound(lines, now) /\ EndsAt(now, e) /\ now[e - 2] = "start v=cur"
    BY <1>2, ReplaceSound
  <2> HIDE DEF now
  <2>3. UpToDate(now)
    BY <2>2 DEF UpToDate
  <2>4. QED
    BY <2>1, <2>2, <2>3
<1>3. QED
  BY <1>1, <1>2, BoundariesAre

\* A second time it changes nothing.
LEMMA ManagedTwice ==
  ASSUME NEW lines \in Seq(InfoLine), SectionsWhole(lines), UpToDate(lines)
  PROVE  WithManagedSection(lines) = lines /\ HasManagedSection(lines)
<1>1. PICK e \in Nat : EndsAt(lines, e) /\ lines[e - 2] = "start v=cur"
  BY DEF UpToDate
<1>2. Len(lines) \in Nat /\ DOMAIN lines = 1 .. Len(lines)
  BY Indices
<1>3. e \in DOMAIN lines /\ e > 2 /\ e - 2 \in DOMAIN lines
  <2>1. e \in 1 .. Len(lines) /\ e > 2
    BY <1>1, <1>2 DEF EndsAt
  <2>2. e - 2 \in 1 .. Len(lines)
    BY <1>2, <2>1
  <2>3. QED
    BY <1>2, <2>1, <2>2
<1>4. ~ NoSection(lines)
  BY <1>1, <1>3, NoneIsNone
<1>5. FindMarkerBoundaries(lines) = <<e - 2, e>>
  <2>1. PICK e2 \in Nat : EndsAt(lines, e2) /\ FindMarkerBoundaries(lines) = <<e2 - 2, e2>>
    BY <1>4, BoundariesAre
  <2>2. e2 = e
    BY <1>1, <2>1, EndUnique
  <2>3. QED
    BY <2>1, <2>2
<1>6. <<e - 2, e>> # <<0, 0>> /\ <<e - 2, e>>[1] = e - 2 /\ <<e - 2, e>>[2] = e
  BY <1>3
<1> DEFINE now == SubSeq(lines, 1, e - 3) \o Section \o SubSeq(lines, e + 1, Len(lines))
<1>7. WithManagedSection(lines) = now
  <2>1. WithManagedSection(lines) =
          SubSeq(lines, 1, (e - 2) - 1) \o Section \o SubSeq(lines, e + 1, Len(lines))
    BY <1>5, <1>6 DEF WithManagedSection
  <2>2. QED
    BY <2>1, BoundaryArithmetic
<1>8. /\ now \in Seq(InfoLine) /\ Len(now) = Len(lines) /\ now[e - 2] = "start v=cur"
      /\ \A k \in 1 .. Len(lines) : k # e - 2 => now[k] = lines[k]
  BY <1>1, SectionReplaced
<1> HIDE DEF now
<1>9. \A k \in 1 .. Len(now) : now[k] = lines[k]
  BY <1>1, <1>8
<1>10. now = lines
  BY <1>8, <1>9, SameLines
<1>11. QED
  BY <1>5, <1>6, <1>7, <1>10 DEF HasManagedSection

LEMMA RemovedSound ==
  ASSUME NEW lines \in Seq(InfoLine), SectionsWhole(lines), HasManagedSection(lines)
  PROVE  InfoSound(lines, RemoveMarkerSection(lines))
<1>1. PICK e \in Nat : EndsAt(lines, e) /\ FindMarkerBoundaries(lines) = <<e - 2, e>>
  BY SectionManaged
<1>2. <<e - 2, e>>[1] = e - 2 /\ <<e - 2, e>>[2] = e
  OBVIOUS
<1>3. RemoveMarkerSection(lines) =
        SubSeq(lines, 1, (e - 2) - 1) \o SubSeq(lines, e + 1, Len(lines))
  BY <1>1, <1>2 DEF RemoveMarkerSection
<1>4. QED
  BY <1>1, <1>3, BoundaryArithmetic, RemoveSound

LEMMA EmptySound ==
  /\ <<>> \in Seq(InfoLine) /\ SectionsWhole(<<>>) /\ NoSection(<<>>)
  /\ TextLines(<<>>) = 0
<1>1. DOMAIN <<>> = {}
  OBVIOUS
<1>2. SectionsWhole(<<>>) /\ NoSection(<<>>)
  BY <1>1 DEF SectionsWhole, NoSection
<1>3. QED
  BY <1>1, <1>2, NoText

\* What is made where there was no file holds nothing but ours.
LEMMA CreatedSound ==
  ASSUME NEW name
  PROVE  InfoSound(<<>>, CreatedInfoFile(name)) /\ UpToDate(CreatedInfoFile(name))
<1>1. ASSUME NEW lines \in Seq(InfoLine), NoSection(lines), SectionsWhole(lines),
             TextLines(lines) = 0
      PROVE  InfoSound(<<>>, lines \o Section) /\ UpToDate(lines \o Section)
  <2>1. InfoSound(lines, lines \o Section)
    BY <1>1, AppendSound
  <2>2. QED
    BY <1>1, <2>1, EmptySound, AppendedUpToDate DEF InfoSound
<1>2. CASE name = "glasstrace.mdc"
  <2> DEFINE front == <<"front">>
  <2>1. /\ front \in Seq(InfoLine) /\ DOMAIN front = {1} /\ front[1] = "front"
        /\ "front" \notin StartMarkers
    BY DEF InfoLine, StartMarkers
  <2> HIDE DEF front
  <2>2. NoSection(front) /\ SectionsWhole(front) /\ TextLines(front) = 0
    <3>1. \A k \in DOMAIN front : front[k] # "text"
      BY <2>1
    <3>2. QED
      BY <2>1, <3>1, NoText DEF NoSection, SectionsWhole
  <2>3. CreatedInfoFile(name) = front \o Section
    BY <1>2 DEF CreatedInfoFile, front
  <2>4. QED
    BY <1>1, <2>1, <2>2, <2>3
<1>3. CASE name # "glasstrace.mdc"
  <2>1. <<>> \o Section = Section
    BY DEF Section
  <2>2. CreatedInfoFile(name) = <<>> \o Section
    BY <1>3, <2>1 DEF CreatedInfoFile
  <2>3. QED
    BY <1>1, <2>2, EmptySound
<1>4. QED
  BY <1>2, <1>3

-----------------------------------------------------------------------------
\* What a step may do to a directory

\* Every text is still fit for its file, and the user's part of it is there.
Keeps(was, now) == DirSound(now) /\ KeepsAll(was, now)

KeysKept(was, now) == \A n \in {"anon_key", "claimed-key"} : Has(was, n) => Has(now, n)

\* ... and no key is lost or replaced.
Tame(was, now) == Keeps(was, now) /\ KeysKept(was, now) /\ EnvKey(now) = EnvKey(was)

LEMMA TameReflexive ==
  ASSUME NEW dir, DirSound(dir)
  PROVE  Tame(dir, dir)
BY KeepsReflexive DEF Tame, Keeps, KeepsAll, KeysKept

LEMMA TameTransitive ==
  ASSUME NEW a, NEW b, NEW c, Tame(a, b), Tame(b, c)
  PROVE  Tame(a, c)
BY AllTransitive DEF Tame, Keeps, KeysKept

LEMMA WithTame ==
  ASSUME NEW dir, NEW name, NEW text, DirSound(dir), FileSound(name, text),
         name \in UserFiles => KeepsUserText(name, TextAt(dir, name), text),
         name = ".env.local" => ReadEnvLocalApiKey(text) = EnvKey(dir)
  PROVE  Tame(dir, With(dir, name, text))
<1> DEFINE new == With(dir, name, text)
<1>1. /\ DOMAIN new = DOMAIN dir \cup {name} /\ new[name] = text
      /\ \A n \in DOMAIN dir : n # name => new[n] = dir[n]
  BY DEF With
<1>2. Keeps(dir, new)
  BY WithKeeps DEF Keeps
<1> HIDE DEF new
<1>3. KeysKept(dir, new)
  BY <1>1 DEF KeysKept, Has
<1>4. EnvKey(new) = EnvKey(dir)
  <2>1. CASE name = ".env.local"
    BY <1>1, <2>1 DEF EnvKey, Has
  <2>2. CASE name # ".env.local"
    BY <1>1, <2>2 DEF EnvKey, Has
  <2>3. QED
    BY <2>1, <2>2
<1>5. QED
  BY <1>2, <1>3, <1>4 DEF Tame, new

LEMMA WithoutTame ==
  ASSUME NEW dir, NEW names, DirSound(dir),
         \A n \in names \cap UserFiles \cap DOMAIN dir : KeepsUserText(n, dir[n], EmptyText(n)),
         names \cap {"anon_key", "claimed-key", ".env.local"} = {}
  PROVE  Tame(dir, Without(dir, names))
<1> DEFINE new == Without(dir, names)
<1>1. /\ DOMAIN new = DOMAIN dir \ names
      /\ \A n \in DOMAIN dir \ names : new[n] = dir[n]
  BY WithoutIs
<1>2. Keeps(dir, new)
  BY WithoutKeeps DEF Keeps
<1> HIDE DEF new
<1>3. KeysKept(dir, new)
  BY <1>1 DEF KeysKept, Has
<1>4. EnvKey(new) = EnvKey(dir)
  BY <1>1 DEF EnvKey, Has
<1>5. QED
  BY <1>2, <1>3, <1>4 DEF Tame, new

\* A file the user does not share with the SDK.
LEMMA OursTame ==
  ASSUME NEW dir, NEW name, NEW text, DirSound(dir), name \notin UserFiles,
         FileSound(name, text)
  PROVE  Tame(dir, With(dir, name, text))
<1>1. name # ".env.local"
  BY DEF UserFiles
<1>2. QED
  BY <1>1, WithTame

LEMMA OursGone ==
  ASSUME NEW dir, NEW names, DirSound(dir), names \cap UserFiles = {},
         names \cap {"anon_key", "claimed-key"} = {}
  PROVE  Tame(dir, Without(dir, names))
<1>1. ".env.local" \notin names
  BY DEF UserFiles
<1>2. QED
  BY <1>1, WithoutTame

\* The empty text stands for a file that is not there.
LEMMA NothingYet ==
  ASSUME NEW dir, NEW n \in UserFiles
  PROVE  /\ Has(dir, n) => TextAt(dir, n) = dir[n]
         /\ ~ Has(dir, n) => TextAt(dir, n) = EmptyText(n)
         /\ n \in Instrumentation \cup Configs \cup {".gitignore"} => EmptyText(n) = {}
         /\ n \in InfoFiles \cup {".env.local"} => EmptyText(n) = <<>>
         /\ n = "mcp_config.json" => EmptyText(n).other = FALSE
BY DEF TextAt, EmptyText, UserFiles, Instrumentation, Configs, InfoFiles

LEMMA EnvTame ==
  ASSUME NEW dir, DirSound(dir), NEW text, Harmless(EnvLinesOf(dir), text)
  PROVE  Tame(dir, With(dir, ".env.local", text))
<1>1. ".env.local" \in UserFiles
  BY DEF UserFiles
<1>2. EnvLinesOf(dir) = TextAt(dir, ".env.local")
  BY <1>1, NothingYet DEF EnvLinesOf
<1>3. ReadEnvLocalApiKey(<<>>) = ""
  BY DEF ReadEnvLocalApiKey
<1>4. ReadEnvLocalApiKey(EnvLinesOf(dir)) = EnvKey(dir)
  BY <1>3 DEF EnvKey, EnvLinesOf
<1>5. FileSound(".env.local", text)
  BY DEF FileSound, Harmless, InfoFiles, McpFiles
<1>6. KeepsUserText(".env.local", TextAt(dir, ".env.local"), text)
  BY <1>2, KeepsIs DEF Harmless
<1>7. QED
  BY <1>1, <1>4, <1>5, <1>6, WithTame DEF Harmless

LEMMA EnvLinesTyped ==
  ASSUME NEW dir, DirSound(dir)
  PROVE  EnvLinesOf(dir) \in Seq(EnvLine)
BY DEF EnvLinesOf, DirSound, FileSound, Has

\* instrumentation.*, next.config.* and .gitignore are sets of pieces.
LEMMA PiecesTame ==
  ASSUME NEW dir, DirSound(dir), NEW name \in Instrumentation \cup Configs \cup {".gitignore"},
         NEW text, KeepsUserText(name, TextAt(dir, name), text)
  PROVE  Tame(dir, With(dir, name, text))
<1>1. FileSound(name, text) /\ name # ".env.local"
  BY DEF FileSound, Instrumentation, Configs, InfoFiles, McpFiles
<1>2. QED
  BY <1>1, WithTame

LEMMA PiecesKept ==
  /\ \A text, now : text \subseteq now => UserText(text) \subseteq now
  /\ UserText({}) = {}
  /\ \A text : UserText(text) \subseteq text
  /\ \A text : text \subseteq MergedInstrumentation(text)
  /\ \A text : UserText(text) \subseteq RemoveRegisterGlasstrace(text)
  /\ \A text : IsInitCreatedInstrumentation(text) => UserText(text) = {}
  /\ \A text : text \subseteq WrapExport(text)
<1>1. \A text : UserText(text) \subseteq text
  BY DEF UserText
<1>2. \A text : text \subseteq MergedInstrumentation(text)
  BY DEF MergedInstrumentation, InjectRegisterGlasstrace, AppendRegisterFunction
<1>3. \A text : UserText(text) \subseteq RemoveRegisterGlasstrace(text)
  BY DEF UserText, RemoveRegisterGlasstrace
<1>4. \A text : IsInitCreatedInstrumentation(text) => UserText(text) = {}
  BY DEF UserText, IsInitCreatedInstrumentation
<1>5. QED
  BY <1>1, <1>2, <1>3, <1>4 DEF WrapExport

-----------------------------------------------------------------------------
\* instrumentation.* and next.config.*

LEMMA NamesAre ==
  /\ DOMAIN NextConfigs = {1, 2} /\ Len(NextConfigs) = 2
  /\ DOMAIN RootInstrumentation = {1, 2} /\ Len(RootInstrumentation) = 2
  /\ DOMAIN SrcInstrumentation = {1, 2} /\ Len(SrcInstrumentation) = 2
  /\ NextConfigs[1] = "next.config.ts" /\ NextConfigs[2] = "next.config.js"
  /\ \A k \in {1, 2} : RootInstrumentation[k] \in Instrumentation
  /\ \A k \in {1, 2} : SrcInstrumentation[k] \in Instrumentation
  /\ Instrumentation \cap Configs = {} /\ ".env.local" \notin Instrumentation \cup Configs
BY DEF NextConfigs, RootInstrumentation, SrcInstrumentation, Instrumentation, Configs

\* The first of two.
FirstIn(I) == IF I # {} THEN Min(I) ELSE 0

LEMMA FirstIs ==
  ASSUME NEW I \in SUBSET (1 .. 2)
  PROVE  /\ FirstIn(I) \in {0, 1, 2} /\ (FirstIn(I) = 0 <=> I = {})
         /\ FirstIn(I) # 0 => FirstIn(I) \in I
         /\ 1 \in I => FirstIn(I) = 1
<1>1. CASE I = {}
  BY <1>1 DEF FirstIn
<1>2. CASE I # {}
  <2>1. Min(I) \in I /\ \A k \in I : Min(I) <= k
    BY <1>2, MinIs
  <2>2. FirstIn(I) = Min(I)
    BY <1>2 DEF FirstIn
  <2>3. FirstIn(I) = 1 \/ FirstIn(I) = 2
    <3>1. \A k \in 1 .. 2 : k = 1 \/ k = 2
      OBVIOUS
    <3>2. Min(I) \in 1 .. 2
      BY <2>1
    <3>3. QED
      BY <2>2, <3>1, <3>2
  <2>4. 1 \in I => FirstIn(I) <= 1
    BY <2>1, <2>2
  <2>5. QED
    BY <1>2, <2>1, <2>2, <2>3, <2>4
<1>3. QED
  BY <1>1, <1>2

LEMMA FirstOfIs ==
  ASSUME NEW dir, NEW names, Len(names) = 2
  PROVE  /\ FirstOf(dir, names) \in {0, 1, 2}
         /\ FirstOf(dir, names) # 0 => Has(dir, names[FirstOf(dir, names)])
         /\ FirstOf(dir, names) = 2 => ~ Has(dir, names[1])
<1> DEFINE I == {i \in 1 .. 2 : Has(dir, names[i])}
<1>1. FirstOf(dir, names) = FirstIn(I)
  BY DEF FirstOf, SelectInSeq, FirstIn
<1>2. I \in SUBSET (1 .. 2)
  OBVIOUS
<1>3. /\ FirstOf(dir, names) \in {0, 1, 2}
      /\ FirstOf(dir, names) # 0 => FirstOf(dir, names) \in I
      /\ 1 \in I => FirstOf(dir, names) = 1
  <2> HIDE DEF I
  <2>1. QED
    BY <1>1, <1>2, FirstIs
<1>4. 1 \in 1 .. 2
  OBVIOUS
<1>5. QED
  BY <1>3, <1>4

LEMMA TargetIs ==
  ASSUME NEW s, NEW dir, NEW name \in ToSet(InstrumentationTarget(s, dir))
  PROVE  name \in Instrumentation
<1> DEFINE root == FirstOf(dir, RootInstrumentation)
           src == FirstOf(dir, SrcInstrumentation)
<1>1. root \in {0, 1, 2} /\ src \in {0, 1, 2}
  <2>1. root \in {0, 1, 2}
    BY FirstOfIs, NamesAre
  <2>2. src \in {0, 1, 2}
    BY FirstOfIs, NamesAre
  <2>3. QED
    BY <2>1, <2>2
<1>2. InstrumentationTarget(s, dir) =
        CASE root # 0 /\ src # 0 -> <<>>
          [] src # 0 -> <<SrcInstrumentation[src]>>
          [] root # 0 -> <<RootInstrumentation[root]>>
          [] OTHER -> <<IF s.srcDir THEN "src/instrumentation.ts" ELSE "instrumentation.ts">>
  BY DEF InstrumentationTarget
<1> HIDE DEF root, src
<1>3. CASE root # 0 /\ src # 0
  <2>1. InstrumentationTarget(s, dir) \in {<<>>, <<SrcInstrumentation[src]>>, <<RootInstrumentation[root]>>}
    BY <1>2, <1>3
  <2>2. QED
    BY <1>1, <1>3, <2>1, NamesAre DEF ToSet
<1>4. CASE root = 0 \/ src = 0
  <2>1. \E n \in Instrumentation : InstrumentationTarget(s, dir) = <<n>>
    BY <1>1, <1>2, <1>4, NamesAre DEF Instrumentation
  <2>2. QED
    BY <2>1 DEF ToSet
<1>5. QED
  BY <1>1, <1>3, <1>4

\* Which configuration is unwrapped, and when.
LEMMA UnwrappedIs ==
  ASSUME NEW dir
  PROVE  /\ \/ UnwrappedConfig(dir) = dir
            \/ \E name \in Configs :
                 /\ Has(dir, name) /\ CanUnwrapExport(name, dir[name])
                 /\ UnwrappedConfig(dir) = With(dir, name, UnwrapExport(dir[name]))
         /\ \A name \in Configs :
              Has(dir, name) /\ MentionsWrapper(dir[name])
              /\ (name = "next.config.js" => ~ Has(dir, "next.config.ts")) =>
                UnwrappedConfig(dir) = IF CanUnwrapExport(name, dir[name])
                                       THEN With(dir, name, UnwrapExport(dir[name])) ELSE dir
<1> DEFINE test(n) == Has(dir, n) /\ MentionsWrapper(dir[n])
           I == {i \in 1 .. 2 : test(NextConfigs[i])}
           at == FirstIn(I)
           name == NextConfigs[at]
<1>1. UnwrappedConfig(dir) =
        IF at # 0 /\ CanUnwrapExport(name, dir[name])
        THEN With(dir, name, UnwrapExport(dir[name])) ELSE dir
  BY NamesAre DEF UnwrappedConfig, SelectInSeq, FirstIn
<1>2. at \in {0, 1, 2} /\ (at = 0 <=> I = {}) /\ (at # 0 => at \in I) /\ (1 \in I => at = 1)
  <2>1. I \in SUBSET (1 .. 2)
    OBVIOUS
  <2> HIDE DEF I
  <2>2. QED
    BY <2>1, FirstIs
<1>3. at # 0 => name \in Configs /\ test(name)
  BY <1>2, NamesAre DEF Configs
<1>4. ASSUME NEW n \in Configs, test(n), n = "next.config.js" => ~ Has(dir, "next.config.ts")
      PROVE  at # 0 /\ name = n
  <2>1. CASE n = "next.config.ts"
    <3>1. 1 \in I
      BY <1>4, <2>1, NamesAre
    <3> HIDE DEF at, I
    <3>2. QED
      BY <1>2, <2>1, <3>1, NamesAre
  <2>2. CASE n = "next.config.js"
    <3>1. 1 \notin I /\ 2 \in I
      BY <1>4, <2>2, NamesAre
    <3> HIDE DEF at, I
    <3>2. at = 2
      BY <1>2, <3>1
    <3>3. QED
      BY <2>2, <3>2, NamesAre
  <2>3. QED
    BY <2>1, <2>2 DEF Configs
<1> HIDE DEF at, I
<1>5. QED
  BY <1>1, <1>3, <1>4

LEMMA UnwrappedTame ==
  ASSUME NEW dir, DirSound(dir)
  PROVE  Tame(dir, UnwrappedConfig(dir))
<1>1. CASE UnwrappedConfig(dir) = dir
  BY <1>1, TameReflexive
<1>2. ASSUME NEW name \in Configs, Has(dir, name),
             UnwrappedConfig(dir) = With(dir, name, UnwrapExport(dir[name]))
      PROVE  Tame(dir, UnwrappedConfig(dir))
  <2>1. TextAt(dir, name) = dir[name]
    BY <1>2 DEF TextAt
  <2>2. KeepsUserText(name, TextAt(dir, name), UnwrapExport(dir[name]))
    BY <1>2, <2>1, KeepsIs, WrapperKeeps
  <2>3. QED
    BY <1>2, <2>2, PiecesTame
<1>3. QED
  BY <1>1, <1>2, UnwrappedIs

-----------------------------------------------------------------------------
\* Instruction files and MCP configurations

LEMMA InfoTame ==
  ASSUME NEW dir, NEW new, DirSound(dir),
         NEW names \in SUBSET InfoFiles,
         DOMAIN new = DOMAIN dir \cup names,
         \A n \in DOMAIN dir \ names : new[n] = dir[n],
         \A n \in names : InfoSound(TextAt(dir, n), new[n])
  PROVE  Tame(dir, new)
<1>1. /\ InfoFiles \subseteq UserFiles
      /\ InfoFiles \cap {".env.local", "anon_key", "claimed-key"} = {} /\ InfoFiles \cap McpFiles = {}
  BY DEF UserFiles, InfoFiles, McpFiles
<1>2. ASSUME NEW n \in DOMAIN new PROVE FileSound(n, new[n])
  <2>1. CASE n \in names
    BY <1>1, <2>1 DEF FileSound, InfoSound
  <2>2. CASE n \notin names
    BY <2>2 DEF DirSound
  <2>3. QED
    BY <2>1, <2>2
<1>3. ASSUME NEW n \in UserFiles
      PROVE  KeepsUserText(n, TextAt(dir, n), TextAt(new, n))
  <2>1. CASE n \in names
    <3>1. TextAt(new, n) = new[n]
      BY <2>1 DEF TextAt, Has
    <3>2. QED
      BY <2>1, <3>1, KeepsIs DEF InfoSound
  <2>2. CASE n \notin names
    <3>1. TextAt(new, n) = TextAt(dir, n)
      BY <2>2 DEF TextAt, Has
    <3>2. QED
      BY <3>1, KeepsReflexive
  <2>3. QED
    BY <2>1, <2>2
<1>4. KeysKept(dir, new)
  BY <1>1 DEF KeysKept, Has
<1>5. EnvKey(new) = EnvKey(dir)
  BY <1>1 DEF EnvKey, Has
<1>6. QED
  BY <1>2, <1>3, <1>4, <1>5 DEF Tame, Keeps, DirSound, KeepsAll

LEMMA TargetsAre ==
  ASSUME NEW agent
  PROVE  TargetsOf(agent) \subseteq InfoFiles
<1>1. CASE agent \in {"claude", "gemini", "cursor", "windsurf"}
  BY <1>1 DEF TargetsOf, InfoFiles
<1>2. CASE agent \notin {"claude", "gemini", "cursor", "windsurf"}
  BY <1>2 DEF TargetsOf, InfoFiles
<1>3. QED
  BY <1>1, <1>2

\* The files injectAllTargets() writes in one directory.
Targeted(targets, d) == {n \in InfoFiles : <<d, n>> \in targets}

LEMMA InjectedIs ==
  ASSUME NEW files, NEW targets, NEW d \in Dir
  PROVE  LET new == InjectAllTargets(files, targets)[d]
             names == Targeted(targets, d)
         IN /\ names \subseteq InfoFiles
            /\ DOMAIN new = DOMAIN files[d] \cup names
            /\ \A n \in DOMAIN files[d] \ names : new[n] = files[d][n]
            /\ \A n \in names : new[n] = IF Has(files[d], n) THEN WithManagedSection(files[d][n])
                                         ELSE CreatedInfoFile(n)
<1> DEFINE names == Targeted(targets, d)
           new == InjectAllTargets(files, targets)[d]
<1>1. names \subseteq InfoFiles
  BY DEF Targeted
<1>2. new = [n \in DOMAIN files[d] \cup names |->
               CASE n \notin names -> files[d][n]
                 [] n \in names /\ Has(files[d], n) -> WithManagedSection(files[d][n])
                 [] n \in names /\ ~ Has(files[d], n) -> CreatedInfoFile(n)]
  BY DEF InjectAllTargets, Targeted
<1> HIDE DEF names, new
<1>3. DOMAIN new = DOMAIN files[d] \cup names
  BY <1>2
<1>4. ASSUME NEW n \in DOMAIN files[d] \ names PROVE new[n] = files[d][n]
  BY <1>2, <1>4
<1>5. ASSUME NEW n \in names
      PROVE  new[n] = IF Has(files[d], n) THEN WithManagedSection(files[d][n])
                      ELSE CreatedInfoFile(n)
  BY <1>2, <1>5
<1>6. QED
  BY <1>1, <1>3, <1>4, <1>5 DEF names, new

LEMMA InjectTame ==
  ASSUME NEW files, NEW targets, NEW d \in Dir, DirSound(files[d])
  PROVE  Tame(files[d], InjectAllTargets(files, targets)[d])
<1> DEFINE names == Targeted(targets, d)
           new == InjectAllTargets(files, targets)[d]
           dir == files[d]
<1>0. \A e \in Dir :
        LET now == InjectAllTargets(files, targets)[e]
            these == Targeted(targets, e)
        IN /\ these \subseteq InfoFiles
           /\ DOMAIN now = DOMAIN files[e] \cup these
           /\ \A n \in DOMAIN files[e] \ these : now[n] = files[e][n]
           /\ \A n \in these : now[n] = IF Has(files[e], n) THEN WithManagedSection(files[e][n])
                                         ELSE CreatedInfoFile(n)
  BY InjectedIs
<1>1. /\ names \subseteq InfoFiles /\ DOMAIN new = DOMAIN dir \cup names
      /\ \A n \in DOMAIN dir \ names : new[n] = dir[n]
      /\ \A n \in names : new[n] = IF Has(dir, n) THEN WithManagedSection(dir[n])
                                   ELSE CreatedInfoFile(n)
  BY <1>0
<1> HIDE DEF names, new, dir
<1>2. ASSUME NEW n \in names PROVE InfoSound(TextAt(dir, n), new[n])
  <2>1. CASE Has(dir, n)
    <3>1. dir[n] \in Seq(InfoLine) /\ SectionsWhole(dir[n])
      BY <1>1, <1>2, <2>1 DEF DirSound, FileSound, Has, dir
    <3>2. InfoSound(dir[n], WithManagedSection(dir[n]))
      BY <3>1, ManagedSound
    <3>3. QED
      BY <1>1, <1>2, <2>1, <3>2 DEF TextAt
  <2>2. CASE ~ Has(dir, n)
    <3>1. TextAt(dir, n) = <<>>
      BY <1>1, <1>2, <2>2 DEF TextAt, EmptyText
    <3>2. QED
      BY <1>1, <1>2, <2>2, <3>1, CreatedSound
  <2>3. QED
    BY <2>1, <2>2
<1>3. Tame(dir, new)
  BY <1>1, <1>2, InfoTame DEF dir
<1>4. QED
  BY <1>3 DEF dir, new

-----------------------------------------------------------------------------
\* Steps that only add, or take what is ours

DirsTame ==
  fs' = [d \in Dir |-> fs'[d]] /\ \A d \in Dir : Tame(fs[d], fs'[d])

LEMMA EditTame ==
  ASSUME TypeOK, AllKept, NEW d, NEW new, fs' = [fs EXCEPT ![d] = new],
         d \in Dir => Tame(fs[d], new)
  PROVE  DirsTame
<1>1. fs = [e \in Dir |-> fs[e]] /\ \A e \in Dir : DirSound(fs[e])
  BY DEF TypeOK, AllKept
<1>2. DOMAIN fs = Dir
  BY <1>1
<1>3. fs' = [e \in Dir |-> IF e = d THEN new ELSE fs[e]]
  BY <1>2
<1>4. fs' = [e \in Dir |-> fs'[e]]
  BY <1>3
<1>5. ASSUME NEW e \in Dir PROVE Tame(fs[e], fs'[e])
  <2>1. CASE e = d
    BY <1>3, <2>1
  <2>2. CASE e # d
    BY <1>1, <1>3, <2>2, TameReflexive
  <2>3. QED
    BY <2>1, <2>2
<1>6. QED
  BY <1>4, <1>5 DEF DirsTame

LEMMA SameTame ==
  ASSUME TypeOK, AllKept, UNCHANGED fs
  PROVE  DirsTame
<1>1. fs = [e \in Dir |-> fs[e]] /\ \A e \in Dir : DirSound(fs[e])
  BY DEF TypeOK, AllKept
<1>2. QED
  BY <1>1, TameReflexive DEF DirsTame

LEMMA HereIs ==
  ASSUME TypeOK, AllKept
  PROVE  cmd.root \in Dir /\ Here = fs[cmd.root] /\ DirSound(Here) /\ App = fs["app"]
         /\ DirSound(App) /\ DirSound(fs["home"]) /\ "home" \in Dir /\ "app" \in Dir
BY DEF TypeOK, Command, AllKept, Here, App, Dir, Sites

LEMMA PutTame ==
  ASSUME TypeOK, AllKept, NEW name, NEW text, fs' = Put(name, text),
         Tame(Here, With(Here, name, text))
  PROVE  DirsTame
<1>1. fs' = [fs EXCEPT ![cmd.root] = With(fs[cmd.root], name, text)]
  BY DEF Put
<1>2. QED
  BY <1>1, HereIs, EditTame

LEMMA InstrumentationStep ==
  ASSUME TypeOK, AllKept, InitInstrumentation
  PROVE  DirsTame \/ FailAndRollBack
<1>1. DirSound(Here)
  BY HereIs
<1>2. CASE UNCHANGED fs
  BY <1>2, SameTame
<1>3. CASE FailAndRollBack
  BY <1>3
<1>4. ASSUME NEW name \in ToSet(InstrumentationTarget(site, Here)),
             \/ ~ Has(Here, name) /\ fs' = Put(name, {"import", "register", "call"})
             \/ Has(Here, name) /\ fs' = Put(name, MergedInstrumentation(Here[name]))
      PROVE  DirsTame
  <2>1. name \in Instrumentation
    BY <1>4, TargetIs
  <2>2. name \in UserFiles
    BY <2>1 DEF UserFiles
  <2>3. CASE ~ Has(Here, name) /\ fs' = Put(name, {"import", "register", "call"})
    <3>1. TextAt(Here, name) = {}
      BY <2>1, <2>2, <2>3, NothingYet
    <3>2. KeepsUserText(name, {}, {"import", "register", "call"})
      BY <2>1, KeepsIs, PiecesKept
    <3>3. QED
      BY <1>1, <2>1, <2>3, <3>1, <3>2, PiecesTame, PutTame
  <2>4. CASE Has(Here, name) /\ fs' = Put(name, MergedInstrumentation(Here[name]))
    <3>1. TextAt(Here, name) = Here[name]
      BY <2>2, <2>4, NothingYet
    <3>2. KeepsUserText(name, Here[name], MergedInstrumentation(Here[name]))
      BY <2>1, KeepsIs, PiecesKept
    <3>3. QED
      BY <1>1, <2>1, <2>4, <3>1, <3>2, PiecesTame, PutTame
  <2>5. QED
    BY <1>4, <2>3, <2>4
<1>5. QED
  BY <1>2, <1>3, <1>4 DEF InitInstrumentation, SkipTo

LEMMA ConfigStep ==
  ASSUME TypeOK, AllKept, InitNextConfig
  PROVE  DirsTame \/ FailAndRollBack
<1> DEFINE at == FirstOf(Here, NextConfigs)
           name == NextConfigs[at]
<1>1. DirSound(Here)
  BY HereIs
<1>2. CASE UNCHANGED fs
  BY <1>2, SameTame
<1>3. CASE FailAndRollBack
  BY <1>3
<1>4. CASE at # 0 /\ fs' = Put(name, WrapExport(Here[name]))
  <2>1. name \in Configs /\ Has(Here, name)
    <3>1. at \in {1, 2} /\ Has(Here, name)
      BY <1>4, FirstOfIs, NamesAre
    <3> HIDE DEF at
    <3>2. QED
      BY <3>1, NamesAre DEF Configs
  <2> HIDE DEF at, name
  <2>2. name \in UserFiles
    BY <2>1 DEF UserFiles
  <2>3. TextAt(Here, name) = Here[name]
    BY <2>1, <2>2, NothingYet
  <2>4. KeepsUserText(name, Here[name], WrapExport(Here[name]))
    BY <2>1, KeepsIs, WrapperKeeps
  <2>5. QED
    BY <1>1, <1>4, <2>1, <2>3, <2>4, PiecesTame, PutTame
<1>5. QED
  BY <1>2, <1>3, <1>4 DEF InitNextConfig, Scaffold, SkipTo

LEMMA EnvLocalStep ==
  ASSUME TypeOK, AllKept, InitEnvLocal
  PROVE  DirsTame \/ FailAndRollBack
<1>1. DirSound(Here)
  BY HereIs
<1>2. CASE UNCHANGED fs
  BY <1>2, SameTame
<1>3. CASE FailAndRollBack
  BY <1>3
<1>4. CASE fs' = Put(".env.local", WithPlaceholder(EnvLinesOf(Here)))
  <2>1. Harmless(EnvLinesOf(Here), WithPlaceholder(EnvLinesOf(Here)))
    BY <1>1, EnvLinesTyped, PlaceholderHarmless
  <2>2. QED
    BY <1>1, <1>4, <2>1, EnvTame, PutTame
<1>5. QED
  BY <1>2, <1>3, <1>4 DEF InitEnvLocal, Scaffold, SkipTo, EnvLinesOf

LEMMA GitignoreTame ==
  ASSUME TypeOK, AllKept, NEW more,
         fs' = Put(".gitignore", (IF Has(Here, ".gitignore") THEN Here[".gitignore"] ELSE {}) \cup more)
  PROVE  DirsTame
<1> DEFINE text == (IF Has(Here, ".gitignore") THEN Here[".gitignore"] ELSE {}) \cup more
<1>1. DirSound(Here)
  BY HereIs
<1>2. KeepsUserText(".gitignore", TextAt(Here, ".gitignore"), text)
  <2>1. TextAt(Here, ".gitignore") = IF Has(Here, ".gitignore") THEN Here[".gitignore"] ELSE {}
    BY DEF TextAt, EmptyText, InfoFiles
  <2>2. TextAt(Here, ".gitignore") \ GitignoreEntries \subseteq text
    BY <2>1
  <2> HIDE DEF text
  <2>3. QED
    BY <2>2, KeepsIs
<1> HIDE DEF text
<1>3. Tame(Here, With(Here, ".gitignore", text))
  BY <1>1, <1>2, PiecesTame
<1>4. fs' = Put(".gitignore", text)
  BY DEF text
<1>5. QED
  BY <1>3, <1>4, PutTame

LEMMA GitignoreStep ==
  ASSUME TypeOK, AllKept, InitGitignore
  PROVE  DirsTame \/ FailAndRollBack
<1>1. CASE UNCHANGED fs
  BY <1>1, SameTame
<1>2. QED
  BY <1>1, GitignoreTame DEF InitGitignore, Scaffold, SkipTo

LEMMA UpdateGitignoreStep ==
  ASSUME TypeOK, AllKept, UpdateGitignore
  PROVE  DirsTame
<1>1. CASE UNCHANGED fs
  BY <1>1, SameTame
<1>2. QED
  BY <1>1, GitignoreTame DEF UpdateGitignore

LEMMA KeyStep ==
  ASSUME TypeOK, AllKept, InitAnonKey
  PROVE  DirsTame
<1>1. CASE UNCHANGED fs
  BY <1>1, SameTame
<1>2. ASSUME NEW key \in AnonKey, fs' = Put("anon_key", key) PROVE DirsTame
  <2>1. "anon_key" \notin UserFiles /\ FileSound("anon_key", key)
    BY DEF UserFiles, FileSound, Instrumentation, Configs, InfoFiles, McpFiles
  <2>2. QED
    BY <1>2, <2>1, HereIs, OursTame, PutTame
<1>3. QED
  BY <1>1, <1>2 DEF InitAnonKey

\* The discovery file, the agents' configurations and the marker are ours.
OurFiles == {"public", "static", "mcp-connected", "shutdown-requested", "lock", ".mcp.json",
             ".codex/config.toml", ".gemini/settings.json", ".cursor/mcp.json", "mcp.json"}

LEMMA OurFilesAre ==
  ASSUME NEW name \in OurFiles
  PROVE  /\ name \notin UserFiles /\ name \notin {"anon_key", "claimed-key", ".env.local"}
         /\ \A text : (name \in McpFiles => text \in McpText) => FileSound(name, text)
BY DEF OurFiles, UserFiles, FileSound, Instrumentation, Configs, InfoFiles, McpFiles

LEMMA OurPut ==
  ASSUME TypeOK, AllKept, NEW d, NEW name \in OurFiles, NEW text,
         name \in McpFiles => text \in McpText,
         fs' = [fs EXCEPT ![d] = With(@, name, text)]
  PROVE  DirsTame
<1>1. d \in Dir => Tame(fs[d], With(fs[d], name, text))
  BY OurFilesAre, OursTame DEF AllKept
<1>2. QED
  BY <1>1, EditTame

LEMMA DiscoveryStep ==
  ASSUME TypeOK, AllKept, InitDiscovery
  PROVE  DirsTame
<1>1. CASE UNCHANGED fs
  BY <1>1, SameTame
<1>2. ASSUME NEW fields, fs' = Put(site.staticRoot, fields) PROVE DirsTame
  <2>1. site.staticRoot \in OurFiles \ McpFiles
    BY DEF TypeOK, Layout, OurFiles, McpFiles
  <2>2. QED
    BY <1>2, <2>1, OurPut DEF Put
<1>3. QED
  BY <1>1, <1>2 DEF InitDiscovery

Credential == [source : {"none", "env-local", "claimed-key", "anon"}, key : Keys]

LEMMA CredentialTyped ==
  ASSUME NEW dir, DirSound(dir)
  PROVE  EffectiveCredential(dir) \in Credential
<1>1. CASE EnvKey(dir) \in DevKey
  BY <1>1 DEF EffectiveCredential, Credential, Keys
<1>2. CASE EnvKey(dir) \notin DevKey /\ Has(dir, "claimed-key")
  <2>1. dir["claimed-key"] \in DevKey
    BY <1>2 DEF DirSound, FileSound, Has
  <2>2. QED
    BY <1>2, <2>1 DEF EffectiveCredential, Credential, Keys
<1>3. CASE EnvKey(dir) \notin DevKey /\ ~ Has(dir, "claimed-key") /\ Has(dir, "anon_key")
  <2>1. dir["anon_key"] \in AnonKey
    BY <1>3 DEF DirSound, FileSound, Has
  <2>2. QED
    BY <1>3, <2>1 DEF EffectiveCredential, Credential, Keys
<1>4. CASE EnvKey(dir) \notin DevKey /\ ~ Has(dir, "claimed-key") /\ ~ Has(dir, "anon_key")
  <2>1. EffectiveCredential(dir) = NoCredential
    BY <1>4 DEF EffectiveCredential
  <2>2. NoCredential \in Credential
    BY DEF NoCredential, Credential, Keys
  <2>3. QED
    BY <2>1, <2>2
<1>5. QED
  BY <1>1, <1>2, <1>3, <1>4

LEMMA EntryTyped ==
  ASSUME TypeOK, NEW agent
  PROVE  GenerateMcpConfig(agent, cmd.credential.key) \in McpText
<1>1. cmd.credential.key \in DevKey \cup AnonKey \cup {""}
  BY DEF TypeOK, Command, Keys
<1>2. QED
  BY <1>1 DEF GenerateMcpConfig, McpConfig, McpText

LEMMA McpFilesAre ==
  ASSUME NEW agent \in Dispatched, agent # "windsurf"
  PROVE  McpFileOf(agent) \in OurFiles \cap McpFiles
<1>1. agent \in {"claude", "codex", "gemini", "cursor", "generic"}
  BY AgentAssumption DEF Dispatched
<1>2. QED
  BY <1>1 DEF McpFileOf, OurFiles, McpFiles

LEMMA WriteMcpTame ==
  ASSUME TypeOK, AllKept, NEW agent \in Dispatched, agent # "windsurf", NEW d, NEW pc,
         NEW caught, WriteMcpConfig(agent, d, pc, caught)
  PROVE  DirsTame
<1>1. CASE UNCHANGED fs
  BY <1>1, SameTame
<1>2. QED
  BY <1>1, McpFilesAre, EntryTyped, OurPut DEF WriteMcpConfig

LEMMA McpStepTame ==
  ASSUME TypeOK, AllKept,
         \/ InitCi
         \/ \E a \in Dispatched : InitAgent(a) \/ McpAddAgent(a)
  PROVE  DirsTame
<1>1. CASE InitCi
  BY <1>1, WriteMcpTame DEF InitCi, Dispatched
<1>2. ASSUME NEW a \in Dispatched, InitAgent(a) PROVE DirsTame
  <2>1. CASE UNCHANGED fs
    BY <2>1, SameTame
  <2>2. a # "windsurf"
    BY <1>2 DEF InitAgent
  <2>3. QED
    BY <1>2, <2>1, <2>2, WriteMcpTame DEF InitAgent, SkipAgent
<1>3. ASSUME NEW a \in Dispatched, McpAddAgent(a) PROVE DirsTame
  <2>1. a # "windsurf"
    BY <1>3 DEF McpAddAgent
  <2>2. CASE RegisterViaCli(a, McpDir(site, cmd.root, a))
    <3> DEFINE d == McpDir(site, cmd.root, a)
               name == McpFileOf(a)
               entry == GenerateMcpConfig(a, cmd.credential.key)
               text == IF Has(fs[d], name) THEN PrepareWindsurf(fs[d][name], entry) ELSE entry
    <3>1. name \in OurFiles /\ name \in McpFiles /\ entry \in McpText
      BY <2>1, McpFilesAre, EntryTyped
    <3>2. fs' = [fs EXCEPT ![d] = With(fs[d], name, text)]
      BY <2>2 DEF RegisterViaCli
    <3> HIDE DEF name, entry, d
    <3>3. CASE d \in Dir
      <4>1. Has(fs[d], name) => fs[d][name] \in McpText
        BY <3>1, <3>3 DEF AllKept, DirSound, FileSound, Has
      <4>2. text \in McpText
        BY <3>1, <4>1 DEF PrepareWindsurf, McpText
      <4> HIDE DEF text
      <4>3. QED
        BY <3>1, <3>2, <4>2, OurPut
    <3>4. CASE d \notin Dir
      <4>1. fs' = fs
        BY <3>2, <3>4 DEF TypeOK
      <4>2. QED
        BY <4>1, SameTame
    <3>5. QED
      BY <3>3, <3>4
  <2>3. QED
    BY <1>3, <2>1, <2>2, WriteMcpTame DEF McpAddAgent
<1>4. QED
  BY <1>1, <1>2, <1>3

LEMMA WindsurfTame ==
  ASSUME NEW home, DirSound(home), NEW text \in McpText,
         Has(home, "mcp_config.json") /\ home["mcp_config.json"].other => text.other
  PROVE  Tame(home, With(home, "mcp_config.json", text))
<1>1. FileSound("mcp_config.json", text) /\ "mcp_config.json" \in UserFiles
  BY DEF FileSound, InfoFiles, McpFiles, UserFiles
<1>2. TextAt(home, "mcp_config.json").other => text.other
  BY DEF TextAt, EmptyText, InfoFiles
<1>3. KeepsUserText("mcp_config.json", TextAt(home, "mcp_config.json"), text)
  BY <1>2, KeepsIs
<1>4. QED
  BY <1>1, <1>3, WithTame

LEMMA MergedTyped ==
  ASSUME TypeOK, AllKept
  PROVE  /\ WindsurfMerged \in McpText
         /\ Has(fs["home"], "mcp_config.json") /\ fs["home"]["mcp_config.json"].other =>
              WindsurfMerged.other
<1> DEFINE text == fs["home"]["mcp_config.json"]
<1>1. WindsurfEntry \in McpText
  BY EntryTyped DEF WindsurfEntry
<1>2. CASE Has(fs["home"], "mcp_config.json")
  <2>1. text \in McpText
    BY <1>2, HereIs DEF DirSound, FileSound, McpFiles, Has
  <2>2. WindsurfMerged = [text EXCEPT !.entry = WindsurfEntry.entry]
    <3>1. WindsurfFile = <<text>> /\ <<text>> # <<>> /\ <<text>>[1] = text
      BY <1>2 DEF WindsurfFile
    <3>2. QED
      BY <3>1 DEF WindsurfMerged, PrepareWindsurf
  <2> HIDE DEF text
  <2>3. WindsurfMerged \in McpText /\ WindsurfMerged.other = text.other
    BY <1>1, <2>1, <2>2 DEF McpText
  <2>4. QED
    BY <2>3 DEF text
<1>3. CASE ~ Has(fs["home"], "mcp_config.json")
  <2>1. WindsurfMerged = WindsurfEntry
    BY <1>3 DEF WindsurfMerged, WindsurfFile
  <2>2. QED
    BY <1>1, <1>3, <2>1
<1>4. QED
  BY <1>2, <1>3

LEMMA WindsurfStep ==
  ASSUME TypeOK, AllKept, WindsurfStage \/ WindsurfReplace \/ UserEditsWindsurf
  PROVE  DirsTame
<1> DEFINE home == fs["home"]
<1>0. DirSound(home)
  BY HereIs
<1>1. CASE UNCHANGED fs
  BY <1>1, SameTame
<1>2. CASE fs' = HomeWith("lock", "held")
  BY <1>2, OurPut DEF HomeWith, OurFiles, McpFiles
<1>3. ASSUME NEW new, DirSound(new), Tame(home, new), fs' = [fs EXCEPT !["home"] = Unlocked(new)]
      PROVE  DirsTame
  <2>1. Tame(new, Unlocked(new))
    BY <1>3, OursGone, OurFilesAre DEF Unlocked, OurFiles
  <2>2. Tame(home, Unlocked(new))
    BY <1>3, <2>1, TameTransitive
  <2>3. QED
    BY <1>3, <2>2, EditTame
<1>4. CASE fs' = [fs EXCEPT !["home"] = Unlocked(home)]
  BY <1>0, <1>3, <1>4, TameReflexive
<1>5. CASE fs' = [fs EXCEPT !["home"] = Unlocked(With(home, "mcp_config.json", WindsurfMerged))]
  <2> DEFINE new == With(home, "mcp_config.json", WindsurfMerged)
  <2>1. Tame(home, new)
    BY <1>0, MergedTyped, WindsurfTame
  <2>2. DirSound(new)
    BY <2>1 DEF Tame, Keeps
  <2> HIDE DEF new, home
  <2>3. fs' = [fs EXCEPT !["home"] = Unlocked(new)]
    BY <1>5 DEF new
  <2>4. QED
    BY <1>3, <2>1, <2>2, <2>3
<1>6. CASE UserEditsWindsurf
  <2> DEFINE text == [json |-> TRUE, other |-> TRUE,
                      entry |-> IF WindsurfFile = <<>> THEN "none" ELSE WindsurfFile[1].entry]
  <2>1. text \in McpText
    <3>1. CASE Has(home, "mcp_config.json")
      <4>1. home["mcp_config.json"] \in McpText
        BY <1>0, <3>1 DEF DirSound, FileSound, McpFiles, Has
      <4>2. WindsurfFile = <<home["mcp_config.json"]>>
        BY <3>1 DEF WindsurfFile
      <4>3. WindsurfFile # <<>> /\ WindsurfFile[1] \in McpText
        BY <4>1, <4>2
      <4>4. QED
        BY <4>3 DEF McpText
    <3>2. CASE ~ Has(home, "mcp_config.json")
      <4>1. WindsurfFile = <<>>
        BY <3>2 DEF WindsurfFile
      <4>2. QED
        BY <4>1 DEF McpText
    <3>3. QED
      BY <3>1, <3>2
  <2>2. text.other
    OBVIOUS
  <2>3. fs' = [fs EXCEPT !["home"] = With(home, "mcp_config.json", text)]
    BY <1>6 DEF UserEditsWindsurf, HomeWith
  <2> HIDE DEF text
  <2>4. Tame(home, With(home, "mcp_config.json", text))
    BY <1>0, <2>1, <2>2, WindsurfTame
  <2>5. QED
    BY <2>3, <2>4, EditTame
<1>7. CASE WindsurfStage
  BY <1>1, <1>2, <1>7 DEF WindsurfStage, SkipAgent
<1>8. CASE WindsurfReplace
  BY <1>4, <1>5, <1>8 DEF WindsurfReplace
<1>9. QED
  BY <1>6, <1>7, <1>8

LEMMA InjectStep ==
  ASSUME TypeOK, AllKept, NEW targets, InjectInto(targets)
  PROVE  DirsTame
<1>0. PICK written \in SUBSET targets : fs' = InjectAllTargets(fs, written)
  BY DEF InjectInto
<1>1. fs' = [d \in Dir |-> fs'[d]]
  BY <1>0 DEF InjectAllTargets
<1>2. ASSUME NEW d \in Dir PROVE Tame(fs[d], fs'[d])
  BY <1>0, InjectTame DEF AllKept
<1>3. QED
  BY <1>1, <1>2 DEF DirsTame

LEMMA CoverageStep ==
  ASSUME TypeOK, AllKept, InitCoverage
  PROVE  DirsTame
<1>1. CASE UNCHANGED fs
  BY <1>1, SameTame
<1>2. CASE fs' = Put(".env.local", WithCoverageMap(EnvLinesOf(Here)))
  <2>1. Harmless(EnvLinesOf(Here), WithCoverageMap(EnvLinesOf(Here)))
    BY HereIs, EnvLinesTyped, CoverageHarmless
  <2>2. QED
    BY <1>2, <2>1, HereIs, EnvTame, PutTame
<1>3. QED
  BY <1>1, <1>2 DEF InitCoverage, EnvLinesOf

LEMMA OtherSteps ==
  ASSUME TypeOK, AllKept,
         \/ StartInit \/ StartMcpAdd \/ StartUninit \/ UpgradeInstructions
         \/ InitVerify \/ McpAddResolve \/ AgentsDone \/ UninitExit \/ Killed
         \/ SdkReadsEnv \/ Inject \/ UpgradeAll \/ WriteMcpMarker
  PROVE  DirsTame
<1>1. CASE UNCHANGED fs
  BY <1>1, SameTame
<1>2. CASE Inject \/ UpgradeAll
  <2>1. UNCHANGED fs \/ \E targets : InjectInto(targets)
    BY <1>2 DEF Inject, UpgradeAll
  <2>2. QED
    BY <1>1, <2>1, InjectStep
<1>3. CASE WriteMcpMarker
  <2>1. UNCHANGED fs \/ fs' = Put("mcp-connected", cmd.credential)
    BY <1>3 DEF WriteMcpMarker
  <2>2. QED
    BY <1>1, <2>1, OurPut DEF Put, OurFiles, McpFiles
<1>4. QED
  BY <1>1, <1>2, <1>3 DEF StartInit, StartMcpAdd, StartUninit, UpgradeInstructions, Start,
       InitVerify, McpAddResolve, AgentsDone, UninitExit, Killed, SdkReadsEnv

-----------------------------------------------------------------------------
\* uninit

\* Nothing, or one directory changed harmlessly.
HereTame(files) == files = fs \/ \E new : files = [fs EXCEPT ![cmd.root] = new] /\ Tame(Here, new)

LEMMA HereTameStep ==
  ASSUME TypeOK, AllKept, HereTame(fs')
  PROVE  DirsTame
<1>1. CASE UNCHANGED fs
  BY <1>1, SameTame
<1>2. QED
  BY <1>1, HereIs, EditTame DEF HereTame

LEMMA CleanTame ==
  ASSUME TypeOK, AllKept, NEW files, NEW pc, Clean(files, pc),
         \/ files = fs
         \/ \E new : files = [fs EXCEPT ![cmd.root] = new] /\ Tame(Here, new)
  PROVE  DirsTame
<1>1. fs' \in {fs, files}
  BY DEF Clean, CleanInPart
<1>2. QED
  BY <1>1, HereTameStep DEF HereTame

LEMMA UninitMarkerStep ==
  ASSUME TypeOK, AllKept, UninitMarker
  PROVE  DirsTame
<1>1. CASE UNCHANGED fs
  BY <1>1, SameTame
<1>2. QED
  BY <1>1, OurPut DEF UninitMarker, Put, OurFiles, McpFiles

LEMMA UninitConfigStep ==
  ASSUME TypeOK, AllKept, UninitNextConfig
  PROVE  DirsTame
BY HereIs, UnwrappedTame, CleanTame DEF UninitNextConfig, Cleaned

LEMMA UninitInstrumentationStep ==
  ASSUME TypeOK, AllKept, UninitInstrumentation
  PROVE  DirsTame
<1> DEFINE name == "instrumentation.ts"
           text == Here[name]
           new == IF ~ Has(Here, name) THEN Here
                  ELSE IF IsInitCreatedInstrumentation(text) THEN Without(Here, {name})
                  ELSE With(Here, name, RemoveRegisterGlasstrace(text))
<1>1. DirSound(Here) /\ name \in Instrumentation /\ name \in UserFiles
  BY HereIs DEF Instrumentation, UserFiles
<1>2. Tame(Here, new)
  <2>1. CASE ~ Has(Here, name)
    BY <1>1, <2>1, TameReflexive
  <2>2. CASE Has(Here, name) /\ IsInitCreatedInstrumentation(text)
    <3>1. KeepsUserText(name, text, EmptyText(name))
      BY <1>1, <2>2, KeepsIs, PiecesKept
    <3> HIDE DEF text
    <3>2. name \notin {"anon_key", "claimed-key", ".env.local"}
      OBVIOUS
    <3>3. Tame(Here, Without(Here, {name}))
      BY <1>1, <3>1, <3>2, WithoutTame DEF text
    <3>4. QED
      BY <2>2, <3>3
  <2>3. CASE Has(Here, name) /\ ~ IsInitCreatedInstrumentation(text)
    <3>1. TextAt(Here, name) = text
      BY <2>3 DEF TextAt
    <3>2. KeepsUserText(name, text, RemoveRegisterGlasstrace(text))
      BY <1>1, KeepsIs, PiecesKept
    <3> HIDE DEF text, name
    <3>3. Tame(Here, With(Here, name, RemoveRegisterGlasstrace(text)))
      BY <1>1, <3>1, <3>2, PiecesTame
    <3>4. QED
      BY <2>3, <3>3
  <2>4. QED
    BY <2>1, <2>2, <2>3
<1>3. Clean(Cleaned(new), "directory")
  BY DEF UninitInstrumentation
<1> HIDE DEF new
<1>4. QED
  BY <1>2, <1>3, CleanTame DEF Cleaned

LEMMA UninitDiscoveryStep ==
  ASSUME TypeOK, AllKept, UninitDiscovery
  PROVE  DirsTame
<1>1. Tame(Here, Without(Here, {"public", "static"})) /\ Tame(Here, Without(Here, {"public"}))
  BY HereIs, OursGone, OurFilesAre DEF OurFiles
<1>2. QED
  BY <1>1, HereTameStep DEF UninitDiscovery, Cleaned, HereTame

LEMMA UninitGitignoreStep ==
  ASSUME TypeOK, AllKept, UninitGitignore
  PROVE  DirsTame
<1> DEFINE name == ".gitignore"
           text == Here[name]
           kept == text \ GitignoreEntries
           new == WithOrWithout(Here, name, kept, kept = {})
<1>1. DirSound(Here) /\ name \in UserFiles /\ name \in Instrumentation \cup Configs \cup {".gitignore"}
      /\ name \notin {"anon_key", "claimed-key", ".env.local"}
  BY HereIs DEF UserFiles
<1>2. KeepsUserText(name, text, kept)
  BY KeepsIs
<1>3. EmptyText(name) = {}
  BY <1>1, NothingYet
<1>4. ASSUME Has(Here, name) PROVE Tame(Here, new)
  <2>1. TextAt(Here, name) = text
    BY <1>4 DEF TextAt
  <2> HIDE DEF text, name, kept
  <2>2. CASE kept = {}
    <3>1. Tame(Here, Without(Here, {name}))
      BY <1>1, <1>2, <1>3, <2>2, WithoutTame DEF text
    <3>2. QED
      BY <2>2, <3>1 DEF WithOrWithout
  <2>3. CASE kept # {}
    <3>1. Tame(Here, With(Here, name, kept))
      BY <1>1, <1>2, <2>1, PiecesTame
    <3>2. QED
      BY <2>3, <3>1 DEF WithOrWithout
  <2>4. QED
    BY <2>2, <2>3
<1>5. Clean(IF Has(Here, name) THEN Cleaned(new) ELSE fs, "mcp")
  BY DEF UninitGitignore
<1> HIDE DEF new, name
<1>6. CASE Has(Here, name)
  BY <1>4, <1>5, <1>6, CleanTame DEF Cleaned
<1>7. CASE ~ Has(Here, name)
  BY <1>5, <1>7, CleanTame
<1>8. QED
  BY <1>6, <1>7

FilesTame(files) ==
  files = [d \in Dir |-> files[d]] /\ \A d \in Dir : Tame(fs[d], files[d])

LEMMA CleanFilesTame ==
  ASSUME TypeOK, AllKept, NEW files, NEW parts, NEW pc, CleanInPart(files, parts, pc),
         \A part \in parts \cup {files} : FilesTame(part)
  PROVE  DirsTame
BY DEF CleanInPart, DirsTame, FilesTame

LEMMA EditFilesTame ==
  ASSUME NEW files, FilesTame(files), NEW d \in Dir, NEW new, Tame(files[d], new)
  PROVE  FilesTame([files EXCEPT ![d] = new])
<1> DEFINE now == [files EXCEPT ![d] = new]
<1>1. files = [e \in Dir |-> files[e]] /\ \A e \in Dir : Tame(fs[e], files[e])
  BY DEF FilesTame
<1>2. DOMAIN files = Dir
  BY <1>1
<1>3. now = [e \in Dir |-> IF e = d THEN new ELSE files[e]]
  BY <1>2
<1> HIDE DEF now
<1>4. now = [e \in Dir |-> now[e]]
  BY <1>3
<1>5. ASSUME NEW e \in Dir PROVE Tame(fs[e], now[e])
  <2>1. CASE e = d
    <3>1. Tame(fs[d], files[d])
      BY <1>1
    <3>2. Tame(fs[d], new)
      BY <3>1, TameTransitive
    <3>3. QED
      BY <1>3, <2>1, <3>2
  <2>2. CASE e # d
    BY <1>1, <1>3, <2>2
  <2>3. QED
    BY <2>1, <2>2
<1>6. QED
  BY <1>4, <1>5 DEF FilesTame, now

LEMMA OursChanged ==
  ASSUME NEW dir, DirSound(dir), NEW new, DOMAIN new \subseteq DOMAIN dir,
         \A n \in DOMAIN dir \ OurFiles : n \in DOMAIN new /\ new[n] = dir[n],
         \A n \in DOMAIN new \cap McpFiles : new[n] \in McpText
  PROVE  Tame(dir, new)
<1>1. ASSUME NEW n \in DOMAIN new PROVE FileSound(n, new[n])
  BY OurFilesAre DEF DirSound
<1>2. ASSUME NEW n \in UserFiles
      PROVE  KeepsUserText(n, TextAt(dir, n), TextAt(new, n))
  <2>1. n \notin OurFiles
    BY OurFilesAre
  <2>2. TextAt(new, n) = TextAt(dir, n)
    BY <2>1 DEF TextAt, Has
  <2>3. QED
    BY <2>2, KeepsReflexive
<1>3. KeysKept(dir, new)
  BY OurFilesAre DEF KeysKept, Has
<1>4. EnvKey(new) = EnvKey(dir)
  <2>1. ".env.local" \notin OurFiles
    BY OurFilesAre
  <2>2. QED
    BY <2>1 DEF EnvKey, Has
<1>5. QED
  BY <1>1, <1>2, <1>3, <1>4 DEF Tame, Keeps, DirSound, KeepsAll

\* The agents' configurations that uninit looks for.
AgentConfigs == {".mcp.json", ".cursor/mcp.json", ".gemini/settings.json", ".codex/config.toml"}

LEMMA McpOrderIs ==
  /\ Len(McpOrder) = 4
  /\ \A k \in 0 .. 4 : FirstFiles(McpOrder, k) \subseteq AgentConfigs
  /\ FirstFiles(McpOrder, 4) = AgentConfigs
<1>1. /\ Len(McpOrder) = 4
      /\ McpOrder[1] = ".mcp.json" /\ McpOrder[2] = ".cursor/mcp.json"
      /\ McpOrder[3] = ".gemini/settings.json" /\ McpOrder[4] = ".codex/config.toml"
  BY DEF McpOrder
<1>2. \A i \in 1 .. 4 : i = 1 \/ i = 2 \/ i = 3 \/ i = 4
  OBVIOUS
<1>3. \A i \in 1 .. 4 : McpOrder[i] \in AgentConfigs
  BY <1>1, <1>2 DEF AgentConfigs
<1>4. ASSUME NEW k \in 0 .. 4 PROVE FirstFiles(McpOrder, k) \subseteq AgentConfigs
  BY <1>3 DEF FirstFiles
<1>5. 1 \in 1 .. 4 /\ 2 \in 1 .. 4 /\ 3 \in 1 .. 4 /\ 4 \in 1 .. 4
  OBVIOUS
<1>6. AgentConfigs \subseteq FirstFiles(McpOrder, 4)
  BY <1>1, <1>5 DEF FirstFiles, AgentConfigs
<1>7. QED
  BY <1>1, <1>4, <1>6

LEMMA InfoOrderIs ==
  /\ Len(InfoOrder) = 8
  /\ \A k \in 0 .. 8 : FirstFiles(InfoOrder, k) \subseteq InfoFiles
  /\ FirstFiles(InfoOrder, 8) = InfoFiles
<1>1. /\ Len(InfoOrder) = 8
      /\ InfoOrder[1] = "AGENTS.md" /\ InfoOrder[2] = "CLAUDE.md" /\ InfoOrder[3] = "GEMINI.md"
      /\ InfoOrder[4] = "glasstrace.mdc" /\ InfoOrder[5] = "glasstrace.md"
      /\ InfoOrder[6] = ".cursorrules" /\ InfoOrder[7] = "codex.md"
      /\ InfoOrder[8] = ".windsurfrules"
  BY DEF InfoOrder
<1>2. \A i \in 1 .. 8 :
        i = 1 \/ i = 2 \/ i = 3 \/ i = 4 \/ i = 5 \/ i = 6 \/ i = 7 \/ i = 8
  OBVIOUS
<1>3. \A i \in 1 .. 8 : InfoOrder[i] \in InfoFiles
  BY <1>1, <1>2 DEF InfoFiles
<1>4. ASSUME NEW k \in 0 .. 8 PROVE FirstFiles(InfoOrder, k) \subseteq InfoFiles
  BY <1>3 DEF FirstFiles
<1>5. /\ 1 \in 1 .. 8 /\ 2 \in 1 .. 8 /\ 3 \in 1 .. 8 /\ 4 \in 1 .. 8
      /\ 5 \in 1 .. 8 /\ 6 \in 1 .. 8 /\ 7 \in 1 .. 8 /\ 8 \in 1 .. 8
  OBVIOUS
<1>6. InfoFiles \subseteq FirstFiles(InfoOrder, 8)
  BY <1>1, <1>5 DEF FirstFiles, InfoFiles
<1>7. QED
  BY <1>1, <1>4, <1>6

\* What is left of a directory without our entries in some of its files.
LEMMA EntriesLeft ==
  ASSUME NEW dir, NEW names
  PROVE  LET new == WithoutMcpEntries(dir, names)
             having == {n \in names : Has(dir, n) /\ HasEntry(dir[n])}
         IN /\ DOMAIN new = DOMAIN dir \ {n \in having : ~ dir[n].other}
            /\ \A n \in DOMAIN new :
                 new[n] = IF n \in having THEN WithoutEntry(dir[n]) ELSE dir[n]
<1> DEFINE having == {n \in names \cap DOMAIN dir : HasEntry(dir[n])}
           cut == [n \in DOMAIN dir |-> IF n \in having THEN WithoutEntry(dir[n]) ELSE dir[n]]
           gone == {n \in having : ~ dir[n].other}
           new == WithoutMcpEntries(dir, names)
<1>1. new = Without(cut, gone)
  BY DEF WithoutMcpEntries
<1>2. having = {n \in names : Has(dir, n) /\ HasEntry(dir[n])}
  BY DEF Has
<1>3. /\ DOMAIN cut = DOMAIN dir
      /\ \A n \in DOMAIN dir : cut[n] = IF n \in having THEN WithoutEntry(dir[n]) ELSE dir[n]
  OBVIOUS
<1> HIDE DEF cut, gone, new, having
<1>4. DOMAIN new = DOMAIN cut \ gone /\ \A n \in DOMAIN cut \ gone : new[n] = cut[n]
  BY <1>1, WithoutIs
<1>5. /\ DOMAIN new = DOMAIN dir \ gone
      /\ \A n \in DOMAIN new : new[n] = IF n \in having THEN WithoutEntry(dir[n]) ELSE dir[n]
  BY <1>3, <1>4
<1>6. QED
  BY <1>2, <1>5 DEF new, gone

\* ... and without our sections in some of its files.
LEMMA SectionsLeft ==
  ASSUME NEW dir, NEW names
  PROVE  LET new == WithoutSections(dir, names)
             marked == {n \in names : Has(dir, n) /\ HasManagedSection(dir[n])}
         IN /\ DOMAIN new = DOMAIN dir \ {n \in marked : RemoveMarkerSection(dir[n]) = <<>>}
            /\ \A n \in DOMAIN new :
                 new[n] = IF n \in marked THEN RemoveMarkerSection(dir[n]) ELSE dir[n]
<1> DEFINE marked == {n \in names \cap DOMAIN dir : HasManagedSection(dir[n])}
           cut == [n \in DOMAIN dir |-> IF n \in marked THEN RemoveMarkerSection(dir[n]) ELSE dir[n]]
           gone == {n \in marked : RemoveMarkerSection(dir[n]) = <<>>}
           new == WithoutSections(dir, names)
<1>1. new = Without(cut, gone)
  BY DEF WithoutSections
<1>2. marked = {n \in names : Has(dir, n) /\ HasManagedSection(dir[n])}
  BY DEF Has
<1>3. /\ DOMAIN cut = DOMAIN dir
      /\ \A n \in DOMAIN dir : cut[n] = IF n \in marked THEN RemoveMarkerSection(dir[n]) ELSE dir[n]
  OBVIOUS
<1> HIDE DEF cut, gone, new, marked
<1>4. DOMAIN new = DOMAIN cut \ gone /\ \A n \in DOMAIN cut \ gone : new[n] = cut[n]
  BY <1>1, WithoutIs
<1>5. /\ DOMAIN new = DOMAIN dir \ gone
      /\ \A n \in DOMAIN new : new[n] = IF n \in marked THEN RemoveMarkerSection(dir[n]) ELSE dir[n]
  BY <1>3, <1>4
<1>6. QED
  BY <1>2, <1>5 DEF new, gone

LEMMA AgentEntriesTame ==
  ASSUME NEW dir, DirSound(dir), NEW names \in SUBSET AgentConfigs
  PROVE  Tame(dir, WithoutMcpEntries(dir, names))
<1> DEFINE new == WithoutMcpEntries(dir, names)
           having == {n \in names : Has(dir, n) /\ HasEntry(dir[n])}
<1>1. /\ DOMAIN new = DOMAIN dir \ {n \in having : ~ dir[n].other}
      /\ \A n \in DOMAIN new : new[n] = IF n \in having THEN WithoutEntry(dir[n]) ELSE dir[n]
  BY EntriesLeft
<1>2. having \subseteq OurFiles
  BY DEF OurFiles, AgentConfigs
<1>3. \A n \in DOMAIN dir \cap McpFiles : dir[n] \in McpText
  BY DEF DirSound, FileSound
<1>4. \A text \in McpText : WithoutEntry(text) \in McpText
  BY DEF WithoutEntry, McpText
<1> HIDE DEF new, having
<1>5. QED
  BY <1>1, <1>2, <1>3, <1>4, OursChanged DEF new

LEMMA WithoutEntryTame ==
  ASSUME NEW home, DirSound(home)
  PROVE  Tame(home, WithoutMcpEntries(home, {"mcp_config.json"}))
<1> DEFINE name == "mcp_config.json"
           text == home[name]
           new == WithoutMcpEntries(home, {name})
           having == {n \in {name} : Has(home, n) /\ HasEntry(home[n])}
<1>1. /\ DOMAIN new = DOMAIN home \ {n \in having : ~ home[n].other}
      /\ \A n \in DOMAIN new : new[n] = IF n \in having THEN WithoutEntry(home[n]) ELSE home[n]
  BY EntriesLeft
<1>2. \A n \in having : n = name /\ Has(home, name)
  OBVIOUS
<1>3. \A n : n # name => (n \in DOMAIN new <=> n \in DOMAIN home)
               /\ (n \in DOMAIN home => new[n] = home[n])
  BY <1>1, <1>2
<1>4. Has(home, name) => text \in McpText
  BY DEF DirSound, FileSound, McpFiles, Has
<1>5. text \in McpText => WithoutEntry(text) \in McpText /\ WithoutEntry(text).other = text.other
  BY DEF WithoutEntry, McpText
<1>6. Has(new, name) => /\ Has(home, name) /\ new[name] \in McpText
                        /\ new[name].other = text.other
  BY <1>1, <1>2, <1>4, <1>5 DEF Has
<1>7. Has(home, name) /\ text.other => Has(new, name)
  BY <1>1, <1>2 DEF Has
<1>8. /\ name \in UserFiles /\ name \notin {"anon_key", "claimed-key", ".env.local"}
      /\ EmptyText(name).other = FALSE
  BY NothingYet DEF UserFiles
<1>9. \A text2 \in McpText : FileSound(name, text2)
  BY DEF FileSound, InfoFiles, McpFiles
<1> HIDE DEF new, having, name, text
<1>10. ASSUME NEW n \in DOMAIN new PROVE FileSound(n, new[n])
  <2>1. CASE n = name
    BY <1>6, <1>9, <1>10, <2>1 DEF Has
  <2>2. CASE n # name
    BY <1>3, <1>10, <2>2 DEF DirSound
  <2>3. QED
    BY <2>1, <2>2
<1>11. ASSUME NEW n \in UserFiles PROVE KeepsUserText(n, TextAt(home, n), TextAt(new, n))
  <2>1. CASE n = name
    <3>1. TextAt(home, name).other => TextAt(new, name).other
      BY <1>6, <1>7, <1>8 DEF TextAt, text
    <3>2. QED
      BY <2>1, <3>1, KeepsIs DEF name
  <2>2. CASE n # name
    <3>1. TextAt(new, n) = TextAt(home, n)
      BY <1>3, <2>2 DEF TextAt, Has
    <3>2. QED
      BY <3>1, KeepsReflexive
  <2>3. QED
    BY <2>1, <2>2
<1>12. KeysKept(home, new)
  BY <1>3, <1>8 DEF KeysKept, Has
<1>13. EnvKey(new) = EnvKey(home)
  BY <1>3, <1>8 DEF EnvKey, Has
<1>14. QED
  BY <1>10, <1>11, <1>12, <1>13 DEF Tame, Keeps, DirSound, KeepsAll, new, name

LEMMA UninitMcpStep ==
  ASSUME TypeOK, AllKept, UninitMcp
  PROVE  DirsTame
<1> DEFINE left(k) == Cleaned(WithoutMcpEntries(Here, FirstFiles(McpOrder, k)))
           all == left(Len(McpOrder))
           both == [all EXCEPT !["home"] = WithoutMcpEntries(@, {"mcp_config.json"})]
           parts == {left(k) : k \in 0 .. Len(McpOrder)}
<1>1. CleanInPart(both, parts, "info") \/ CleanInPart(all, parts, "info")
  BY DEF UninitMcp
<1>2. FilesTame(fs)
  BY SameTame, TameReflexive DEF TypeOK, AllKept, FilesTame
<1>3. ASSUME NEW k \in 0 .. 4 PROVE FilesTame(left(k))
  <2>1. Tame(Here, WithoutMcpEntries(Here, FirstFiles(McpOrder, k)))
    BY HereIs, McpOrderIs, AgentEntriesTame
  <2>2. QED
    BY <1>2, <2>1, HereIs, EditFilesTame DEF Cleaned
<1>4. FilesTame(all) /\ \A part \in parts : FilesTame(part)
  BY <1>3, McpOrderIs
<1> HIDE DEF all, parts
<1>5. DirSound(all["home"])
  BY <1>4, HereIs DEF FilesTame, Tame, Keeps
<1>6. FilesTame(both)
  BY <1>4, <1>5, HereIs, WithoutEntryTame, EditFilesTame
<1> HIDE DEF both
<1>7. QED
  BY <1>1, <1>4, <1>6, CleanFilesTame

LEMMA WithoutSectionsTame ==
  ASSUME NEW dir, DirSound(dir), NEW names \in SUBSET InfoFiles
  PROVE  Tame(dir, WithoutSections(dir, names))
<1> DEFINE marked == {n \in names : Has(dir, n) /\ HasManagedSection(dir[n])}
           gone == {n \in marked : RemoveMarkerSection(dir[n]) = <<>>}
           cut == [n \in DOMAIN dir |-> IF n \in marked THEN RemoveMarkerSection(dir[n]) ELSE dir[n]]
           new == WithoutSections(dir, names)
<1>1. new = Without(cut, gone)
  BY DEF WithoutSections, Has
<1>2. marked \in SUBSET InfoFiles /\ marked \subseteq DOMAIN dir
  BY DEF Has
<1>3. /\ DOMAIN cut = DOMAIN dir \cup marked
      /\ \A n \in DOMAIN dir \ marked : cut[n] = dir[n]
      /\ \A n \in marked : cut[n] = RemoveMarkerSection(dir[n])
  BY <1>2
<1>4. ASSUME NEW n \in marked PROVE InfoSound(TextAt(dir, n), cut[n])
  <2>1. dir[n] \in Seq(InfoLine) /\ SectionsWhole(dir[n]) /\ TextAt(dir, n) = dir[n]
    BY <1>2, <1>4 DEF DirSound, FileSound, TextAt, Has
  <2>2. HasManagedSection(dir[n])
    BY <1>4
  <2> HIDE DEF cut
  <2>3. QED
    BY <1>3, <1>4, <2>1, <2>2, RemovedSound
<1>5. gone \subseteq marked /\ \A n \in gone : cut[n] = <<>>
  BY <1>3
<1> HIDE DEF cut, gone, marked, new
<1>6. Tame(dir, cut)
  BY <1>2, <1>3, <1>4, InfoTame
<1>7. Tame(cut, Without(cut, gone))
  <2>1. DirSound(cut)
    BY <1>6 DEF Tame, Keeps
  <2>2. ASSUME NEW n \in gone PROVE KeepsUserText(n, cut[n], EmptyText(n))
    <3>1. n \in InfoFiles /\ n \in UserFiles /\ cut[n] = <<>>
      BY <1>2, <1>5 DEF UserFiles
    <3>2. EmptyText(n) = <<>>
      BY <3>1, NothingYet
    <3>3. QED
      BY <3>1, <3>2, KeepsReflexive
  <2>3. gone \cap {"anon_key", "claimed-key", ".env.local"} = {}
    BY <1>2, <1>5 DEF InfoFiles
  <2>4. QED
    BY <2>1, <2>2, <2>3, WithoutTame
<1>8. Tame(dir, Without(cut, gone))
  BY <1>6, <1>7, TameTransitive
<1>9. QED
  BY <1>8, <1>1 DEF new

LEMMA UninitInfoStep ==
  ASSUME TypeOK, AllKept, UninitInfo
  PROVE  DirsTame
<1> DEFINE left(k) == Cleaned(WithoutSections(Here, FirstFiles(InfoOrder, k)))
<1>1. CleanInPart(left(Len(InfoOrder)), {left(k) : k \in 0 .. Len(InfoOrder) - 1}, "exit")
  BY DEF UninitInfo
<1>2. \E k \in 0 .. 8 : fs' = left(k)
  BY <1>1, InfoOrderIs DEF CleanInPart
<1>3. ASSUME NEW k \in 0 .. 8 PROVE Tame(Here, WithoutSections(Here, FirstFiles(InfoOrder, k)))
  BY HereIs, InfoOrderIs, WithoutSectionsTame
<1>4. QED
  BY <1>2, <1>3, HereTameStep DEF Cleaned, HereTame

-----------------------------------------------------------------------------
\* The SDK

LEMMA SdkTame ==
  ASSUME TypeOK, AllKept, SdkStarts \/ SdkSeesMarker \/ SdkRefreshes
  PROVE  DirsTame
<1>1. CASE UNCHANGED fs
  BY <1>1, SameTame
<1>2. ASSUME NEW key \in AnonKey, fs' = AppWith("anon_key", key) PROVE DirsTame
  <2>1. "anon_key" \notin UserFiles /\ FileSound("anon_key", key)
    BY DEF UserFiles, FileSound, Instrumentation, Configs, InfoFiles, McpFiles
  <2>2. Tame(App, With(App, "anon_key", key))
    BY <2>1, HereIs, OursTame
  <2>3. QED
    BY <1>2, <2>2, EditTame, HereIs DEF AppWith
<1>3. CASE SdkSeesMarker
  <2>1. Tame(App, Without(App, {"shutdown-requested"}))
    BY HereIs, OursGone, OurFilesAre DEF OurFiles
  <2>2. QED
    BY <1>3, <2>1, EditTame, HereIs DEF SdkSeesMarker
<1>4. CASE SdkRefreshes
  <2> DEFINE credential == EffectiveCredential(App)
             one == With(App, "mcp.json", McpConfig(credential.key))
             two == With(one, "mcp-connected", credential)
  <2>1. fs' = fs \/ fs' = [fs EXCEPT !["app"] = two]
    BY <1>4, HereIs DEF SdkRefreshes
  <2>0. McpConfig(credential.key) \in McpText
    <3>1. credential \in Credential
      BY HereIs, CredentialTyped
    <3> HIDE DEF credential
    <3>2. QED
      BY <3>1 DEF McpConfig, McpText, Credential, Keys
  <2> HIDE DEF credential
  <2>2. Tame(App, one)
    BY <2>0, HereIs, OursTame, OurFilesAre DEF OurFiles
  <2>3. DirSound(one)
    BY <2>2 DEF Tame, Keeps
  <2> HIDE DEF one
  <2>4. Tame(one, two)
    BY <2>3, OursTame, OurFilesAre DEF OurFiles, McpFiles
  <2>5. Tame(App, two)
    BY <2>2, <2>4, TameTransitive
  <2> HIDE DEF two
  <2>6. QED
    BY <1>1, <2>1, <2>5, HereIs, EditTame
<1>5. QED
  BY <1>1, <1>2, <1>3, <1>4 DEF SdkStarts

-----------------------------------------------------------------------------
\* Every step but five is of this kind.

RollsBack ==
  /\ cmd.name = "init" /\ cmd.pc \in {"instrumentation", "next-config", "env-local", "gitignore"}
  /\ FailAndRollBack

LEMMA StepsAreTame ==
  ASSUME TypeOK, AllKept, Next
  PROVE  \/ DirsTame \/ RollsBack \/ UninitDirectory
         \/ UninitEnvLocal \/ UninitConfirmed \/ SdkWritesKey
<1>1. CASE InitStep
  <2>1. CASE InitInstrumentation \/ InitNextConfig \/ InitEnvLocal \/ InitGitignore
    <3>1. DirsTame \/ FailAndRollBack
      BY <2>1, InstrumentationStep, ConfigStep, EnvLocalStep, GitignoreStep
    <3>2. cmd.name = "init" /\ cmd.pc \in {"instrumentation", "next-config", "env-local", "gitignore"}
      BY <2>1 DEF InitInstrumentation, InitNextConfig, InitEnvLocal, InitGitignore, At
    <3>3. QED
      BY <3>1, <3>2 DEF RollsBack
  <2>2. QED
    BY <1>1, <2>1, OtherSteps, KeyStep, DiscoveryStep, McpStepTame, CoverageStep
       DEF InitStep, Dispatched
<1>2. CASE McpStep
  BY <1>2, OtherSteps, McpStepTame, WindsurfStep, UpdateGitignoreStep DEF McpStep, Dispatched
<1>3. CASE UninitStep
  BY <1>3, OtherSteps, UninitMarkerStep, UninitConfigStep, UninitInstrumentationStep,
     UninitDiscoveryStep, UninitGitignoreStep, UninitMcpStep, UninitInfoStep DEF UninitStep
<1>4. CASE SdkStep
  BY <1>4, OtherSteps, SdkTame DEF SdkStep
<1>5. QED
  BY <1>1, <1>2, <1>3, <1>4, OtherSteps, WindsurfStep DEF Next

-----------------------------------------------------------------------------
\* What the user wrote is kept by all of them

Held(d, was, now) == Keeps(original[d], now) /\ EnvKey(now) \in {EnvKey(was), ""}

DirsHeld ==
  fs' = [d \in Dir |-> fs'[d]] /\ \A d \in Dir : Held(d, fs[d], fs'[d])

LEMMA TameHeld ==
  ASSUME AllKept, NEW d \in Dir, NEW now, Tame(fs[d], now)
  PROVE  Held(d, fs[d], now)
BY AllTransitive DEF AllKept, Tame, Keeps, Held

LEMMA DirsTameHeld ==
  ASSUME AllKept, DirsTame
  PROVE  DirsHeld
BY TameHeld DEF DirsTame, DirsHeld

LEMMA EditedIs ==
  ASSUME TypeOK, NEW d \in Dir, NEW new, fs' = [fs EXCEPT ![d] = new]
  PROVE  /\ fs' = [e \in Dir |-> fs'[e]] /\ fs'[d] = new
         /\ \A e \in Dir : e # d => fs'[e] = fs[e]
<1>1. fs = [e \in Dir |-> fs[e]]
  BY DEF TypeOK
<1>2. DOMAIN fs = Dir
  BY <1>1
<1>3. fs' = [e \in Dir |-> IF e = d THEN new ELSE fs[e]]
  BY <1>2
<1>4. QED
  BY <1>3

LEMMA EditHeld ==
  ASSUME TypeOK, AllKept, NEW d \in Dir, NEW new, fs' = [fs EXCEPT ![d] = new],
         Held(d, fs[d], new)
  PROVE  DirsHeld
<1>1. /\ fs' = [e \in Dir |-> fs'[e]] /\ fs'[d] = new
      /\ \A e \in Dir : e # d => fs'[e] = fs[e]
  BY EditedIs
<1>2. ASSUME NEW e \in Dir, e # d PROVE Held(e, fs[e], fs'[e])
  BY <1>1, <1>2, TameReflexive, TameHeld DEF AllKept
<1>3. QED
  BY <1>1, <1>2 DEF DirsHeld

\* A directory without some files, .env.local not among them.
LEMMA DirectoryStep ==
  ASSUME TypeOK, AllKept, UninitDirectory
  PROVE  DirsHeld /\ \A d \in Dir : EnvKey(fs'[d]) = EnvKey(fs[d])
<1> DEFINE new == Without(Here, GlasstraceFiles)
<1>1. GlasstraceFiles \cap UserFiles = {} /\ ".env.local" \notin GlasstraceFiles
  BY DEF GlasstraceFiles, UserFiles, Instrumentation, Configs, InfoFiles
<1>2. Keeps(Here, new)
  BY <1>1, HereIs, WithoutKeeps DEF Keeps
<1>3. EnvKey(new) = EnvKey(Here)
  <2>1. /\ DOMAIN new = DOMAIN Here \ GlasstraceFiles
        /\ \A n \in DOMAIN Here \ GlasstraceFiles : new[n] = Here[n]
    BY WithoutIs
  <2> HIDE DEF new
  <2>2. QED
    BY <1>1, <2>1 DEF EnvKey, Has
<1>4. Held(cmd.root, fs[cmd.root], new)
  BY <1>2, <1>3, HereIs, AllTransitive DEF Held, Keeps, AllKept
<1>5. CASE UNCHANGED fs
  BY <1>5, SameTame, DirsTameHeld
<1> HIDE DEF new
<1>6. CASE fs' = Cleaned(new)
  <2>1. cmd.root \in Dir /\ Here = fs[cmd.root]
    BY HereIs
  <2>2. fs'[cmd.root] = new /\ \A d \in Dir : d # cmd.root => fs'[d] = fs[d]
    BY <1>6, <2>1, EditedIs DEF Cleaned
  <2>3. DirsHeld
    BY <1>4, <1>6, <2>1, EditHeld DEF Cleaned
  <2>4. QED
    BY <1>3, <2>1, <2>2, <2>3
<1>7. QED
  BY <1>5, <1>6 DEF UninitDirectory, Clean, CleanInPart, new

\* A text that keeps what was there at first, whatever is there now.
LEMMA WithKeepsFrom ==
  ASSUME NEW was, NEW dir, NEW name, NEW text, Keeps(was, dir), FileSound(name, text),
         name \in UserFiles => KeepsUserText(name, TextAt(was, name), text)
  PROVE  Keeps(was, With(dir, name, text))
<1> DEFINE new == With(dir, name, text)
<1>1. /\ DOMAIN new = DOMAIN dir \cup {name} /\ new[name] = text
      /\ \A n \in DOMAIN dir : n # name => new[n] = dir[n]
  BY DEF With
<1> HIDE DEF new
<1>2. DirSound(new)
  BY <1>1 DEF Keeps, DirSound
<1>3. ASSUME NEW n \in UserFiles
      PROVE  KeepsUserText(n, TextAt(was, n), TextAt(new, n))
  <2>1. CASE n = name
    BY <1>1, <2>1 DEF TextAt, Has
  <2>2. CASE n # name
    <3>1. TextAt(new, n) = TextAt(dir, n)
      BY <1>1, <2>2 DEF TextAt, Has
    <3>2. QED
      BY <3>1 DEF Keeps, KeepsAll
  <2>3. QED
    BY <2>1, <2>2
<1>4. QED
  BY <1>2, <1>3 DEF Keeps, KeepsAll, new

LEMMA WithoutKeepsFrom ==
  ASSUME NEW was, NEW dir, NEW name, Keeps(was, dir),
         name \in UserFiles => KeepsUserText(name, TextAt(was, name), EmptyText(name))
  PROVE  Keeps(was, Without(dir, {name}))
<1> DEFINE new == Without(dir, {name})
<1>1. /\ DOMAIN new = DOMAIN dir \ {name}
      /\ \A n \in DOMAIN dir \ {name} : new[n] = dir[n]
  BY WithoutIs
<1> HIDE DEF new
<1>2. DirSound(new)
  BY <1>1 DEF Keeps, DirSound
<1>3. ASSUME NEW n \in UserFiles
      PROVE  KeepsUserText(n, TextAt(was, n), TextAt(new, n))
  <2>1. CASE n = name
    BY <1>1, <2>1 DEF TextAt, Has
  <2>2. CASE n # name
    <3>1. TextAt(new, n) = TextAt(dir, n)
      BY <1>1, <2>2 DEF TextAt, Has
    <3>2. QED
      BY <3>1 DEF Keeps, KeepsAll
  <2>3. QED
    BY <2>1, <2>2
<1>4. QED
  BY <1>2, <1>3 DEF Keeps, KeepsAll, new

\* .env.local with the lines of some kinds of a text with the user's lines, or
\* gone when there are none.
LEMMA EnvReplaced ==
  ASSUME NEW was, NEW dir, Keeps(was, dir), NEW env \in Seq(EnvLine),
         UserLines(env) = UserLines(TextAt(was, ".env.local")), NEW names, "user" \in names,
         "key" \notin names, NEW new,
         LET kept == LinesNamed(env, names)
         IN  new = IF kept = <<>> THEN Without(dir, {".env.local"})
                                  ELSE With(dir, ".env.local", kept)
  PROVE  Keeps(was, new) /\ KeysKept(dir, new) /\ EnvKey(new) = ""
<1> DEFINE name == ".env.local"
           kept == LinesNamed(env, names)
<1>1. name \in UserFiles /\ name \notin {"anon_key", "claimed-key"}
  BY DEF UserFiles
<1>2. /\ kept \in Seq(EnvLine) /\ UserLines(kept) = UserLines(env)
      /\ ReadEnvLocalApiKey(kept) = ""
  BY FilterKeeps, FilteredOut
<1>3. /\ kept = <<>> => new = Without(dir, {name})
      /\ kept # <<>> => new = With(dir, name, kept)
  OBVIOUS
<1> HIDE DEF kept
<1>4. KeepsUserText(name, TextAt(was, name), kept)
  <2>1. UserLines(kept) = UserLines(TextAt(was, name))
    BY <1>2
  <2>2. QED
    BY <2>1, KeepsIs
<1>5. EmptyText(name) = <<>>
  BY <1>1, NothingYet
<1>6. CASE kept = <<>>
  <2>1. Keeps(was, new)
    BY <1>4, <1>5, <1>6, <1>3, WithoutKeepsFrom
  <2>2. DOMAIN new = DOMAIN dir \ {name}
    BY <1>6, <1>3, WithoutIs
  <2>3. KeysKept(dir, new) /\ EnvKey(new) = ""
    BY <2>2 DEF KeysKept, EnvKey, Has
  <2>4. QED
    BY <2>1, <2>3
<1>7. CASE kept # <<>>
  <2>1. FileSound(name, kept)
    BY <1>2 DEF FileSound, InfoFiles, McpFiles
  <2>2. Keeps(was, new)
    BY <1>4, <1>7, <1>3, <2>1, WithKeepsFrom
  <2>3. /\ DOMAIN new = DOMAIN dir \cup {name} /\ new[name] = kept
    BY <1>7, <1>3 DEF With
  <2>4. KeysKept(dir, new) /\ EnvKey(new) = ""
    BY <1>2, <2>3 DEF KeysKept, EnvKey, Has
  <2>5. QED
    BY <2>2, <2>4
<1>8. QED
  BY <1>6, <1>7

\* .env.local with lines of some kinds only, or gone with its last line.
LEMMA FilteredEnv ==
  ASSUME NEW dir, DirSound(dir), Has(dir, ".env.local"), NEW names, "user" \in names,
         "key" \notin names, NEW kept, kept = LinesNamed(dir[".env.local"], names)
  PROVE  LET new == WithOrWithout(dir, ".env.local", kept, kept = <<>>)
         IN Keeps(dir, new) /\ KeysKept(dir, new) /\ EnvKey(new) = ""
<1>1. dir[".env.local"] \in Seq(EnvLine)
  BY DEF DirSound, FileSound, Has
<1>2. TextAt(dir, ".env.local") = dir[".env.local"]
  BY DEF TextAt
<1>3. Keeps(dir, dir)
  BY KeepsReflexive DEF Keeps, KeepsAll
<1> DEFINE new == WithOrWithout(dir, ".env.local", kept, kept = <<>>)
<1>4. new = IF LinesNamed(dir[".env.local"], names) = <<>> THEN Without(dir, {".env.local"})
            ELSE With(dir, ".env.local", LinesNamed(dir[".env.local"], names))
  BY DEF WithOrWithout
<1> HIDE DEF new
<1>5. UserLines(dir[".env.local"]) = UserLines(TextAt(dir, ".env.local"))
  BY <1>2
<1>6. Keeps(dir, new) /\ KeysKept(dir, new) /\ EnvKey(new) = ""
  BY <1>1, <1>3, <1>4, <1>5, EnvReplaced
<1>7. QED
  BY <1>6 DEF new

LEMMA EnvCleanStep ==
  ASSUME TypeOK, AllKept, Asked, UninitEnvLocal \/ UninitConfirmed
  PROVE  DirsHeld /\ \A d \in Dir : KeysKept(fs[d], fs'[d])
<1> DEFINE name == ".env.local"
<1>1. CASE UNCHANGED fs
  BY <1>1, SameTame, DirsTameHeld DEF DirsTame, Tame
<1>2. ASSUME NEW env \in Seq(EnvLine), fs' = EnvWithUserLines(env),
             UserLines(env) = UserLines(TextAt(original[cmd.root], name))
      PROVE  DirsHeld /\ \A d \in Dir : KeysKept(fs[d], fs'[d])
  <2> DEFINE kept == LinesNamed(env, {"user"})
             new == WithOrWithout(Here, name, kept, kept = <<>>)
  <2>1. fs' = [fs EXCEPT ![cmd.root] = new]
    BY <1>2 DEF EnvWithUserLines, WithoutGlasstraceLines, Cleaned
  <2> HIDE DEF kept
  <2>2. Keeps(original[cmd.root], Here)
    BY HereIs DEF AllKept, Keeps
  <2>3. new = IF LinesNamed(env, {"user"}) = <<>> THEN Without(Here, {".env.local"})
              ELSE With(Here, ".env.local", LinesNamed(env, {"user"}))
    BY DEF WithOrWithout, kept
  <2>4. "user" \in {"user"} /\ "key" \notin {"user"}
    OBVIOUS
  <2> HIDE DEF new
  <2>5. Keeps(original[cmd.root], new) /\ KeysKept(Here, new) /\ EnvKey(new) = ""
    BY <1>2, <2>2, <2>3, <2>4, EnvReplaced
  <2> HIDE DEF new
  <2>6. Held(cmd.root, fs[cmd.root], new)
    BY <2>5, HereIs DEF Held
  <2>7. DirsHeld
    BY <2>1, <2>6, HereIs, EditHeld
  <2>8. /\ fs'[cmd.root] = new
        /\ \A e \in Dir : e # cmd.root => fs'[e] = fs[e]
    BY <2>1, HereIs, EditedIs
  <2>9. ASSUME NEW d \in Dir PROVE KeysKept(fs[d], fs'[d])
    <3>1. CASE d = cmd.root
      BY <2>5, <2>8, <3>1, HereIs
    <3>2. CASE d # cmd.root
      BY <2>8, <3>2 DEF KeysKept
    <3>3. QED
      BY <3>1, <3>2
  <2>10. QED
    BY <2>7, <2>9
<1>3. CASE UninitEnvLocal
  <2>1. UNCHANGED fs \/ (Has(Here, name) /\ fs' = EnvWithUserLines(Here[name]))
    BY <1>3 DEF UninitEnvLocal, Clean, CleanInPart, SkipTo
  <2>2. CASE Has(Here, name) /\ fs' = EnvWithUserLines(Here[name])
    <3>1. Here[name] \in Seq(EnvLine)
      BY <2>2, HereIs DEF DirSound, FileSound, Has
    <3>2. KeepsUserText(name, TextAt(original[cmd.root], name), TextAt(Here, name))
      BY HereIs DEF AllKept, KeepsAll, UserFiles
    <3>3. UserLines(Here[name]) = UserLines(TextAt(original[cmd.root], name))
      BY <2>2, <3>2, KeepsIs DEF TextAt
    <3>4. QED
      BY <1>2, <2>2, <3>1, <3>3
  <2>3. QED
    BY <1>1, <2>1, <2>2
<1>4. CASE UninitConfirmed
  <2>1. UNCHANGED fs \/ fs' = EnvWithUserLines(cmd.env)
    BY <1>4 DEF UninitConfirmed
  <2>2. /\ cmd.env \in Seq(EnvLine)
        /\ UserLines(cmd.env) = UserLines(TextAt(original[cmd.root], name))
    BY <1>4 DEF UninitConfirmed, At, Asked, TypeOK, Command
  <2>3. QED
    BY <1>1, <1>2, <2>1, <2>2
<1>5. QED
  BY <1>3, <1>4

KeptFiles(files) ==
  files = [d \in Dir |-> files[d]] /\ \A d \in Dir : Keeps(original[d], files[d])

LEMMA HeldKept ==
  ASSUME DirsHeld
  PROVE  KeptFiles(fs')
BY DEF DirsHeld, Held, KeptFiles

LEMMA ClaimStep ==
  ASSUME TypeOK, AllKept, Claims, SdkWritesKey
  PROVE  /\ KeptFiles(fs')
         /\ \A d \in Dir : KeysKept(fs[d], fs'[d])
         /\ \A d \in Dir : EnvKey(fs[d]) \in DevKey => EnvKey(fs'[d]) \in DevKey
<1>1. CASE fs' = AppWith("claimed-key", ClaimedKey)
  <2>1. "claimed-key" \notin UserFiles /\ FileSound("claimed-key", ClaimedKey)
    BY ClaimAssumption DEF UserFiles, FileSound, Instrumentation, Configs, InfoFiles, McpFiles
  <2>2. Tame(App, With(App, "claimed-key", ClaimedKey))
    BY <2>1, HereIs, OursTame
  <2>3. DirsTame
    BY <1>1, <2>2, EditTame, HereIs DEF AppWith
  <2>4. QED
    BY <2>3, DirsTameHeld, HeldKept DEF DirsTame, Tame
<1>2. CASE fs' = AppWith(".env.local", WithClaimedKey(sdk.env, ClaimedKey))
  <2> DEFINE name == ".env.local"
             text == WithClaimedKey(sdk.env, ClaimedKey)
             new == With(App, name, text)
  <2>1. sdk.env \in Seq(EnvLine) /\ sdk.claim = "read"
    BY DEF TypeOK, SdkWritesKey
  <2>2. /\ text \in Seq(EnvLine) /\ UserLines(text) = UserLines(sdk.env)
        /\ ReadEnvLocalApiKey(sdk.env) \in DevKey => ReadEnvLocalApiKey(text) \in DevKey
    BY <2>1, ClaimAssumption, ClaimWritten
  <2> HIDE DEF text
  <2>3. name \in UserFiles /\ FileSound(name, text)
    BY <2>2 DEF UserFiles, FileSound, InfoFiles, McpFiles
  <2>4. KeepsUserText(name, TextAt(original["app"], name), text)
    <3>1. UserLines(text) = UserLines(TextAt(original["app"], name))
      BY <2>1, <2>2 DEF Claims
    <3>2. QED
      BY <3>1, KeepsIs
  <2>5. Keeps(original["app"], App)
    BY HereIs DEF AllKept, Keeps
  <2>6. Keeps(original["app"], new)
    BY <2>3, <2>4, <2>5, WithKeepsFrom
  <2>7. DOMAIN new = DOMAIN App \cup {name} /\ new[name] = text
    BY DEF With
  <2> HIDE DEF new
  <2>8. KeysKept(App, new)
    BY <2>7 DEF KeysKept, Has
  <2>9. EnvKey(App) \in DevKey => EnvKey(new) \in DevKey
    <3>1. EnvKey(App) \in {ReadEnvLocalApiKey(sdk.env), ""}
      BY <2>1, HereIs DEF Claims
    <3>2. EnvKey(new) = ReadEnvLocalApiKey(text)
      BY <2>7 DEF EnvKey, Has
    <3>3. QED
      BY <2>2, <3>1, <3>2, KeysAssumption
  <2>10. fs' = [fs EXCEPT !["app"] = new]
    BY <1>2, HereIs DEF AppWith, new, text
  <2>11. /\ fs' = [e \in Dir |-> fs'[e]] /\ fs'["app"] = new
         /\ \A e \in Dir : e # "app" => fs'[e] = fs[e]
    BY <2>10, HereIs, EditedIs
  <2>12. ASSUME NEW d \in Dir
         PROVE  /\ Keeps(original[d], fs'[d]) /\ KeysKept(fs[d], fs'[d])
                /\ EnvKey(fs[d]) \in DevKey => EnvKey(fs'[d]) \in DevKey
    <3>1. CASE d = "app"
      BY <2>6, <2>8, <2>9, <2>11, <3>1, HereIs
    <3>2. CASE d # "app"
      BY <2>11, <3>2 DEF AllKept, Keeps, KeysKept
    <3>3. QED
      BY <3>1, <3>2
  <2>13. QED
    BY <2>11, <2>12 DEF KeptFiles
<1>3. QED
  BY <1>1, <1>2 DEF SdkWritesKey

-----------------------------------------------------------------------------
\* The rollback of a failed init

LEMMA SameReflexive ==
  ASSUME NEW a, NEW n
  PROVE  SameAt(a, a, n)
BY DEF SameAt

LEMMA SameTransitive ==
  ASSUME NEW a, NEW b, NEW c, NEW n, SameAt(a, b, n), SameAt(b, c, n)
  PROVE  SameAt(a, c, n)
BY DEF SameAt

LEMMA WithSame ==
  ASSUME NEW dir, NEW name, NEW text, NEW n, n # name
  PROVE  SameAt(dir, With(dir, name, text), n)
BY DEF With, SameAt, Has

LEMMA WithoutSame ==
  ASSUME NEW dir, NEW name, NEW n, n # name
  PROVE  SameAt(dir, Without(dir, {name}), n)
<1> DEFINE new == Without(dir, {name})
<1>1. /\ DOMAIN new = DOMAIN dir \ {name}
      /\ \A m \in DOMAIN dir \ {name} : new[m] = dir[m]
  BY WithoutIs
<1> HIDE DEF new
<1>2. SameAt(dir, new, n)
  BY <1>1 DEF SameAt, Has
<1>3. QED
  BY <1>2 DEF new

\* Each step of the rollback sees to its own file.
LEMMA UndoEnvIs ==
  ASSUME NEW dir, DirSound(dir)
  PROVE  LET new == UndoEnvLocal(dir)
         IN /\ Keeps(dir, new) /\ KeysKept(dir, new)
            /\ EnvKey(new) \in {EnvKey(dir), ""}
            /\ \A n : n # ".env.local" => SameAt(dir, new, n)
<1>1. CASE ~ Has(dir, ".env.local")
  <2>1. UndoEnvLocal(dir) = dir
    BY <1>1 DEF UndoEnvLocal
  <2>2. QED
    BY <2>1, TameReflexive, SameReflexive DEF Tame
<1>2. CASE Has(dir, ".env.local")
  <2> DEFINE kept == LinesNamed(dir[".env.local"], {"coverage", "user"})
             new == WithOrWithout(dir, ".env.local", kept, kept = <<>>)
  <2>1. UndoEnvLocal(dir) = new
    BY <1>2 DEF UndoEnvLocal, WithoutKeyLines
  <2>2. Keeps(dir, new) /\ KeysKept(dir, new) /\ EnvKey(new) = ""
    <3>1. /\ "user" \in {"coverage", "user"} /\ "key" \notin {"coverage", "user"}
          /\ kept = LinesNamed(dir[".env.local"], {"coverage", "user"})
      OBVIOUS
    <3> HIDE DEF kept
    <3>2. QED
      BY <1>2, <3>1, FilteredEnv, ZenonT(60)
  <2>3. ASSUME NEW n, n # ".env.local" PROVE SameAt(dir, new, n)
    BY <2>3, WithSame, WithoutSame DEF WithOrWithout
  <2> HIDE DEF new
  <2>4. QED
    BY <2>1, <2>2, <2>3
<1>3. QED
  BY <1>1, <1>2

LEMMA UnwrappedSame ==
  ASSUME NEW dir, NEW n, n \notin Configs
  PROVE  SameAt(dir, UnwrappedConfig(dir), n)
<1>1. CASE UnwrappedConfig(dir) = dir
  BY <1>1, SameReflexive
<1>2. ASSUME NEW name \in Configs,
             UnwrappedConfig(dir) = With(dir, name, UnwrapExport(dir[name]))
      PROVE  SameAt(dir, UnwrappedConfig(dir), n)
  BY <1>2, WithSame
<1>3. QED
  BY <1>1, <1>2, UnwrappedIs

LEMMA UndoInstrumentationCases ==
  ASSUME NEW dir
  PROVE  /\ ~ Has(dir, cmd.target) => UndoInstrumentation(dir) = dir
         /\ Has(dir, cmd.target) /\ IsInitCreatedInstrumentation(dir[cmd.target]) =>
              UndoInstrumentation(dir) = Without(dir, {cmd.target})
         /\ Has(dir, cmd.target) /\ ~ IsInitCreatedInstrumentation(dir[cmd.target]) =>
              UndoInstrumentation(dir) =
                With(dir, cmd.target, IF cmd.saved THEN before[cmd.root][cmd.target]
                                      ELSE RemoveRegisterGlasstrace(dir[cmd.target]))
<1>1. CASE ~ Has(dir, cmd.target)
  BY <1>1 DEF UndoInstrumentation
<1>2. CASE Has(dir, cmd.target) /\ IsInitCreatedInstrumentation(dir[cmd.target])
  BY <1>2 DEF UndoInstrumentation
<1>3. CASE Has(dir, cmd.target) /\ ~ IsInitCreatedInstrumentation(dir[cmd.target])
  BY <1>3 DEF UndoInstrumentation
<1>4. QED
  BY <1>1, <1>2, <1>3

LEMMA UndoInstrumentationIs ==
  ASSUME NEW was, NEW dir, Keeps(was, dir), cmd.target \in Instrumentation,
         cmd.saved => UserText(TextAt(was, cmd.target)) \subseteq before[cmd.root][cmd.target]
  PROVE  LET new == UndoInstrumentation(dir)
         IN /\ Keeps(was, new) /\ KeysKept(dir, new) /\ EnvKey(new) = EnvKey(dir)
            /\ \A n : n # cmd.target => SameAt(dir, new, n)
<1> DEFINE name == cmd.target
           text == dir[name]
           new == UndoInstrumentation(dir)
<1>1. /\ name \in UserFiles /\ DirSound(dir) /\ KeepsAll(was, dir)
      /\ name \notin {"anon_key", "claimed-key", ".env.local"}
  BY DEF UserFiles, Keeps, Instrumentation
<1>2. CASE ~ Has(dir, name)
  <2>1. new = dir
    BY <1>2, UndoInstrumentationCases
  <2>2. QED
    BY <2>1, SameReflexive DEF KeysKept
<1>3. CASE Has(dir, name) /\ IsInitCreatedInstrumentation(text)
  <2>1. new = Without(dir, {name})
    BY <1>3, UndoInstrumentationCases
  <2>2. KeepsUserText(name, text, EmptyText(name))
    BY <1>3, KeepsIs, PiecesKept
  <2> HIDE DEF text, name, new
  <2>3. Tame(dir, Without(dir, {name}))
    BY <1>1, <2>2, WithoutTame DEF text
  <2>4. Keeps(was, new) /\ KeysKept(dir, new) /\ EnvKey(new) = EnvKey(dir)
    BY <1>1, <2>1, <2>3, AllTransitive DEF Tame, Keeps
  <2>5. \A n : n # name => SameAt(dir, new, n)
    BY <2>1, WithoutSame
  <2>6. QED
    BY <2>4, <2>5 DEF new, name
<1>4. CASE Has(dir, name) /\ ~ IsInitCreatedInstrumentation(text)
  <2> DEFINE restored == IF cmd.saved THEN before[cmd.root][name] ELSE RemoveRegisterGlasstrace(text)
  <2>1. new = With(dir, name, restored)
    BY <1>4, UndoInstrumentationCases
  <2>2. UserText(TextAt(was, name)) \subseteq restored
    <3>1. CASE cmd.saved
      BY <3>1
    <3>2. CASE ~ cmd.saved
      <4>1. TextAt(dir, name) = text
        BY <1>4 DEF TextAt
      <4>2. UserText(TextAt(was, name)) \subseteq text
        BY <1>1, <4>1, KeepsIs DEF KeepsAll
      <4>3. UserText(TextAt(was, name)) \subseteq RemoveRegisterGlasstrace(text)
        BY <4>2 DEF UserText, RemoveRegisterGlasstrace
      <4>4. QED
        BY <3>2, <4>3
    <3>3. QED
      BY <3>1, <3>2
  <2>3. KeepsUserText(name, TextAt(was, name), restored)
    BY <2>2, KeepsIs
  <2>4. FileSound(name, restored)
    BY DEF FileSound, Instrumentation, InfoFiles, McpFiles
  <2>5. DirSound(dir)
    BY <1>1
  <2> HIDE DEF text, name, new, restored
  <2>6. Keeps(was, new)
    BY <2>1, <2>3, <2>4, WithKeepsFrom
  <2>7. /\ DOMAIN new = DOMAIN dir \cup {name}
        /\ \A n \in DOMAIN dir : n # name => new[n] = dir[n]
    BY <2>1 DEF With
  <2>8. KeysKept(dir, new) /\ EnvKey(new) = EnvKey(dir)
    BY <1>1, <2>7 DEF KeysKept, EnvKey, Has
  <2>9. \A n : n # name => SameAt(dir, new, n)
    BY <2>1, WithSame
  <2>10. QED
    BY <2>6, <2>8, <2>9 DEF new, name
<1>5. QED
  BY <1>2, <1>3, <1>4

LEMMA RollbackHeld ==
  ASSUME TypeOK, AllKept, Scaffolding, RollsBack
  PROVE  /\ DirsHeld /\ \A d \in Dir : KeysKept(fs[d], fs'[d])
         /\ "env-local" \notin cmd.undo => \A d \in Dir : EnvKey(fs'[d]) = EnvKey(fs[d])
<1> DEFINE was == original[cmd.root]
           d1 == IF "env-local" \in cmd.undo THEN UndoEnvLocal(Here) ELSE Here
           d2 == IF "next-config" \in cmd.undo THEN UnwrappedConfig(d1) ELSE d1
           d3 == IF "instrumentation" \in cmd.undo THEN UndoInstrumentation(d2) ELSE d2
<1>1. fs' = [fs EXCEPT ![cmd.root] = d3]
  BY HereIs DEF RollsBack, FailAndRollBack, RollbackSteps
<1>2. DirSound(Here) /\ Keeps(was, Here) /\ cmd.root \in Dir /\ Here = fs[cmd.root]
  BY HereIs DEF AllKept, Keeps
<1>3. Keeps(was, d1) /\ KeysKept(Here, d1) /\ EnvKey(d1) \in {EnvKey(Here), ""}
  BY <1>2, UndoEnvIs, AllTransitive DEF Keeps, KeysKept
<1>a. "env-local" \notin cmd.undo => EnvKey(d1) = EnvKey(Here)
  OBVIOUS
<1> HIDE DEF d1
<1>4. /\ Keeps(was, d2) /\ KeysKept(Here, d2) /\ EnvKey(d2) \in {EnvKey(Here), ""}
      /\ EnvKey(d2) = EnvKey(d1)
  <2>1. DirSound(d1)
    BY <1>3 DEF Keeps
  <2>2. Tame(d1, d2)
    BY <2>1, UnwrappedTame, TameReflexive
  <2> HIDE DEF d2
  <2>3. QED
    BY <1>3, <2>2, AllTransitive DEF Tame, Keeps, KeysKept
<1> HIDE DEF d2
<1>5. /\ Keeps(was, d3) /\ KeysKept(Here, d3) /\ EnvKey(d3) \in {EnvKey(Here), ""}
      /\ EnvKey(d3) = EnvKey(d2)
  <2>1. CASE "instrumentation" \in cmd.undo
    <3>1. /\ cmd.target \in Instrumentation
          /\ cmd.saved => Has(before[cmd.root], cmd.target)
      BY <2>1 DEF Scaffolding, InstrumentationDone, RollsBack
    <3>2. cmd.saved => UserText(TextAt(was, cmd.target)) \subseteq before[cmd.root][cmd.target]
      <4>1. KeepsAll(was, before[cmd.root]) /\ cmd.target \in UserFiles
        BY <1>2, <3>1 DEF AllKept, UserFiles
      <4>2. KeepsUserText(cmd.target, TextAt(was, cmd.target), TextAt(before[cmd.root], cmd.target))
        BY <4>1 DEF KeepsAll
      <4>3. UserText(TextAt(was, cmd.target)) \subseteq TextAt(before[cmd.root], cmd.target)
        BY <3>1, <4>2, KeepsIs
      <4>4. QED
        BY <3>1, <4>3 DEF TextAt
    <3>3. LET new == UndoInstrumentation(d2)
          IN Keeps(was, new) /\ KeysKept(d2, new) /\ EnvKey(new) = EnvKey(d2)
      BY <1>4, <3>1, <3>2, UndoInstrumentationIs
    <3>4. QED
      BY <1>4, <2>1, <3>3 DEF KeysKept
  <2>2. QED
    BY <1>4, <2>1
<1> HIDE DEF d3
<1>6. Held(cmd.root, fs[cmd.root], d3)
  BY <1>2, <1>5 DEF Held
<1>7. DirsHeld
  BY <1>1, <1>2, <1>6, EditHeld
<1>8. fs'[cmd.root] = d3 /\ \A e \in Dir : e # cmd.root => fs'[e] = fs[e]
  BY <1>1, <1>2, EditedIs
<1>9. ASSUME NEW d \in Dir PROVE KeysKept(fs[d], fs'[d])
  <2>1. CASE d = cmd.root
    BY <1>2, <1>5, <1>8, <2>1
  <2>2. CASE d # cmd.root
    BY <1>8, <2>2 DEF KeysKept
  <2>3. QED
    BY <2>1, <2>2
<1>10. "env-local" \notin cmd.undo => \A d \in Dir : EnvKey(fs'[d]) = EnvKey(fs[d])
  BY <1>2, <1>a, <1>4, <1>5, <1>8
<1>11. QED
  BY <1>7, <1>9, <1>10

Restored(was, now, n) ==
  \/ SameAt(was, now, n)
  \/ n = ".env.local" /\ sdk.claim # "no"
  \/ Has(was, n) /\ RollbackMisses(n, was[n])

LEMMA InstrumentationRestored ==
  ASSUME NEW was, was = before[cmd.root], NEW dir, InstrumentationDone(was, dir),
         NEW n \in Instrumentation, NEW now,
         now = IF "instrumentation" \in cmd.undo THEN UndoInstrumentation(dir) ELSE dir
  PROVE  Restored(was, now, n)
<1>1. CASE ~ ("instrumentation" \in cmd.undo /\ n = cmd.target)
  <2>1. SameAt(was, dir, n)
    BY <1>1 DEF InstrumentationDone
  <2>2. SameAt(dir, now, n)
    <3>1. CASE "instrumentation" \notin cmd.undo
      BY <3>1, SameReflexive
    <3>2. CASE "instrumentation" \in cmd.undo
      <4>1. n # cmd.target /\ now = UndoInstrumentation(dir)
        BY <1>1, <3>2
      <4>2. \/ now = dir \/ now = Without(dir, {cmd.target})
            \/ \E text : now = With(dir, cmd.target, text)
        BY <4>1, UndoInstrumentationCases
      <4>3. QED
        BY <4>1, <4>2, SameReflexive, WithSame, WithoutSame
    <3>3. QED
      BY <3>1, <3>2
  <2>3. QED
    BY <2>1, <2>2, SameTransitive DEF Restored
<1>2. CASE "instrumentation" \in cmd.undo /\ n = cmd.target
  <2>1. /\ Has(dir, n) /\ (cmd.saved <=> Has(was, n))
        /\ dir[n] = IF cmd.saved THEN MergedInstrumentation(was[n])
                    ELSE {"import", "register", "call"}
    BY <1>2 DEF InstrumentationDone
  <2>2. CASE ~ cmd.saved
    <3>1. IsInitCreatedInstrumentation(dir[n])
      BY <2>1, <2>2 DEF IsInitCreatedInstrumentation
    <3>2. now = Without(dir, {n})
      BY <1>2, <2>1, <3>1, UndoInstrumentationCases
    <3>3. DOMAIN now = DOMAIN dir \ {n}
      BY <3>2, WithoutIs
    <3>4. SameAt(was, now, n)
      BY <2>1, <2>2, <3>3 DEF SameAt, Has
    <3>5. QED
      BY <3>4 DEF Restored
  <2>3. CASE cmd.saved /\ IsInitCreatedInstrumentation(dir[n])
    BY <2>1, <2>3 DEF Restored, RollbackMisses
  <2>4. CASE cmd.saved /\ ~ IsInitCreatedInstrumentation(dir[n])
    <3>1. now = With(dir, n, was[n])
      BY <1>2, <2>1, <2>4, UndoInstrumentationCases
    <3>2. SameAt(was, now, n)
      BY <2>1, <2>4, <3>1 DEF With, SameAt, Has
    <3>3. QED
      BY <3>2 DEF Restored
  <2>5. QED
    BY <2>2, <2>3, <2>4
<1>3. QED
  BY <1>1, <1>2

LEMMA ConfigRestored ==
  ASSUME NEW was, NEW dir, ConfigDone(was, dir), NEW n \in Configs, NEW now,
         now = IF "next-config" \in cmd.undo THEN UnwrappedConfig(dir) ELSE dir
  PROVE  Restored(was, now, n)
<1>1. CASE "next-config" \notin cmd.undo
  BY <1>1 DEF ConfigDone, Restored
<1>2. CASE "next-config" \in cmd.undo
  <2>1. PICK name \in Configs :
          /\ Has(was, name) /\ Has(dir, name)
          /\ ~ MentionsWrapper(was[name]) /\ ExportOf(name) \in was[name]
          /\ dir[name] = WrapExport(was[name])
          /\ name = "next.config.js" => ~ Has(dir, "next.config.ts")
          /\ \A m \in Configs \ {name} : SameAt(was, dir, m)
    BY <1>2 DEF ConfigDone
  <2>2. MentionsWrapper(dir[name])
    BY <2>1 DEF MentionsWrapper, WrapExport
  <2>3. now = IF CanUnwrapExport(name, dir[name])
              THEN With(dir, name, UnwrapExport(dir[name])) ELSE dir
    BY <1>2, <2>1, <2>2, UnwrappedIs
  <2>4. CASE n # name
    <3>1. SameAt(dir, now, n)
      BY <2>3, <2>4, WithSame, SameReflexive
    <3>2. QED
      BY <2>1, <2>4, <3>1, SameTransitive DEF Restored
  <2>5. CASE n = name /\ was[name] \cap {"unclosed", "misclosed"} # {}
    BY <2>1, <2>5, ConfigNames DEF Restored, RollbackMisses
  <2>6. CASE n = name /\ was[name] \cap {"unclosed", "misclosed"} = {}
    <3>1. CanUnwrapExport(name, dir[name])
      BY <2>1, <2>6 DEF CanUnwrapExport, WrapExport
    <3>2. UnwrapExport(dir[name]) = was[name]
      BY <2>1, <2>6 DEF UnwrapExport, WithEarlierParenthesis, WrapExport, MentionsWrapper
    <3>3. now = With(dir, name, was[name])
      BY <2>3, <3>1, <3>2
    <3>4. SameAt(was, now, n)
      BY <2>1, <2>6, <3>3 DEF With, SameAt, Has
    <3>5. QED
      BY <3>4 DEF Restored
  <2>7. QED
    BY <2>4, <2>5, <2>6
<1>3. QED
  BY <1>1, <1>2

LEMMA EnvRestored ==
  ASSUME NEW was, NEW dir, EnvDone(was, dir), NEW now,
         now = IF "env-local" \in cmd.undo THEN UndoEnvLocal(dir) ELSE dir
  PROVE  Restored(was, now, ".env.local")
<1> DEFINE n == ".env.local"
<1>1. CASE sdk.claim # "no"
  BY <1>1 DEF Restored
<1>2. CASE sdk.claim = "no" /\ "env-local" \notin cmd.undo
  BY <1>2 DEF EnvDone, Restored
<1>3. CASE sdk.claim = "no" /\ "env-local" \in cmd.undo
  <2> DEFINE env == EnvLinesOf(was)
  <2>1. /\ env \in Seq(EnvLine) /\ NoKeyLine(env) /\ Has(dir, n)
        /\ dir[n] = Append(env, Placeholder)
    BY <1>3 DEF EnvDone
  <2> HIDE DEF env
  <2>2. WithoutKeyLines(dir[n]) = env
    BY <2>1, PlaceholderUndone
  <2>3. now = WithOrWithout(dir, n, env, env = <<>>)
    BY <1>3, <2>1, <2>2 DEF UndoEnvLocal
  <2>4. CASE env = <<>>
    <3>1. now = Without(dir, {n})
      BY <2>3, <2>4 DEF WithOrWithout
    <3>2. DOMAIN now = DOMAIN dir \ {n}
      BY <3>1, WithoutIs
    <3>3. CASE ~ Has(was, n)
      BY <3>2, <3>3 DEF Restored, SameAt, Has
    <3>4. CASE Has(was, n)
      BY <2>4, <3>4 DEF Restored, RollbackMisses, EnvLinesOf, env
    <3>5. QED
      BY <3>3, <3>4
  <2>5. CASE env # <<>>
    <3>1. now = With(dir, n, env)
      BY <2>3, <2>5 DEF WithOrWithout
    <3>2. Has(was, n) /\ was[n] = env
      BY <2>5 DEF EnvLinesOf, env
    <3>3. SameAt(was, now, n)
      BY <2>1, <3>1, <3>2 DEF With, SameAt, Has
    <3>4. QED
      BY <3>3 DEF Restored
  <2>6. QED
    BY <2>4, <2>5
<1>4. QED
  BY <1>1, <1>2, <1>3

\* What one part of the rollback says of a file, where the rest leaves it alone.
LEMMA RestoredSame ==
  ASSUME NEW was, NEW a, NEW b, NEW n, Restored(was, a, n), SameAt(a, b, n)
  PROVE  Restored(was, b, n)
BY SameTransitive DEF Restored

LEMMA SameRestored ==
  ASSUME NEW was, NEW a, NEW b,
         \A n \in Instrumentation : SameAt(a, b, n), InstrumentationDone(was, a)
  PROVE  InstrumentationDone(was, b)
<1>1. \A n \in Instrumentation : SameAt(was, a, n) => SameAt(was, b, n)
  BY SameTransitive
<1>2. "instrumentation" \in cmd.undo =>
        /\ cmd.target \in Instrumentation /\ Has(b, cmd.target)
        /\ b[cmd.target] = a[cmd.target]
  BY DEF InstrumentationDone, SameAt
<1>3. QED
  BY <1>1, <1>2 DEF InstrumentationDone

LEMMA SameConfig ==
  ASSUME NEW was, NEW a, NEW b, \A n \in Configs : SameAt(a, b, n), ConfigDone(was, a)
  PROVE  ConfigDone(was, b)
<1>1. \A n \in Configs : SameAt(was, a, n) => SameAt(was, b, n)
  BY SameTransitive
<1>2. \A n \in Configs : (Has(b, n) <=> Has(a, n)) /\ (Has(a, n) => b[n] = a[n])
  BY DEF SameAt
<1>3. "next.config.ts" \in Configs
  BY DEF Configs
<1>4. CASE "next-config" \notin cmd.undo
  BY <1>1, <1>4 DEF ConfigDone
<1>5. CASE "next-config" \in cmd.undo
  <2>1. PICK name \in Configs :
          /\ Has(was, name) /\ Has(a, name)
          /\ ~ MentionsWrapper(was[name]) /\ ExportOf(name) \in was[name]
          /\ a[name] = WrapExport(was[name])
          /\ name = "next.config.js" => ~ Has(a, "next.config.ts")
          /\ \A m \in Configs \ {name} : SameAt(was, a, m)
    BY <1>5 DEF ConfigDone
  <2>2. /\ Has(was, name) /\ Has(b, name)
        /\ ~ MentionsWrapper(was[name]) /\ ExportOf(name) \in was[name]
        /\ b[name] = WrapExport(was[name])
        /\ name = "next.config.js" => ~ Has(b, "next.config.ts")
        /\ \A m \in Configs \ {name} : SameAt(was, b, m)
    BY <1>1, <1>2, <1>3, <2>1
  <2>3. QED
    BY <1>5, <2>2 DEF ConfigDone
<1>6. QED
  BY <1>4, <1>5

LEMMA RollbackRestores ==
  ASSUME TypeOK, AllKept, Scaffolding, RollsBack,
         NEW n \in Instrumentation \cup Configs \cup {".env.local"}
  PROVE  Restored(before[cmd.root], fs'[cmd.root], n)
<1> DEFINE was == before[cmd.root]
           d1 == IF "env-local" \in cmd.undo THEN UndoEnvLocal(Here) ELSE Here
           d2 == IF "next-config" \in cmd.undo THEN UnwrappedConfig(d1) ELSE d1
           d3 == IF "instrumentation" \in cmd.undo THEN UndoInstrumentation(d2) ELSE d2
<1>1. fs' = [fs EXCEPT ![cmd.root] = d3]
  BY HereIs DEF RollsBack, FailAndRollBack, RollbackSteps
<1>2. fs'[cmd.root] = d3
  <2> HIDE DEF d3
  <2>1. QED
    BY <1>1, HereIs, EditedIs
<1>3. InstrumentationDone(was, Here) /\ ConfigDone(was, Here) /\ EnvDone(was, Here)
  BY HereIs DEF Scaffolding, RollsBack
<1>4. \A m : m # ".env.local" => SameAt(Here, d1, m)
  BY HereIs, UndoEnvIs, SameReflexive
<1>5. \A m : m \notin Configs => SameAt(d1, d2, m)
  <2> HIDE DEF d1
  <2>1. QED
    BY UnwrappedSame, SameReflexive
<1>6. \A m : m \notin Instrumentation => SameAt(d2, d3, m)
  <2>1. CASE "instrumentation" \in cmd.undo
    <3>1. cmd.target \in Instrumentation
      BY <1>3, <2>1 DEF InstrumentationDone
    <3> HIDE DEF d2
    <3>2. \/ d3 = d2 \/ d3 = Without(d2, {cmd.target})
          \/ \E text : d3 = With(d2, cmd.target, text)
      BY <2>1, UndoInstrumentationCases
    <3> HIDE DEF d3
    <3>3. QED
      BY <3>1, <3>2, SameReflexive, WithSame, WithoutSame
  <2>2. CASE "instrumentation" \notin cmd.undo
    BY <2>2, SameReflexive
  <2>3. QED
    BY <2>1, <2>2
<1>7. CASE n \in Instrumentation
  <2>1. InstrumentationDone(was, d2)
    <3>1. \A m \in Instrumentation : m # ".env.local" /\ m \notin Configs
      BY NamesAre
    <3> HIDE DEF d1, d2
    <3>2. \A m \in Instrumentation : SameAt(Here, d2, m)
      BY <1>4, <1>5, <3>1, SameTransitive
    <3>3. QED
      BY <1>3, <3>2, SameRestored
  <2> HIDE DEF d2
  <2>2. QED
    BY <1>2, <1>7, <2>1, InstrumentationRestored
<1>8. CASE n \in Configs
  <2>1. ConfigDone(was, d1)
    <3>1. \A m \in Configs : m # ".env.local"
      BY NamesAre
    <3> HIDE DEF d1
    <3>2. QED
      BY <1>3, <1>4, <3>1, SameConfig
  <2>2. Restored(was, d2, n)
    <3> HIDE DEF d1
    <3>1. QED
      BY <1>8, <2>1, ConfigRestored
  <2>3. n \notin Instrumentation
    BY <1>8, NamesAre
  <2> HIDE DEF d1, d2, d3
  <2>4. QED
    BY <1>2, <1>6, <2>2, <2>3, RestoredSame
<1>9. CASE n = ".env.local"
  <2>1. Restored(was, d1, n)
    BY <1>3, <1>9, EnvRestored
  <2>2. n \notin Instrumentation /\ n \notin Configs
    BY <1>9, NamesAre
  <2> HIDE DEF d1, d2, d3
  <2>3. QED
    BY <1>2, <1>5, <1>6, <2>1, <2>2, RestoredSame
<1>10. QED
  BY <1>7, <1>8, <1>9

-----------------------------------------------------------------------------
\* Types

LEMMA IdleTyped == Idle \in Command
<1>1. NoCredential \in [source : {"none", "env-local", "claimed-key", "anon"}, key : Keys]
  BY DEF NoCredential, Keys
<1>2. <<>> \in Seq(McpText)
  OBVIOUS
<1>3. "app" \in Dir
  BY DEF Dir
<1> HIDE DEF NoCredential
<1>4. QED
  BY <1>1, <1>2, <1>3 DEF Idle, Command, Sites, Target

LEMMA DetectedTyped ==
  ASSUME NEW root
  PROVE  DetectedAgents(site, root) \cup {"generic"} \subseteq Dispatched
BY DEF DetectedAgents, Dispatched

\* Where a command is, was told to do, and has done so far.
LEMMA StartTyped ==
  ASSUME TypeOK, NEW command, NEW options \in Command, Start(command, options),
         command.name \in {"init", "mcp add", "uninit", "upgrade"},
         command.pc \in {"instrumentation", "resolve", "marker", "upgrade"},
         \A cwd \in Sites : command.roots[cwd] \subseteq Sites
  PROVE  /\ cmd' \in Command /\ cmd'.undo = options.undo /\ cmd'.exit = options.exit
         /\ cmd'.pc = command.pc /\ cmd'.name = command.name
<1>1. PICK cwd \in site.cwds : \E root \in command.roots[cwd] :
         cmd' = [options EXCEPT !.name = command.name, !.pc = command.pc, !.root = root]
  BY DEF Start
<1>2. PICK root \in command.roots[cwd] :
         cmd' = [options EXCEPT !.name = command.name, !.pc = command.pc, !.root = root]
  BY <1>1
<1>3. root \in Sites
  <2>1. cwd \in Sites
    BY <1>1 DEF TypeOK, Layout
  <2>2. QED
    BY <1>2, <2>1
<1>4. cmd' \in Command
  BY <1>2, <1>3, ZenonT(60) DEF Command
<1>5. cmd'.undo = options.undo /\ cmd'.exit = options.exit
  BY <1>2 DEF Command
<1>6. cmd'.pc = command.pc /\ cmd'.name = command.name
  BY <1>2 DEF Command
<1>7. QED
  BY <1>4, <1>5, <1>6

LEMMA StartsTyped ==
  ASSUME TypeOK, StartInit \/ StartMcpAdd \/ StartUninit \/ UpgradeInstructions
  PROVE  /\ cmd' \in Command /\ cmd'.undo = {} /\ cmd'.exit = "none"
         /\ cmd'.pc \notin {"idle", "windsurf", "env-confirm"} /\ (cmd'.name = "uninit" => cmd'.pc = "marker")
         /\ cmd'.name = "init" => cmd'.pc = "instrumentation"
<1>1. /\ Resolved = [cwd \in Dir |-> Resolved[cwd]] /\ Sites \subseteq Dir
      /\ \A cwd \in Sites : Resolved[cwd] \subseteq Sites
  BY DEF Resolved, ResolveProjectRoot, Dir, Sites
<1>2. \A cwd \in Sites : AsIs[cwd] \subseteq Sites
  BY <1>1 DEF AsIs
<1>3. Idle.undo = {} /\ Idle.exit = "none"
  BY DEF Idle
<1>4. ASSUME NEW yes \in BOOLEAN, NEW ci \in BOOLEAN, NEW coverage \in BOOLEAN
      PROVE  LET options == [Idle EXCEPT !.yes = yes, !.ci = ci, !.coverage = coverage]
             IN options \in Command /\ options.undo = {} /\ options.exit = "none"
  BY <1>3, IdleTyped, ZenonT(60) DEF Command
<1> HIDE DEF Resolved, AsIs
<1>5. CASE StartInit
  <2> DEFINE command == [name |-> "init", pc |-> "instrumentation", roots |-> Resolved]
             options(yes, ci, coverage) ==
               [Idle EXCEPT !.yes = yes, !.ci = ci, !.coverage = coverage]
  <2>1. \E given \in InitOptions :
          Start(command, options("yes" \in given, "ci" \in given, "coverage" \in given))
    BY <1>5 DEF StartInit
  <2>2. \A given : /\ ("yes" \in given) \in BOOLEAN /\ ("ci" \in given) \in BOOLEAN
                   /\ ("coverage" \in given) \in BOOLEAN
    OBVIOUS
  <2> HIDE DEF options
  <2>3. PICK yes \in BOOLEAN, ci \in BOOLEAN, coverage \in BOOLEAN :
          Start(command, options(yes, ci, coverage))
    BY <2>1, <2>2
  <2>4. LET o == options(yes, ci, coverage)
        IN o \in Command /\ o.undo = {} /\ o.exit = "none"
    BY <1>4 DEF options
  <2>5. /\ command.name = "init" /\ command.pc = "instrumentation"
        /\ \A cwd \in Sites : command.roots[cwd] \subseteq Sites
    BY <1>1
  <2> HIDE DEF command
  <2>6. QED
    BY <2>3, <2>4, <2>5, StartTyped
<1>6. ASSUME NEW force \in BOOLEAN
      PROVE  LET options == [Idle EXCEPT !.force = force]
             IN options \in Command /\ options.undo = {} /\ options.exit = "none"
  BY <1>3, IdleTyped DEF Command
<1> DEFINE forced(force) == [Idle EXCEPT !.force = force]
<1>7. CASE StartMcpAdd
  <2> DEFINE command == [name |-> "mcp add", pc |-> "resolve", roots |-> AsIs]
  <2>1. PICK force \in BOOLEAN : Start(command, forced(force))
    BY <1>7 DEF StartMcpAdd
  <2>2. LET o == forced(force) IN o \in Command /\ o.undo = {} /\ o.exit = "none"
    BY <1>6
  <2>3. /\ command.name = "mcp add" /\ command.pc = "resolve"
        /\ \A cwd \in Sites : command.roots[cwd] \subseteq Sites
    BY <1>2
  <2> HIDE DEF command, forced
  <2>4. QED
    BY <2>1, <2>2, <2>3, StartTyped
<1>8. CASE StartUninit
  <2> DEFINE command == [name |-> "uninit", pc |-> "marker", roots |-> AsIs]
  <2>1. PICK force \in BOOLEAN : Start(command, forced(force))
    BY <1>8 DEF StartUninit
  <2>2. LET o == forced(force) IN o \in Command /\ o.undo = {} /\ o.exit = "none"
    BY <1>6
  <2>3. /\ command.name = "uninit" /\ command.pc = "marker"
        /\ \A cwd \in Sites : command.roots[cwd] \subseteq Sites
    BY <1>2
  <2> HIDE DEF command, forced
  <2>4. QED
    BY <2>1, <2>2, <2>3, StartTyped
<1>9. CASE UpgradeInstructions
  <2> DEFINE roots == [cwd \in Dir |-> IF Resolved[cwd] = {} THEN {cwd} ELSE Resolved[cwd]]
             command == [name |-> "upgrade", pc |-> "upgrade", roots |-> roots]
  <2>1. Start(command, Idle)
    BY <1>9 DEF UpgradeInstructions
  <2>2. /\ command.name = "upgrade" /\ command.pc = "upgrade"
        /\ \A cwd \in Sites : command.roots[cwd] \subseteq Sites
    BY <1>1
  <2> HIDE DEF command
  <2>3. QED
    BY <1>3, <2>1, <2>2, IdleTyped, StartTyped
<1>10. QED
  BY <1>5, <1>7, <1>8, <1>9

Pcs == {"idle", "instrumentation", "next-config", "env-local", "gitignore", "anon-key",
        "discovery", "ci", "agents", "windsurf", "inject", "ignore", "marker", "coverage",
        "verify", "resolve", "upgrade", "directory", "env-confirm", "mcp", "info", "exit"}
Exits == {"none", "done", "already", "unverified", "failed", "conflict", "rolled back", "killed"}

LEMMA ContinueTyped ==
  ASSUME cmd \in Command, NEW pc \in Pcs, Continue(pc)
  PROVE  cmd' \in Command
BY ZenonT(60) DEF Continue, Command, Pcs

LEMMA FinishTyped ==
  ASSUME cmd \in Command, NEW exit \in Exits, Finish(exit)
  PROVE  cmd' \in Command
BY ZenonT(60) DEF Finish, Command, Exits

LEMMA ScaffoldTyped ==
  ASSUME TypeOK, InitInstrumentation \/ InitNextConfig \/ InitEnvLocal \/ InitGitignore
  PROVE  cmd' \in Command
<1>1. cmd \in Command
  BY DEF TypeOK
<1>2. CASE InitInstrumentation
  <2>1. \/ Finish("conflict") \/ Finish("rolled back") \/ Continue("next-config")
        \/ \E name \in ToSet(InstrumentationTarget(site, Here)), existed \in BOOLEAN :
             cmd' = [cmd EXCEPT !.pc = "next-config", !.undo = {"instrumentation"},
                                !.target = name, !.saved = existed]
    BY <1>2 DEF InitInstrumentation, FailAndRollBack, SkipTo
  <2>2. ASSUME NEW name \in ToSet(InstrumentationTarget(site, Here)), NEW existed \in BOOLEAN,
               cmd' = [cmd EXCEPT !.pc = "next-config", !.undo = {"instrumentation"},
                                  !.target = name, !.saved = existed]
        PROVE  cmd' \in Command
    <3>1. name \in Target
      BY TargetIs DEF Target
    <3>2. QED
      BY <1>1, <2>2, <3>1, ZenonT(60) DEF Command
  <2>3. QED
    BY <1>1, <2>1, <2>2, FinishTyped, ContinueTyped DEF Pcs, Exits
<1>3. CASE InitNextConfig \/ InitEnvLocal \/ InitGitignore
  <2>1. \/ Finish("rolled back")
        \/ \E pc \in {"env-local", "gitignore", "anon-key"} :
             \/ Continue(pc)
             \/ \E step \in {"next-config", "env-local", "gitignore"} :
                  cmd' = [cmd EXCEPT !.pc = pc, !.undo = @ \cup {step}]
    BY <1>3 DEF InitNextConfig, InitEnvLocal, InitGitignore, Scaffold, FailAndRollBack, SkipTo
  <2>2. ASSUME NEW pc \in {"env-local", "gitignore", "anon-key"},
               NEW step \in {"next-config", "env-local", "gitignore"},
               cmd' = [cmd EXCEPT !.pc = pc, !.undo = @ \cup {step}]
        PROVE  cmd' \in Command
    BY <1>1, <2>2, ZenonT(60) DEF Command
  <2>3. QED
    BY <1>1, <2>1, <2>2, FinishTyped, ContinueTyped DEF Pcs, Exits
<1>4. QED
  BY <1>2, <1>3

LEMMA FilesStep ==
  ASSUME TypeOK, AllKept, Scaffolding, Claims, Asked, Next
  PROVE  KeptFiles(fs')
<1>1. CASE DirsTame
  BY <1>1, DirsTameHeld, HeldKept
<1>2. CASE RollsBack
  BY <1>2, RollbackHeld, HeldKept
<1>3. CASE UninitDirectory
  BY <1>3, DirectoryStep, HeldKept
<1>4. CASE UninitEnvLocal \/ UninitConfirmed
  BY <1>4, EnvCleanStep, HeldKept
<1>5. CASE SdkWritesKey
  BY <1>5, ClaimStep
<1>6. QED
  BY <1>1, <1>2, <1>3, <1>4, <1>5, StepsAreTame

Starts == StartInit \/ StartMcpAdd \/ StartUninit \/ UpgradeInstructions

LEMMA StartsAre ==
  ASSUME Starts
  PROVE  /\ cmd.pc = "idle" /\ before' = fs /\ UNCHANGED <<site, fs, sdk, original>>
         /\ budget' = [budget EXCEPT !.commands = @ + 1]
BY DEF Starts, StartInit, StartMcpAdd, StartUninit, UpgradeInstructions, Start

LEMMA HistoryKept ==
  ASSUME Next
  PROVE  /\ UNCHANGED <<site, original>>
         /\ UNCHANGED before \/ Starts
<1>1. CASE Starts
  BY <1>1, StartsAre
<1>2. CASE InitStep /\ ~ Starts
  BY <1>2 DEF InitStep, Starts, InitInstrumentation, InitNextConfig, InitEnvLocal,
       InitGitignore, InitAnonKey, InitDiscovery, InitCi, InitCoverage, InitVerify, InitAgent
<1>3. CASE McpStep /\ ~ Starts
  BY <1>3 DEF McpStep, Starts, McpAddResolve, McpAddAgent, AgentsDone, WindsurfStage,
       WindsurfReplace, Inject, UpdateGitignore, WriteMcpMarker
<1>4. CASE UninitStep /\ ~ Starts
  BY <1>4 DEF UninitStep, Starts, UninitMarker, UninitNextConfig, UninitInstrumentation,
       UninitDirectory, UninitDiscovery, UninitEnvLocal, UninitConfirmed, UninitGitignore,
       UninitMcp, UninitInfo, UninitExit
<1>5. CASE (SdkStep \/ UpgradeAll \/ UserEditsWindsurf \/ Killed) /\ ~ Starts
  BY <1>5 DEF SdkStep, SdkStarts, SdkSeesMarker, SdkReadsEnv, SdkWritesKey, SdkRefreshes,
       UpgradeAll, UserEditsWindsurf, Killed
<1>6. QED
  BY <1>1, <1>2, <1>3, <1>4, <1>5 DEF Next, Starts

LEMMA AllKeptStep ==
  ASSUME TypeOK, AllKept, Scaffolding, Claims, Asked, Next
  PROVE  AllKept'
<1>1. KeptFiles(fs')
  BY FilesStep
<1>2. \A d \in Dir : DirSound(fs'[d]) /\ KeepsAll(original[d], fs'[d])
  BY <1>1 DEF KeptFiles, Keeps
<1>3. original' = original
  BY HistoryKept
<1>4. \A d \in Dir : KeepsAll(original[d], before'[d])
  BY HistoryKept, StartsAre DEF AllKept
<1>5. QED
  BY <1>2, <1>3, <1>4 DEF AllKept

\* What a command has done, seen from any of its later steps.
LEMMA KeyTyped ==
  ASSUME TypeOK, AllKept, InitAnonKey
  PROVE  cmd' \in Command
<1>1. cmd \in Command
  BY DEF TypeOK
<1>2. PICK key \in AnonKey : cmd' = [cmd EXCEPT !.pc = "discovery", !.credential.key = key]
  BY HereIs DEF InitAnonKey, DirSound, FileSound, Has
<1>3. [cmd.credential EXCEPT !.key = key] \in Credential
  BY <1>1 DEF Command, Credential, Keys
<1>4. cmd' = [cmd EXCEPT !.pc = "discovery", !.credential = [cmd.credential EXCEPT !.key = key]]
  BY <1>1, <1>2 DEF Command
<1>5. QED
  BY <1>1, <1>3, <1>4, ZenonT(60) DEF Command, Credential

LEMMA DiscoveryTyped ==
  ASSUME TypeOK, AllKept, InitDiscovery
  PROVE  cmd' \in Command
<1>1. cmd \in Command
  BY DEF TypeOK
<1>2. EffectiveCredential(Here) \in Credential
  BY HereIs, CredentialTyped
<1>3. cmd.credential.key \in Keys
  BY <1>1 DEF Command
<1>4. [source |-> "anon", key |-> cmd.credential.key] \in Credential
  BY <1>3 DEF Credential
<1>5. DetectedAgents(site, cmd.root) \cup {"generic"} \subseteq Dispatched
  BY DetectedTyped
<1>6. ASSUME NEW pc \in Pcs, NEW todo \in SUBSET Dispatched, NEW credential \in Credential,
             NEW failed \in BOOLEAN
      PROVE  [cmd EXCEPT !.pc = pc, !.todo = todo, !.credential = credential,
                         !.discoveryFailed = failed] \in Command
  BY <1>1, ZenonT(60) DEF Command, Credential, Pcs
<1> DEFINE todo == DetectedAgents(site, cmd.root) \cup {"generic"}
           resolved == EffectiveCredential(Here)
           pc == IF cmd.ci THEN "ci" ELSE "agents"
           credential == IF resolved # NoCredential THEN resolved
                         ELSE [source |-> "anon", key |-> cmd.credential.key]
           next == [cmd EXCEPT !.pc = pc, !.todo = todo, !.credential = credential]
<1>7. cmd' = next \/ cmd' = [next EXCEPT !.discoveryFailed = TRUE]
  BY DEF InitDiscovery
<1>8. todo \in SUBSET Dispatched /\ credential \in Credential /\ pc \in Pcs
  BY <1>2, <1>4, <1>5 DEF Pcs
<1> HIDE DEF todo, credential, pc
<1>9. \E failed \in BOOLEAN :
        cmd' = [cmd EXCEPT !.pc = pc, !.todo = todo, !.credential = credential,
                           !.discoveryFailed = failed]
  <2>1. cmd.discoveryFailed \in BOOLEAN
    BY <1>1 DEF Command
  <2>2. next = [cmd EXCEPT !.pc = pc, !.todo = todo, !.credential = credential,
                           !.discoveryFailed = cmd.discoveryFailed]
    BY <1>1 DEF Command
  <2>3. [next EXCEPT !.discoveryFailed = TRUE] =
          [cmd EXCEPT !.pc = pc, !.todo = todo, !.credential = credential,
                      !.discoveryFailed = TRUE]
    BY <1>1 DEF Command
  <2>4. QED
    BY <1>7, <2>1, <2>2, <2>3
<1>10. PICK failed \in BOOLEAN :
        cmd' = [cmd EXCEPT !.pc = pc, !.todo = todo, !.credential = credential,
                           !.discoveryFailed = failed]
  BY <1>9
<1>11. [cmd EXCEPT !.pc = pc, !.todo = todo, !.credential = credential,
                   !.discoveryFailed = failed] \in Command
  BY <1>6, <1>8, <1>10
<1>12. QED
  BY <1>10, <1>11

\* An agent is done: taken off the list, and perhaps ready.
LEMMA AgentDone ==
  ASSUME cmd \in Command, NEW pc \in Pcs, NEW agent \in Dispatched, NEW wrote \in BOOLEAN,
         NEW errors \in BOOLEAN, NEW ready \in SUBSET Dispatched,
         cmd' = [cmd EXCEPT !.pc = pc, !.todo = @ \ {agent}, !.wrote = wrote,
                            !.errors = errors, !.ready = ready]
  PROVE  cmd' \in Command
<1> DEFINE todo == cmd.todo \ {agent}
<1>1. todo \in SUBSET Dispatched
  BY DEF Command
<1>2. cmd' = [cmd EXCEPT !.pc = pc, !.todo = todo, !.wrote = wrote,
                         !.errors = errors, !.ready = ready]
  OBVIOUS
<1> HIDE DEF todo
<1> DEFINE first == [cmd EXCEPT !.pc = pc, !.todo = todo, !.ready = ready]
<1>3. first \in Command
  BY <1>1, ZenonT(60) DEF Command, Pcs
<1>4. cmd' = [first EXCEPT !.wrote = wrote, !.errors = errors]
  BY <1>2 DEF Command
<1> HIDE DEF first
<1>5. [first EXCEPT !.wrote = wrote] \in Command
  BY <1>3 DEF Command
<1> DEFINE second == [first EXCEPT !.wrote = wrote]
<1>6. cmd' = [second EXCEPT !.errors = errors]
  BY <1>3, <1>4 DEF Command
<1> HIDE DEF second
<1>7. [second EXCEPT !.errors = errors] \in Command
  BY <1>5 DEF Command, second
<1>8. QED
  BY <1>6, <1>7

LEMMA CommandFields ==
  ASSUME cmd \in Command
  PROVE  /\ cmd.ready \in SUBSET Dispatched /\ cmd.todo \in SUBSET Dispatched
         /\ cmd.wrote \in BOOLEAN /\ cmd.errors \in BOOLEAN /\ cmd.pc \in Pcs
BY DEF Command, Pcs

LEMMA WriteMcpTyped ==
  ASSUME cmd \in Command, NEW pc \in Pcs, NEW caught \in Pcs, NEW agent \in Dispatched,
         NEW dir, WriteMcpConfig(agent, dir, pc, caught)
  PROVE  cmd' \in Command
<1> DEFINE done == [cmd EXCEPT !.pc = pc, !.todo = @ \ {agent}]
           wrote == [done EXCEPT !.wrote = TRUE, !.ready = @ \cup {agent}]
           full(to, w, e, r) == [cmd EXCEPT !.pc = to, !.todo = @ \ {agent}, !.wrote = w,
                                            !.errors = e, !.ready = r]
<1>1. cmd' = wrote \/ cmd' = done \/ cmd' = [done EXCEPT !.pc = caught, !.errors = TRUE]
  BY DEF WriteMcpConfig
<1>2. done = full(pc, cmd.wrote, cmd.errors, cmd.ready)
  BY DEF Command
<1>3. wrote = full(pc, TRUE, cmd.errors, cmd.ready \cup {agent})
  BY DEF Command
<1>4. [done EXCEPT !.pc = caught, !.errors = TRUE] = full(caught, cmd.wrote, TRUE, cmd.ready)
  BY DEF Command
<1>5. cmd.ready \cup {agent} \in SUBSET Dispatched
  BY CommandFields
<1>6. ASSUME NEW to \in Pcs, NEW w \in BOOLEAN, NEW e \in BOOLEAN, NEW r \in SUBSET Dispatched,
             cmd' = full(to, w, e, r)
      PROVE  cmd' \in Command
  BY <1>6, AgentDone
<1> HIDE DEF done, wrote, full
<1>7. CASE cmd' = wrote
  BY <1>3, <1>5, <1>6, <1>7, CommandFields
<1>8. CASE cmd' = done
  BY <1>2, <1>6, <1>8, CommandFields
<1>9. CASE cmd' = [done EXCEPT !.pc = caught, !.errors = TRUE]
  <2>1. cmd' = full(caught, cmd.wrote, TRUE, cmd.ready)
    BY <1>4, <1>9
  <2>2. QED
    BY <1>6, <2>1, CommandFields
<1>10. QED
  BY <1>1, <1>7, <1>8, <1>9

LEMMA SkipTyped ==
  ASSUME cmd \in Command, NEW agent \in Dispatched, NEW ready \in BOOLEAN,
         SkipAgent(agent, ready)
  PROVE  cmd' \in Command
<1>1. cmd' = [cmd EXCEPT !.todo = @ \ {agent}, !.ready = IF ready THEN @ \cup {agent} ELSE @]
  BY DEF SkipAgent
<1>2. (IF ready THEN cmd.ready \cup {agent} ELSE cmd.ready) \in SUBSET Dispatched
  BY CommandFields
<1>3. QED
  BY <1>1, <1>2, ZenonT(60) DEF Command

LEMMA AgentTyped ==
  ASSUME TypeOK, NEW agent \in Dispatched, InitAgent(agent) \/ McpAddAgent(agent)
  PROVE  cmd' \in Command
<1>1. cmd \in Command
  BY DEF TypeOK
<1>2. \/ \E dir : WriteMcpConfig(agent, dir, "agents", "agents") \/ RegisterViaCli(agent, dir)
      \/ SkipAgent(agent, TRUE)
  BY DEF InitAgent, McpAddAgent
<1>3. ASSUME NEW dir, RegisterViaCli(agent, dir)
      PROVE  cmd' \in Command
  <2>1. cmd' = [cmd EXCEPT !.todo = @ \ {agent}, !.wrote = TRUE, !.ready = @ \cup {agent}]
    BY <1>3 DEF RegisterViaCli
  <2>2. QED
    BY <1>1, <2>1, ZenonT(60) DEF Command
<1>4. QED
  BY <1>1, <1>2, <1>3, WriteMcpTyped, SkipTyped DEF Pcs

LEMMA CiTyped ==
  ASSUME TypeOK, InitCi
  PROVE  cmd' \in Command
<1>1. cmd \in Command /\ "generic" \in Dispatched /\ {"ignore", "coverage"} \subseteq Pcs
  BY DEF TypeOK, Dispatched, Pcs
<1>2. QED
  BY <1>1, WriteMcpTyped DEF InitCi

LEMMA HomeTyped ==
  ASSUME TypeOK, AllKept
  PROVE  WindsurfFile \in Seq(McpText)
<1>1. Has(fs["home"], "mcp_config.json") => fs["home"]["mcp_config.json"] \in McpText
  BY HereIs DEF DirSound, FileSound, McpFiles, Has
<1>2. QED
  BY <1>1 DEF WindsurfFile

LEMMA WindsurfTyped ==
  ASSUME TypeOK, AllKept, Staged, WindsurfStage \/ WindsurfReplace
  PROVE  cmd' \in Command
<1>1. cmd \in Command
  BY DEF TypeOK
<1>2. \/ cmd' = [cmd EXCEPT !.todo = @ \ {"windsurf"}, !.pc = "agents", !.errors = TRUE]
      \/ cmd' = [cmd EXCEPT !.todo = @ \ {"windsurf"}, !.pc = "agents",
                            !.wrote = TRUE, !.ready = @ \cup {"windsurf"}]
      \/ SkipAgent("windsurf", FALSE)
      \/ cmd' = [cmd EXCEPT !.pc = "windsurf", !.held = WindsurfFile]
  BY DEF WindsurfStage, WindsurfReplace, WindsurfThrows, WindsurfReady
<1>0. "windsurf" \in Dispatched
  BY <1>1, CommandFields DEF WindsurfStage, WindsurfReplace, Staged
<1>3. CASE cmd' = [cmd EXCEPT !.todo = @ \ {"windsurf"}, !.pc = "agents", !.errors = TRUE]
  BY <1>1, <1>3, ZenonT(60) DEF Command
<1>4. CASE cmd' = [cmd EXCEPT !.todo = @ \ {"windsurf"}, !.pc = "agents",
                              !.wrote = TRUE, !.ready = @ \cup {"windsurf"}]
  BY <1>0, <1>1, <1>4, ZenonT(60) DEF Command
<1>5. CASE SkipAgent("windsurf", FALSE)
  BY <1>1, <1>5, <1>0, SkipTyped
<1>6. CASE cmd' = [cmd EXCEPT !.pc = "windsurf", !.held = WindsurfFile]
  BY <1>1, <1>6, HomeTyped, ZenonT(60) DEF Command
<1>7. QED
  BY <1>2, <1>3, <1>4, <1>5, <1>6

Cleanings ==
  \/ UninitNextConfig \/ UninitInstrumentation \/ UninitDirectory \/ UninitDiscovery
  \/ UninitGitignore \/ UninitMcp \/ UninitInfo

\* Such a step goes on, with or without an error.
Cleans(pc) ==
  /\ UNCHANGED budget \/ Fails
  /\ Continue(pc) \/ cmd' = [cmd EXCEPT !.pc = pc, !.errors = TRUE]

LEMMA PartCleans ==
  ASSUME NEW files, NEW parts, NEW pc, CleanInPart(files, parts, pc)
  PROVE  Cleans(pc)
BY DEF CleanInPart, Cleans

LEMMA CleanCleans ==
  ASSUME NEW files, NEW pc, Clean(files, pc)
  PROVE  Cleans(pc)
BY PartCleans DEF Clean

\* The steps of uninit that are no more than a try block.
LEMMA CleaningsAre ==
  ASSUME Cleanings
  PROVE  /\ cmd.name = "uninit" /\ cmd.pc # "idle"
         /\ \E pc \in {"instrumentation", "directory", "discovery", "env-local", "mcp",
                       "info", "exit"} : Cleans(pc)
         /\ UNCHANGED <<site, sdk, original, before>>
<1>1. CASE UninitNextConfig
  <2>1. Cleans("instrumentation")
    BY <1>1, CleanCleans DEF UninitNextConfig
  <2>2. cmd.name = "uninit" /\ cmd.pc # "idle" /\ UNCHANGED <<site, sdk, original, before>>
    BY <1>1 DEF UninitNextConfig, At
  <2>3. QED
    BY <2>1, <2>2
<1>2. CASE UninitInstrumentation
  <2>1. Cleans("directory")
    BY <1>2, CleanCleans DEF UninitInstrumentation
  <2>2. cmd.name = "uninit" /\ cmd.pc # "idle" /\ UNCHANGED <<site, sdk, original, before>>
    BY <1>2 DEF UninitInstrumentation, At
  <2>3. QED
    BY <2>1, <2>2
<1>3. CASE UninitDirectory
  <2>1. Cleans("discovery")
    BY <1>3, CleanCleans DEF UninitDirectory
  <2>2. cmd.name = "uninit" /\ cmd.pc # "idle" /\ UNCHANGED <<site, sdk, original, before>>
    BY <1>3 DEF UninitDirectory, At
  <2>3. QED
    BY <2>1, <2>2
<1>4. CASE UninitDiscovery
  <2>1. Cleans("env-local")
    BY <1>4 DEF Cleans, UninitDiscovery
  <2>2. cmd.name = "uninit" /\ cmd.pc # "idle" /\ UNCHANGED <<site, sdk, original, before>>
    BY <1>4 DEF UninitDiscovery, At
  <2>3. QED
    BY <2>1, <2>2
<1>5. CASE UninitGitignore
  <2>1. Cleans("mcp")
    BY <1>5, CleanCleans DEF UninitGitignore
  <2>2. cmd.name = "uninit" /\ cmd.pc # "idle" /\ UNCHANGED <<site, sdk, original, before>>
    BY <1>5 DEF UninitGitignore, At
  <2>3. QED
    BY <2>1, <2>2
<1>6. CASE UninitMcp
  <2>1. Cleans("info")
    BY <1>6, PartCleans DEF UninitMcp
  <2>2. cmd.name = "uninit" /\ cmd.pc # "idle" /\ UNCHANGED <<site, sdk, original, before>>
    BY <1>6 DEF UninitMcp, At
  <2>3. QED
    BY <2>1, <2>2
<1>7. CASE UninitInfo
  <2>1. Cleans("exit")
    BY <1>7, PartCleans DEF UninitInfo
  <2>2. cmd.name = "uninit" /\ cmd.pc # "idle" /\ UNCHANGED <<site, sdk, original, before>>
    BY <1>7 DEF UninitInfo, At
  <2>3. QED
    BY <2>1, <2>2
<1>8. QED
  BY <1>1, <1>2, <1>3, <1>4, <1>5, <1>6, <1>7 DEF Cleanings

LEMMA CleanTyped ==
  ASSUME cmd \in Command, NEW pc \in Pcs, Cleans(pc)
  PROVE  cmd' \in Command
<1>1. CASE Continue(pc)
  BY <1>1, ContinueTyped
<1>2. CASE cmd' = [cmd EXCEPT !.pc = pc, !.errors = TRUE]
  BY <1>2, ZenonT(60) DEF Command, Pcs
<1>3. QED
  BY <1>1, <1>2 DEF Cleans

\* A developer key in .env.local is asked about.
Asks ==
  /\ UninitEnvLocal
  /\ Has(Here, ".env.local") /\ Here[".env.local"] \in Seq(EnvLine)
  /\ cmd' = [cmd EXCEPT !.pc = "env-confirm", !.env = Here[".env.local"]]
  /\ UNCHANGED <<fs, budget>>

LEMMA UninitEnvIs ==
  ASSUME TypeOK, UninitEnvLocal
  PROVE  Asks \/ Cleans("gitignore")
<1>1. CASE IsDevApiKey(EnvKey(Here)) /\ ~ cmd.force
  <2>1. /\ cmd' = [cmd EXCEPT !.pc = "env-confirm", !.env = Here[".env.local"]]
        /\ UNCHANGED <<fs, budget>>
    BY <1>1 DEF UninitEnvLocal
  <2>2. "" \notin DevKey
    BY KeysAssumption
  <2>3. Has(Here, ".env.local")
    BY <1>1, <2>2 DEF IsDevApiKey, EnvKey
  <2>4. TypedFiles(Here)
    <3>1. cmd.root \in Sites
      BY DEF TypeOK, Command
    <3>2. cmd.root \in Dir
      BY <3>1 DEF Sites, Dir
    <3>3. \A d \in Dir : TypedFiles(fs[d])
      BY DEF TypeOK
    <3>4. QED
      BY <3>2, <3>3 DEF Here
  <2>5. QED
    BY <2>1, <2>3, <2>4 DEF TypedFiles, Asks
<1>2. CASE ~ (IsDevApiKey(EnvKey(Here)) /\ ~ cmd.force)
  BY <1>2, CleanCleans DEF UninitEnvLocal
<1>3. QED
  BY <1>1, <1>2

\* The answer: the key is kept, or taken, or it cannot be.
LEMMA UninitConfirmedIs ==
  ASSUME TypeOK, UninitConfirmed
  PROVE  /\ cmd.name = "uninit" /\ cmd.pc = "env-confirm"
         /\ UNCHANGED budget \/ Fails
         /\ \E consent, errors \in BOOLEAN :
              cmd' = [cmd EXCEPT !.pc = "gitignore", !.env = <<>>, !.consent = consent,
                                 !.errors = errors]
         /\ UNCHANGED <<site, sdk, original, before>>
<1> DEFINE answered == [cmd EXCEPT !.pc = "gitignore", !.env = <<>>]
           to(consent, errors) == [cmd EXCEPT !.pc = "gitignore", !.env = <<>>,
                                              !.consent = consent, !.errors = errors]
<1>1. /\ cmd.name = "uninit" /\ cmd.pc = "env-confirm"
      /\ UNCHANGED budget \/ Fails
      /\ \/ cmd' = answered
         \/ cmd' = [answered EXCEPT !.consent = TRUE]
         \/ cmd' = [answered EXCEPT !.consent = TRUE, !.errors = TRUE]
      /\ UNCHANGED <<site, sdk, original, before>>
  BY DEF UninitConfirmed, At
<1>2. cmd \in Command /\ cmd.consent \in BOOLEAN /\ cmd.errors \in BOOLEAN
  BY DEF TypeOK, Command
<1>3. /\ answered = to(cmd.consent, cmd.errors)
      /\ [answered EXCEPT !.consent = TRUE] = to(TRUE, cmd.errors)
      /\ [answered EXCEPT !.consent = TRUE, !.errors = TRUE] = to(TRUE, TRUE)
  BY <1>2 DEF Command
<1> HIDE DEF answered
<1>4. \E consent, errors \in BOOLEAN : cmd' = to(consent, errors)
  BY <1>1, <1>2, <1>3
<1>5. QED
  BY <1>1, <1>4

LEMMA UninitTyped ==
  ASSUME TypeOK,
         Cleanings \/ UninitMarker \/ UninitEnvLocal \/ UninitConfirmed \/ UninitExit
  PROVE  cmd' \in Command
<1>1. cmd \in Command
  BY DEF TypeOK
<1>2. CASE Cleanings
  BY <1>1, <1>2, CleaningsAre, CleanTyped DEF Pcs
<1>3. CASE UninitMarker
  BY <1>1, <1>3, ContinueTyped DEF UninitMarker, Pcs
<1>4. CASE UninitEnvLocal
  <2>1. CASE Asks
    BY <1>1, <2>1, ZenonT(60) DEF Asks, Command
  <2>2. QED
    BY <1>1, <1>4, <2>1, UninitEnvIs, CleanTyped DEF Pcs
<1>7. CASE UninitConfirmed
  <2>1. <<>> \in Seq(EnvLine)
    OBVIOUS
  <2>2. PICK consent, errors \in BOOLEAN :
           cmd' = [cmd EXCEPT !.pc = "gitignore", !.env = <<>>, !.consent = consent, !.errors = errors]
    BY <1>7, UninitConfirmedIs
  <2>3. QED
    BY <1>1, <2>1, <2>2, ZenonT(60) DEF Command
<1>5. CASE UninitExit
  BY <1>1, <1>5, FinishTyped DEF UninitExit, Exits
<1>6. QED
  BY <1>2, <1>3, <1>4, <1>5, <1>7

LEMMA ResolveTyped ==
  ASSUME TypeOK, AllKept, McpAddResolve
  PROVE  cmd' \in Command
<1>1. cmd \in Command
  BY DEF TypeOK
<1> DEFINE credential == EffectiveCredential(Here)
           todo == DetectedAgents(site, cmd.root) \cup {"generic"}
<1>2. credential \in Credential /\ todo \in SUBSET Dispatched
  BY HereIs, CredentialTyped, DetectedTyped
<1>3. \/ Finish("failed") \/ Finish("already")
      \/ cmd' = [cmd EXCEPT !.pc = "agents", !.credential = credential, !.todo = todo]
  BY DEF McpAddResolve
<1> HIDE DEF credential, todo
<1>4. CASE cmd' = [cmd EXCEPT !.pc = "agents", !.credential = credential, !.todo = todo]
  BY <1>1, <1>2, <1>4, ZenonT(60) DEF Command, Credential
<1>5. QED
  BY <1>1, <1>3, <1>4, FinishTyped DEF Exits

LEMMA CommandTyped ==
  ASSUME TypeOK, AllKept, Staged, Next
  PROVE  cmd' \in Command
<1>1. cmd \in Command
  BY DEF TypeOK
<1>2. CASE Starts
  BY <1>2, StartsTyped DEF Starts
<1>3. CASE InitInstrumentation \/ InitNextConfig \/ InitEnvLocal \/ InitGitignore
  BY <1>3, ScaffoldTyped
<1>4. CASE InitAnonKey \/ InitDiscovery \/ InitCi
  BY <1>4, KeyTyped, DiscoveryTyped, CiTyped
<1>5. CASE \E a \in Dispatched : InitAgent(a) \/ McpAddAgent(a)
  BY <1>5, AgentTyped
<1>6. CASE WindsurfStage \/ WindsurfReplace
  BY <1>6, WindsurfTyped
<1>7. CASE AgentsDone \/ Inject \/ InitCoverage
  <2>1. \E pc \in Pcs : Continue(pc)
    BY <1>7 DEF AgentsDone, Inject, InitCoverage, Pcs
  <2>2. QED
    BY <1>1, <2>1, ContinueTyped
<1>8. CASE UpdateGitignore \/ WriteMcpMarker \/ InitVerify \/ UpgradeAll \/ Killed
  <2>1. Continue("marker") \/ Continue("coverage") \/ \E exit \in Exits : Finish(exit)
    <3>1. CASE UpdateGitignore \/ WriteMcpMarker
      BY <3>1 DEF UpdateGitignore, WriteMcpMarker, McpThrows, Exits
    <3>2. CASE InitVerify
      <4>1. Finish("failed") \/ Finish("done") \/ Finish("unverified")
        BY <3>2 DEF InitVerify
      <4>2. QED
        BY <4>1 DEF Exits
    <3>3. CASE UpgradeAll \/ Killed
      BY <3>3 DEF UpgradeAll, Killed, Exits
    <3>4. QED
      BY <1>8, <3>1, <3>2, <3>3
  <2>2. QED
    BY <1>1, <2>1, ContinueTyped, FinishTyped DEF Pcs
<1>9. CASE McpAddResolve
  BY <1>9, ResolveTyped
<1>10. CASE UninitStep /\ ~ Starts
  <2>1. Cleanings \/ UninitMarker \/ UninitEnvLocal \/ UninitConfirmed \/ UninitExit
    BY <1>10 DEF UninitStep, Starts, Cleanings
  <2>2. QED
    BY <2>1, UninitTyped
<1>11. CASE SdkStep \/ UserEditsWindsurf
  <2>1. cmd' = cmd
    BY <1>11 DEF SdkStep, SdkStarts, SdkSeesMarker, SdkReadsEnv, SdkWritesKey, SdkRefreshes,
         UserEditsWindsurf
  <2>2. QED
    BY <1>1, <2>1
<1>12. CASE InitStep
  BY <1>12, <1>2, <1>3, <1>4, <1>5, <1>7, <1>8 DEF InitStep, Starts, Dispatched
<1>13. CASE McpStep
  BY <1>13, <1>2, <1>5, <1>6, <1>7, <1>8, <1>9 DEF McpStep, Starts, Dispatched
<1>14. QED
  BY <1>2, <1>8, <1>10, <1>11, <1>12, <1>13 DEF Next, Starts

\* Only the SDK changes the SDK.
LEMMA OthersLeaveSdk ==
  ASSUME Next, ~ SdkStep
  PROVE  sdk' = sdk
<1>1. CASE Starts
  BY <1>1, StartsAre
<1>2. CASE InitStep /\ ~ Starts
  BY <1>2 DEF InitStep, Starts, InitInstrumentation, InitNextConfig, InitEnvLocal,
       InitGitignore, InitAnonKey, InitDiscovery, InitCi, InitCoverage, InitVerify, InitAgent
<1>3. CASE McpStep /\ ~ Starts
  BY <1>3 DEF McpStep, Starts, McpAddResolve, McpAddAgent, AgentsDone, WindsurfStage,
       WindsurfReplace, Inject, UpdateGitignore, WriteMcpMarker
<1>4. CASE UninitStep /\ ~ Starts
  BY <1>4 DEF UninitStep, Starts, UninitMarker, UninitNextConfig, UninitInstrumentation,
       UninitDirectory, UninitDiscovery, UninitEnvLocal, UninitConfirmed, UninitGitignore,
       UninitMcp, UninitInfo, UninitExit
<1>5. CASE UpgradeAll \/ UserEditsWindsurf \/ Killed
  BY <1>5 DEF UpgradeAll, UserEditsWindsurf, Killed
<1>6. QED
  BY <1>1, <1>2, <1>3, <1>4, <1>5 DEF Next, Starts

LEMMA SdkTyped ==
  ASSUME TypeOK, AllKept, Next
  PROVE  sdk' \in [state : {"absent", "running", "drained"},
                   claim : {"no", "read", "persisted", "done"}, env : Seq(EnvLine)]
<1>1. sdk \in [state : {"absent", "running", "drained"},
               claim : {"no", "read", "persisted", "done"}, env : Seq(EnvLine)]
  BY DEF TypeOK
<1>2. CASE SdkStep
  <2>1. EnvLinesOf(App) \in Seq(EnvLine) /\ <<>> \in Seq(EnvLine)
    BY HereIs, EnvLinesTyped
  <2>2. \/ sdk' = [sdk EXCEPT !.state = "running"]
        \/ sdk' = [sdk EXCEPT !.state = "drained"]
        \/ sdk' = [sdk EXCEPT !.claim = "read", !.env = EnvLinesOf(App)]
        \/ sdk' = [sdk EXCEPT !.claim = "persisted", !.env = <<>>]
        \/ sdk' = [sdk EXCEPT !.claim = "done"]
    BY <1>2 DEF SdkStep, SdkStarts, SdkSeesMarker, SdkReadsEnv, SdkWritesKey, SdkRefreshes,
         EnvLinesOf
  <2>3. QED
    BY <1>1, <2>1, <2>2
<1>3. CASE ~ SdkStep
  <2>1. sdk' = sdk
    BY <1>3, OthersLeaveSdk
  <2>2. QED
    BY <1>1, <2>1
<1>4. QED
  BY <1>2, <1>3

Spends ==
  \/ UNCHANGED budget
  \/ Fails
  \/ budget' = [budget EXCEPT !.commands = @ + 1]
  \/ budget' = [budget EXCEPT !.claims = @ + 1]
  \/ budget' = [budget EXCEPT !.edits = @ + 1]
  \/ \E key \in AnonKey : budget' = [budget EXCEPT !.minted = @ \cup {key}]
  \/ \E key \in AnonKey : budget' = [budget EXCEPT !.minted = @ \cup {key}, !.faults = @ + 1]

LEMMA NextSpends ==
  ASSUME Next
  PROVE  Spends
<1>1. CASE Starts
  BY <1>1, StartsAre DEF Spends
<1>2. CASE InitInstrumentation
  BY <1>2 DEF InitInstrumentation, FailAndRollBack, SkipTo, Spends
<1>3. CASE InitNextConfig \/ InitEnvLocal \/ InitGitignore
  BY <1>3 DEF InitNextConfig, InitEnvLocal, InitGitignore, Scaffold, FailAndRollBack, SkipTo, Spends
<1>4. CASE InitAnonKey
  BY <1>4 DEF InitAnonKey, Spends
<1>5. CASE InitDiscovery
  BY <1>5 DEF InitDiscovery, Spends
<1>6. CASE InitCi \/ \E a : InitAgent(a) \/ McpAddAgent(a)
  <2>1. \E a, dir, pc, caught : \/ WriteMcpConfig(a, dir, pc, caught)
                                \/ SkipAgent(a, TRUE) \/ RegisterViaCli(a, dir)
    <3>1. CASE InitCi
      BY <3>1 DEF InitCi
    <3>2. ASSUME NEW a, InitAgent(a)
          PROVE  \E dir : WriteMcpConfig(a, dir, "agents", "agents") \/ SkipAgent(a, TRUE)
      BY <3>2 DEF InitAgent
    <3>3. ASSUME NEW a, McpAddAgent(a)
          PROVE  \E dir : WriteMcpConfig(a, dir, "agents", "agents") \/ RegisterViaCli(a, dir)
      BY <3>3 DEF McpAddAgent
    <3>4. QED
      BY <1>6, <3>1, <3>2, <3>3
  <2>2. QED
    BY <2>1, ZenonT(60) DEF WriteMcpConfig, SkipAgent, RegisterViaCli, Spends
<1>7. CASE WindsurfStage \/ WindsurfReplace
  BY <1>7 DEF WindsurfStage, WindsurfReplace, SkipAgent, Spends
<1>8. CASE AgentsDone \/ Inject \/ UpdateGitignore \/ InitCoverage \/ WriteMcpMarker \/ InitVerify
  BY <1>8 DEF AgentsDone, Inject, InjectInto, UpdateGitignore, InitCoverage, WriteMcpMarker, InitVerify, Spends
<1>9. CASE UpgradeAll \/ Killed \/ McpAddResolve \/ UninitMarker \/ UninitExit \/ UserEditsWindsurf
  BY <1>9 DEF UpgradeAll, InjectInto, Killed, McpAddResolve, UninitMarker, UninitExit, UserEditsWindsurf, Spends
<1>10. CASE Cleanings
  BY <1>10, CleaningsAre DEF Cleans, Spends
<1>11. CASE UninitEnvLocal \/ UninitConfirmed
  <2>1. UNCHANGED budget \/ Fails
    BY <1>11 DEF UninitEnvLocal, UninitConfirmed, Clean, CleanInPart
  <2>2. QED
    BY <2>1 DEF Spends
<1>12. CASE SdkStep
  BY <1>12 DEF SdkStep, SdkStarts, SdkSeesMarker, SdkReadsEnv, SdkWritesKey, SdkRefreshes, Spends
<1>13. CASE InitStep
  BY <1>13, <1>1, <1>2, <1>3, <1>4, <1>5, <1>6, <1>8 DEF InitStep, Starts
<1>14. CASE McpStep
  BY <1>14, <1>1, <1>6, <1>7, <1>8, <1>9 DEF McpStep, Starts
<1>15. CASE UninitStep
  BY <1>15, <1>1, <1>9, <1>10, <1>11 DEF UninitStep, Starts, Cleanings
<1>16. QED
  BY <1>1, <1>9, <1>12, <1>13, <1>14, <1>15 DEF Next, Starts

LEMMA BudgetTyped ==
  ASSUME TypeOK, Next
  PROVE  budget' \in [commands : Nat, faults : Nat, claims : Nat, edits : Nat,
                      minted : SUBSET AnonKey]
<1>1. budget \in [commands : Nat, faults : Nat, claims : Nat, edits : Nat, minted : SUBSET AnonKey]
  BY DEF TypeOK
<1>2. Spends
  BY NextSpends
<1>3. CASE UNCHANGED budget \/ Fails
  BY <1>1, <1>3 DEF Fails
<1>4. CASE \/ budget' = [budget EXCEPT !.commands = @ + 1]
           \/ budget' = [budget EXCEPT !.claims = @ + 1]
           \/ budget' = [budget EXCEPT !.edits = @ + 1]
  BY <1>1, <1>4
<1>5. ASSUME NEW key \in AnonKey,
             \/ budget' = [budget EXCEPT !.minted = @ \cup {key}]
             \/ budget' = [budget EXCEPT !.minted = @ \cup {key}, !.faults = @ + 1]
      PROVE  budget' \in [commands : Nat, faults : Nat, claims : Nat, edits : Nat,
                          minted : SUBSET AnonKey]
  <2> DEFINE minted == budget.minted \cup {key}
             faults == budget.faults + 1
  <2>1. minted \in SUBSET AnonKey /\ faults \in Nat
    BY <1>1
  <2>2. \/ budget' = [budget EXCEPT !.minted = minted]
        \/ budget' = [budget EXCEPT !.minted = minted, !.faults = faults]
    BY <1>1, <1>5
  <2> HIDE DEF minted, faults
  <2>3. CASE budget' = [budget EXCEPT !.minted = minted]
    BY <1>1, <2>1, <2>3
  <2>4. CASE budget' = [budget EXCEPT !.minted = minted, !.faults = faults]
    BY <1>1, <2>1, <2>4
  <2>5. QED
    BY <2>2, <2>3, <2>4
<1>6. QED
  BY <1>2, <1>3, <1>4, <1>5 DEF Spends

LEMMA TypeStep ==
  ASSUME TypeOK, AllKept, Scaffolding, Claims, Staged, Asked, Next
  PROVE  TypeOK'
<1>1. KeptFiles(fs')
  BY FilesStep
<1>2. \A d \in Dir : TypedFiles(fs'[d])
  BY <1>1, SoundFiles DEF KeptFiles, Keeps
<1>3. fs' = [d \in Dir |-> fs'[d]]
  BY <1>1 DEF KeptFiles
<1>4. site' \in Layout
  BY HistoryKept DEF TypeOK
<1>5. QED
  BY <1>2, <1>3, <1>4, CommandTyped, SdkTyped, BudgetTyped DEF TypeOK

-----------------------------------------------------------------------------
\* Where the command goes

ScaffoldPcs == {"instrumentation", "next-config", "env-local", "gitignore"}
LatePcs == {"anon-key", "discovery", "ci", "agents", "inject", "ignore", "marker", "coverage",
            "verify", "resolve", "upgrade"}

Scaffolds == InitInstrumentation \/ InitNextConfig \/ InitEnvLocal \/ InitGitignore

\* A command goes on, never back to a scaffolding step, and to a question only
\* where one is asked.
GoesOn(command) ==
  /\ command.exit = cmd.exit /\ command.name = cmd.name /\ cmd.pc # "idle"
  /\ command.pc \in LatePcs \/ (cmd.name = "uninit" /\ command.pc # "windsurf")
  /\ command.pc = "env-confirm" => Asks

\* What a command may end with, other than after a scaffolding step.
Outcomes == {"done", "already", "unverified", "failed", "killed"}

Goes ==
  \/ cmd' = cmd /\ (SdkStep \/ UserEditsWindsurf)
  \/ cmd'.pc = "idle" /\ cmd'.exit \in Outcomes
  \/ GoesOn(cmd')

LEMMA McpGoes ==
  ASSUME TypeOK, NEW a, InitAgent(a) \/ McpAddAgent(a) \/ InitCi
  PROVE  GoesOn(cmd')
<1>1. cmd \in Command
  BY DEF TypeOK
<1>2. ASSUME NEW agent, NEW dir, NEW pc \in {"ignore", "agents"},
             NEW caught \in {"coverage", "agents"}, WriteMcpConfig(agent, dir, pc, caught)
      PROVE  cmd'.pc \in {pc, caught} /\ cmd'.exit = cmd.exit /\ cmd'.name = cmd.name
  <2> DEFINE done == [cmd EXCEPT !.pc = pc, !.todo = @ \ {agent}]
             wrote == [done EXCEPT !.wrote = TRUE, !.ready = @ \cup {agent}]
  <2>1. cmd' = wrote \/ cmd' = done \/ cmd' = [done EXCEPT !.pc = caught, !.errors = TRUE]
    BY <1>2 DEF WriteMcpConfig
  <2>2. CASE cmd' = wrote
    BY <1>1, <2>2 DEF Command
  <2>3. CASE cmd' = done
    BY <1>1, <2>3 DEF Command
  <2>4. CASE cmd' = [done EXCEPT !.pc = caught, !.errors = TRUE]
    BY <1>1, <2>4 DEF Command
  <2>5. QED
    BY <2>1, <2>2, <2>3, <2>4
<1>3. ASSUME NEW agent, NEW dir, RegisterViaCli(agent, dir) \/ SkipAgent(agent, TRUE)
      PROVE  cmd'.pc = cmd.pc /\ cmd'.exit = cmd.exit /\ cmd'.name = cmd.name
  BY <1>1, <1>3 DEF RegisterViaCli, SkipAgent, Command
<1>4. CASE InitAgent(a)
  <2>1. cmd.pc = "agents" /\ \E dir : WriteMcpConfig(a, dir, "agents", "agents") \/ SkipAgent(a, TRUE)
    BY <1>4 DEF InitAgent, At
  <2>2. QED
    BY <1>2, <1>3, <2>1 DEF GoesOn, LatePcs
<1>5. CASE McpAddAgent(a)
  <2>1. cmd.pc = "agents" /\ \E dir : WriteMcpConfig(a, dir, "agents", "agents") \/ RegisterViaCli(a, dir)
    BY <1>5 DEF McpAddAgent, At
  <2>2. QED
    BY <1>2, <1>3, <2>1 DEF GoesOn, LatePcs
<1>6. CASE InitCi
  <2>1. cmd.pc = "ci" /\ WriteMcpConfig("generic", cmd.root, "ignore", "coverage")
    BY <1>6 DEF InitCi, At
  <2>2. QED
    BY <1>2, <2>1 DEF GoesOn, LatePcs
<1>7. QED
  BY <1>4, <1>5, <1>6

LEMMA ContinueGoes ==
  ASSUME cmd \in Command, NEW pc, Continue(pc), cmd.pc # "idle",
         pc \in LatePcs \/ (cmd.name = "uninit" /\ pc \notin {"windsurf", "env-confirm"})
  PROVE  GoesOn(cmd')
BY DEF Continue, GoesOn, LatePcs, Command

LEMMA FinishGoes ==
  ASSUME cmd \in Command, NEW exit, Finish(exit)
  PROVE  cmd'.pc = "idle" /\ cmd'.exit = exit
BY DEF Finish, Command

LEMMA CleanGoes ==
  ASSUME cmd \in Command, NEW pc, Cleans(pc), cmd.pc # "idle",
         cmd.name = "uninit", pc \notin {"windsurf", "env-confirm"}
  PROVE  GoesOn(cmd')
<1>1. CASE Continue(pc)
  BY <1>1, ContinueGoes
<1>2. CASE cmd' = [cmd EXCEPT !.pc = pc, !.errors = TRUE]
  BY <1>2 DEF GoesOn, Command
<1>3. QED
  BY <1>1, <1>2 DEF Cleans

LEMMA UninitGoes ==
  ASSUME TypeOK,
         Cleanings \/ UninitMarker \/ UninitEnvLocal \/ UninitConfirmed \/ UninitExit
  PROVE  Goes
<1>1. cmd \in Command
  BY DEF TypeOK
<1>2. CASE Cleanings
  BY <1>1, <1>2, CleaningsAre, CleanGoes DEF Goes
<1>3. CASE UninitMarker
  BY <1>1, <1>3, ContinueGoes DEF UninitMarker, At, Goes
<1>4. CASE UninitEnvLocal
  <2>1. cmd.name = "uninit" /\ cmd.pc # "idle"
    BY <1>4 DEF UninitEnvLocal, At
  <2>2. CASE Asks
    BY <1>1, <2>1, <2>2 DEF Asks, Goes, GoesOn, Command
  <2>3. QED
    BY <1>1, <1>4, <2>1, <2>2, UninitEnvIs, CleanGoes DEF Goes
<1>7. CASE UninitConfirmed
  <2>1. PICK consent, errors \in BOOLEAN :
           cmd' = [cmd EXCEPT !.pc = "gitignore", !.env = <<>>, !.consent = consent, !.errors = errors]
    BY <1>7, UninitConfirmedIs
  <2>2. cmd'.pc = "gitignore" /\ cmd'.exit = cmd.exit /\ cmd'.name = cmd.name
    BY <1>1, <2>1 DEF Command
  <2>3. cmd.name = "uninit" /\ cmd.pc = "env-confirm"
    BY <1>7, UninitConfirmedIs
  <2>4. QED
    BY <2>2, <2>3 DEF Goes, GoesOn
<1>5. CASE UninitExit
  BY <1>1, <1>5, FinishGoes DEF UninitExit, Goes, Outcomes
<1>6. QED
  BY <1>2, <1>3, <1>4, <1>5, <1>7

LEMMA WindsurfGoes ==
  ASSUME TypeOK, Staged, WindsurfStage \/ WindsurfReplace
  PROVE  \/ GoesOn(cmd')
         \/ /\ cmd'.pc = "windsurf" /\ cmd'.exit = cmd.exit /\ cmd.pc # "idle"
            /\ "windsurf" \in cmd'.todo
<1>1. cmd \in Command
  BY DEF TypeOK
<1>2. \/ cmd' = [cmd EXCEPT !.todo = @ \ {"windsurf"}, !.pc = "agents", !.errors = TRUE]
      \/ cmd' = [cmd EXCEPT !.todo = @ \ {"windsurf"}, !.pc = "agents",
                            !.wrote = TRUE, !.ready = @ \cup {"windsurf"}]
      \/ SkipAgent("windsurf", FALSE) /\ cmd.pc = "agents"
      \/ cmd' = [cmd EXCEPT !.pc = "windsurf", !.held = WindsurfFile] /\ "windsurf" \in cmd.todo
  BY DEF WindsurfStage, WindsurfReplace, WindsurfThrows, WindsurfReady
<1>3. cmd.pc # "idle"
  BY DEF WindsurfStage, WindsurfReplace
<1>4. CASE cmd' = [cmd EXCEPT !.todo = @ \ {"windsurf"}, !.pc = "agents", !.errors = TRUE]
  BY <1>1, <1>3, <1>4 DEF Command, GoesOn, LatePcs
<1>5. CASE cmd' = [cmd EXCEPT !.todo = @ \ {"windsurf"}, !.pc = "agents",
                              !.wrote = TRUE, !.ready = @ \cup {"windsurf"}]
  BY <1>1, <1>3, <1>5 DEF Command, GoesOn, LatePcs
<1>6. CASE SkipAgent("windsurf", FALSE) /\ cmd.pc = "agents"
  BY <1>1, <1>6 DEF SkipAgent, Command, GoesOn, LatePcs
<1>7. CASE cmd' = [cmd EXCEPT !.pc = "windsurf", !.held = WindsurfFile] /\ "windsurf" \in cmd.todo
  BY <1>1, <1>3, <1>7 DEF Command
<1>8. QED
  BY <1>2, <1>4, <1>5, <1>6, <1>7

LEMMA KeyGoes ==
  ASSUME TypeOK, InitAnonKey \/ InitDiscovery
  PROVE  GoesOn(cmd')
<1>1. cmd \in Command
  BY DEF TypeOK
<1>2. CASE InitAnonKey
  <2>1. cmd.pc = "anon-key" /\ \E key : cmd' = [cmd EXCEPT !.pc = "discovery", !.credential.key = key]
    BY <1>2 DEF InitAnonKey, At
  <2>2. QED
    BY <1>1, <2>1 DEF Command, GoesOn, LatePcs
<1>3. CASE InitDiscovery
  <2> DEFINE next(credential) == [cmd EXCEPT !.pc = IF cmd.ci THEN "ci" ELSE "agents",
                             !.todo = DetectedAgents(site, cmd.root) \cup {"generic"},
                             !.credential = credential]
  <2>1. cmd.pc = "discovery" /\ \E credential : cmd' = next(credential) \/
                                   cmd' = [next(credential) EXCEPT !.discoveryFailed = TRUE]
    BY <1>3 DEF InitDiscovery, At
  <2>2. QED
    BY <1>1, <2>1, ZenonT(60) DEF Command, GoesOn, LatePcs
<1>4. QED
  BY <1>2, <1>3

LEMMA LateGoes ==
  ASSUME TypeOK,
         \/ AgentsDone \/ Inject \/ UpdateGitignore \/ InitCoverage \/ WriteMcpMarker \/ InitVerify
         \/ UpgradeAll \/ Killed \/ McpAddResolve
  PROVE  Goes
<1>1. cmd \in Command
  BY DEF TypeOK
<1>2. CASE AgentsDone \/ Inject \/ InitCoverage
  <2>1. cmd.pc # "idle" /\ \E pc \in LatePcs : Continue(pc)
    BY <1>2 DEF AgentsDone, Inject, InitCoverage, LatePcs, At
  <2>2. QED
    BY <1>1, <2>1, ContinueGoes DEF Goes
<1>3. CASE UpdateGitignore \/ WriteMcpMarker
  <2>1. /\ cmd.pc # "idle"
        /\ Continue("marker") \/ Continue("coverage") \/ \E exit \in Outcomes : Finish(exit)
    BY <1>3 DEF UpdateGitignore, WriteMcpMarker, McpThrows, Outcomes
  <2>2. QED
    BY <1>1, <2>1, ContinueGoes, FinishGoes DEF Goes, LatePcs
<1>4. CASE InitVerify \/ UpgradeAll \/ Killed
  <2>1. \E exit \in Outcomes : Finish(exit)
    <3>1. CASE InitVerify
      <4>1. Finish("failed") \/ Finish("done") \/ Finish("unverified")
        BY <3>1 DEF InitVerify
      <4>2. QED
        BY <4>1 DEF Outcomes
    <3>2. CASE UpgradeAll \/ Killed
      BY <3>2 DEF UpgradeAll, Killed, Outcomes
    <3>3. QED
      BY <1>4, <3>1, <3>2
  <2>2. QED
    BY <1>1, <2>1, FinishGoes DEF Goes
<1>5. CASE McpAddResolve
  <2>1. cmd.pc # "idle"
    BY <1>5 DEF McpAddResolve, At
  <2>2. \/ \E exit \in Outcomes : Finish(exit)
        \/ \E credential, todo :
             cmd' = [cmd EXCEPT !.pc = "agents", !.credential = credential, !.todo = todo]
    BY <1>5 DEF McpAddResolve, Outcomes
  <2>3. CASE \E credential, todo :
             cmd' = [cmd EXCEPT !.pc = "agents", !.credential = credential, !.todo = todo]
    BY <1>1, <2>1, <2>3 DEF Command, Goes, GoesOn, LatePcs
  <2>4. QED
    BY <1>1, <2>2, <2>3, FinishGoes DEF Goes
<1>6. QED
  BY <1>2, <1>3, <1>4, <1>5

LEMMA NextGoes ==
  ASSUME TypeOK, Staged, Next, ~ Starts, ~ Scaffolds
  PROVE  \/ Goes
         \/ /\ cmd'.pc = "windsurf" /\ cmd'.exit = cmd.exit /\ cmd.pc # "idle"
            /\ "windsurf" \in cmd'.todo
<1>1. CASE InitStep
  BY <1>1, KeyGoes, LateGoes, McpGoes DEF InitStep, Starts, Scaffolds, Goes
<1>2. CASE McpStep
  BY <1>2, WindsurfGoes, LateGoes, McpGoes DEF McpStep, Starts, Goes
<1>3. CASE UninitStep
  BY <1>3, UninitGoes DEF UninitStep, Starts, Cleanings
<1>4. CASE SdkStep \/ UserEditsWindsurf
  BY <1>4 DEF SdkStep, SdkStarts, SdkSeesMarker, SdkReadsEnv, SdkWritesKey, SdkRefreshes,
       UserEditsWindsurf, Goes
<1>5. CASE UpgradeAll \/ Killed
  BY <1>5, LateGoes
<1>6. QED
  BY <1>1, <1>2, <1>3, <1>4, <1>5 DEF Next, Starts

LEMMA OthersHeld ==
  ASSUME TypeOK, AllKept, Scaffolding, Asked, Next, ~ SdkWritesKey
  PROVE  DirsHeld
BY StepsAreTame, DirsTameHeld, RollbackHeld, DirectoryStep, EnvCleanStep

LEMMA ReadsEnv ==
  ASSUME TypeOK, AllKept, SdkReadsEnv
  PROVE  Claims'
<1>1. /\ fs' = fs /\ original' = original
      /\ sdk' = [sdk EXCEPT !.claim = "read", !.env = EnvLinesOf(App)]
  BY DEF SdkReadsEnv, EnvLinesOf
<1>2. sdk'.env = EnvLinesOf(fs["app"])
  BY <1>1 DEF TypeOK, App
<1>3. EnvLinesOf(fs["app"]) = TextAt(fs["app"], ".env.local")
  BY DEF EnvLinesOf, TextAt, EmptyText
<1>4. EnvKey(fs["app"]) \in {ReadEnvLocalApiKey(EnvLinesOf(fs["app"])), ""}
  BY DEF EnvKey, EnvLinesOf
<1>5. ".env.local" \in UserFiles /\ "app" \in Dir
  BY DEF UserFiles, Dir
<1>6. KeepsUserText(".env.local", TextAt(original["app"], ".env.local"), TextAt(fs["app"], ".env.local"))
  BY <1>5 DEF AllKept, KeepsAll
<1>7. UserLines(TextAt(fs["app"], ".env.local")) = UserLines(TextAt(original["app"], ".env.local"))
  BY <1>6, KeepsIs
<1>8. QED
  BY <1>1, <1>2, <1>3, <1>4, <1>7 DEF Claims

LEMMA ClaimsStep ==
  ASSUME TypeOK, AllKept, Scaffolding, Claims, Asked, Next
  PROVE  Claims'
<1>1. CASE SdkReadsEnv
  BY <1>1, ReadsEnv
<1>2. CASE SdkWritesKey \/ SdkRefreshes
  <2>1. sdk'.claim # "read"
    BY <1>2 DEF SdkWritesKey, SdkRefreshes, TypeOK
  <2>2. QED
    BY <2>1 DEF Claims
<1>3. CASE ~ (SdkReadsEnv \/ SdkWritesKey \/ SdkRefreshes)
  <2>1. sdk'.claim = sdk.claim /\ sdk'.env = sdk.env
    <3>1. CASE SdkStarts \/ SdkSeesMarker
      BY <3>1 DEF SdkStarts, SdkSeesMarker, TypeOK
    <3>2. CASE ~ SdkStep
      BY <3>2, OthersLeaveSdk
    <3>3. QED
      BY <1>3, <3>1, <3>2 DEF SdkStep
  <2>2. EnvKey(fs'["app"]) \in {EnvKey(fs["app"]), ""}
    <3>1. "app" \in Dir
      BY DEF Dir
    <3>2. QED
      BY <1>3, <3>1, OthersHeld DEF DirsHeld, Held
  <2>3. original' = original
    BY HistoryKept
  <2>4. QED
    BY <2>1, <2>2, <2>3 DEF Claims
<1>4. QED
  BY <1>1, <1>2, <1>3

\* A scaffolding step ends the command, or leaves it where it was told to go.
LEMMA ScaffoldGoes ==
  ASSUME TypeOK, Scaffolds
  PROVE  /\ cmd.name = "init" /\ cmd.pc # "idle"
         /\ \/ cmd'.pc = "idle"
            \/ /\ cmd'.exit = cmd.exit /\ cmd'.name = cmd.name /\ cmd'.root = cmd.root
               /\ InitInstrumentation => cmd'.pc = "next-config"
               /\ InitNextConfig => cmd'.pc = "env-local"
               /\ InitEnvLocal => cmd'.pc = "gitignore"
               /\ InitGitignore => cmd'.pc = "anon-key"
         /\ UNCHANGED <<site, sdk, original, before>>
<1>1. cmd \in Command
  BY DEF TypeOK
<1>2. CASE InitInstrumentation
  <2>1. /\ cmd.name = "init" /\ cmd.pc = "instrumentation"
        /\ UNCHANGED <<site, sdk, original, before>>
    BY <1>2 DEF InitInstrumentation, At
  <2>2. \/ Finish("conflict") \/ Finish("rolled back") \/ Continue("next-config")
        \/ \E name, existed :
             cmd' = [cmd EXCEPT !.pc = "next-config", !.undo = {"instrumentation"},
                                !.target = name, !.saved = existed]
    BY <1>2 DEF InitInstrumentation, FailAndRollBack, SkipTo
  <2>3. \/ cmd'.pc = "idle"
        \/ /\ cmd'.exit = cmd.exit /\ cmd'.name = cmd.name /\ cmd'.root = cmd.root
           /\ cmd'.pc = "next-config"
    BY <1>1, <2>2, ZenonT(60) DEF Finish, Continue, Command
  <2>4. ~ InitNextConfig /\ ~ InitEnvLocal /\ ~ InitGitignore
    BY <2>1 DEF InitNextConfig, InitEnvLocal, InitGitignore, At
  <2>5. QED
    BY <2>1, <2>3, <2>4
<1>3. CASE InitNextConfig
  BY <1>1, <1>3, ZenonT(60)
     DEF InitNextConfig, Scaffold, FailAndRollBack, SkipTo, Continue, Finish, At, Command,
       InitInstrumentation, InitEnvLocal, InitGitignore
<1>4. CASE InitEnvLocal
  BY <1>1, <1>4, ZenonT(60)
     DEF InitEnvLocal, Scaffold, FailAndRollBack, SkipTo, Continue, Finish, At, Command,
       InitInstrumentation, InitNextConfig, InitGitignore
<1>5. CASE InitGitignore
  BY <1>1, <1>5, ZenonT(60)
     DEF InitGitignore, Scaffold, FailAndRollBack, SkipTo, Continue, Finish, At, Command,
       InitInstrumentation, InitNextConfig, InitEnvLocal
<1>6. QED
  BY <1>2, <1>3, <1>4, <1>5 DEF Scaffolds

LEMMA StagedStep ==
  ASSUME TypeOK, AllKept, Staged, Next
  PROVE  Staged'
<1>1. CASE Starts
  BY <1>1, StartsTyped DEF Starts, Staged
<1>2. CASE Scaffolds
  BY <1>2, ScaffoldGoes DEF Staged, Scaffolds
<1>3. CASE ~ Starts /\ ~ Scaffolds
  BY <1>3, NextGoes DEF Goes, GoesOn, LatePcs, Staged
<1>4. QED
  BY <1>1, <1>2, <1>3

LEMMA AskedStep ==
  ASSUME TypeOK, AllKept, Staged, Asked, Next
  PROVE  Asked'
<1> SUFFICES ASSUME cmd'.pc = "env-confirm"
             PROVE  /\ cmd'.name = "uninit"
                    /\ UserLines(cmd'.env) = UserLines(TextAt(original'[cmd'.root], ".env.local"))
                    /\ sdk'.state = "absent" /\ sdk'.claim = "no" =>
                         /\ Has(fs'[cmd'.root], ".env.local")
                         /\ cmd'.env = fs'[cmd'.root][".env.local"]
  BY DEF Asked, Here
<1>1. ~ Starts
  BY StartsTyped DEF Starts
<1>2. ~ Scaffolds
  BY ScaffoldGoes DEF Scaffolds
<1>3. original' = original
  BY HistoryKept
<1>4. CASE cmd' = cmd /\ (SdkStep \/ UserEditsWindsurf)
  <2>1. SdkStep
    BY <1>4 DEF UserEditsWindsurf
  <2>2. ~ (sdk'.state = "absent" /\ sdk'.claim = "no")
    BY <2>1 DEF SdkStep, SdkStarts, SdkSeesMarker, SdkReadsEnv, SdkWritesKey, SdkRefreshes, TypeOK
  <2>3. QED
    BY <1>3, <1>4, <2>2 DEF Asked
<1>5. CASE Asks
  <2>1. /\ cmd.name = "uninit" /\ fs' = fs /\ cmd'.root = cmd.root /\ cmd'.name = cmd.name
        /\ cmd'.env = Here[".env.local"] /\ Has(Here, ".env.local")
    BY <1>5 DEF Asks, UninitEnvLocal, At, TypeOK, Command
  <2>2. KeepsUserText(".env.local", TextAt(original[cmd.root], ".env.local"), Here[".env.local"])
    BY <2>1, HereIs DEF AllKept, KeepsAll, UserFiles, TextAt
  <2>3. QED
    BY <1>3, <2>1, <2>2, KeepsIs DEF Here
<1>6. QED
  BY <1>1, <1>2, <1>4, <1>5, NextGoes DEF Goes, GoesOn, LatePcs

LEMMA InstrumentationScaffolded ==
  ASSUME TypeOK, AllKept, Scaffolding, InitInstrumentation, cmd'.pc # "idle"
  PROVE  Scaffolding'
<1> DEFINE was == before[cmd.root]
<1>1. /\ cmd.name = "init" /\ cmd.pc = "instrumentation" /\ cmd'.pc = "next-config"
      /\ cmd'.root = cmd.root /\ cmd'.exit = cmd.exit /\ before' = before /\ sdk' = sdk
  BY ScaffoldGoes DEF Scaffolds, InitInstrumentation, At
<1>2. /\ cmd.undo = {} /\ cmd.exit = "none"
      /\ InstrumentationDone(was, Here) /\ ConfigDone(was, Here) /\ EnvDone(was, Here)
  BY <1>1 DEF Scaffolding, UndoOf, Here
<1>3. /\ \A n \in Instrumentation \cup Configs : SameAt(was, Here, n)
      /\ sdk.claim = "no" => SameAt(was, Here, ".env.local")
  BY <1>2 DEF InstrumentationDone, ConfigDone, EnvDone
<1>4. cmd \in Command /\ cmd.root \in Dir
  BY DEF TypeOK, Command, Sites, Dir
<1>5. \/ fs' = fs /\ Continue("next-config")
      \/ \E name \in ToSet(InstrumentationTarget(site, Here)), existed \in BOOLEAN :
           /\ existed <=> Has(Here, name)
           /\ fs' = Put(name, IF existed THEN MergedInstrumentation(Here[name])
                              ELSE {"import", "register", "call"})
           /\ cmd' = [cmd EXCEPT !.pc = "next-config", !.undo = {"instrumentation"},
                                 !.target = name, !.saved = existed]
  <2>1. ~ Finish("conflict") /\ ~ Finish("rolled back")
    BY <1>1, <1>4, FinishGoes
  <2>2. QED
    BY <2>1 DEF InitInstrumentation, FailAndRollBack, SkipTo
<1>6. SUFFICES /\ cmd'.undo \subseteq {"instrumentation"}
               /\ InstrumentationDone(before[cmd.root], fs[cmd.root])'
               /\ ConfigDone(before[cmd.root], fs[cmd.root])'
               /\ EnvDone(before[cmd.root], fs[cmd.root])'
  BY <1>1, <1>2 DEF Scaffolding, UndoOf
<1>7. before'[cmd'.root] = was
  BY <1>1
<1>8. CASE fs' = fs /\ Continue("next-config")
  <2>1. cmd'.undo = {} /\ fs'[cmd'.root] = Here
    BY <1>1, <1>2, <1>4, <1>8 DEF Continue, Command, Here
  <2>2. InstrumentationDone(before[cmd.root], fs[cmd.root])'
    BY <1>3, <1>7, <2>1 DEF InstrumentationDone
  <2>3. ConfigDone(before[cmd.root], fs[cmd.root])'
    BY <1>3, <1>7, <2>1 DEF ConfigDone
  <2>4. EnvDone(before[cmd.root], fs[cmd.root])'
    BY <1>1, <1>3, <1>7, <2>1 DEF EnvDone
  <2>5. QED
    BY <2>1, <2>2, <2>3, <2>4
<1>9. ASSUME NEW name \in ToSet(InstrumentationTarget(site, Here)), NEW existed \in BOOLEAN,
             existed <=> Has(Here, name),
             fs' = Put(name, IF existed THEN MergedInstrumentation(Here[name])
                             ELSE {"import", "register", "call"}),
             cmd' = [cmd EXCEPT !.pc = "next-config", !.undo = {"instrumentation"},
                                !.target = name, !.saved = existed]
      PROVE  /\ cmd'.undo \subseteq {"instrumentation"}
             /\ InstrumentationDone(before[cmd.root], fs[cmd.root])'
             /\ ConfigDone(before[cmd.root], fs[cmd.root])'
             /\ EnvDone(before[cmd.root], fs[cmd.root])'
  <2> DEFINE text == IF existed THEN MergedInstrumentation(Here[name])
                     ELSE {"import", "register", "call"}
             now == With(Here, name, text)
  <2>1. cmd'.undo = {"instrumentation"} /\ cmd'.target = name /\ (cmd'.saved <=> existed)
    BY <1>4, <1>9 DEF Command
  <2>2. fs'[cmd'.root] = now
    BY <1>1, <1>4, <1>9 DEF Put, Here, TypeOK
  <2>3. DOMAIN now = DOMAIN Here \cup {name} /\ now[name] = text
    BY DEF With
  <2>4. \A n : n # name => SameAt(Here, now, n)
    BY WithSame
  <2> HIDE DEF now
  <2>5. name \in Instrumentation
    BY TargetIs
  <2>6. \A n : n # name /\ SameAt(was, Here, n) => SameAt(was, now, n)
    BY <2>4, SameTransitive
  <2>7. SameAt(was, Here, name)
    BY <1>3, <2>5
  <2>8. existed <=> Has(was, name)
    BY <1>9, <2>7 DEF SameAt
  <2>9. existed => text = MergedInstrumentation(was[name])
    BY <1>9, <2>7 DEF SameAt
  <2>10. ~ existed => text = {"import", "register", "call"}
    OBVIOUS
  <2> HIDE DEF text
  <2>11. Has(now, name)
    BY <2>3 DEF Has
  <2>12. \A n \in Instrumentation : n = name \/ SameAt(was, now, n)
    BY <1>3, <2>6
  <2>13. InstrumentationDone(before[cmd.root], fs[cmd.root])'
    BY <1>7, <2>1, <2>2, <2>3, <2>5, <2>8, <2>9, <2>10, <2>11, <2>12 DEF InstrumentationDone
  <2>14. name \notin Configs /\ name # ".env.local"
    BY <2>5, NamesAre
  <2>15. ConfigDone(before[cmd.root], fs[cmd.root])'
    <3>1. \A n \in Configs : SameAt(was, now, n)
      BY <1>3, <2>6, <2>14
    <3>2. QED
      BY <1>7, <2>1, <2>2, <3>1 DEF ConfigDone
  <2>16. EnvDone(before[cmd.root], fs[cmd.root])'
    <3>1. sdk.claim = "no" => SameAt(was, now, ".env.local")
      BY <1>3, <2>6, <2>14
    <3>2. QED
      BY <1>1, <1>7, <2>1, <2>2, <3>1 DEF EnvDone
  <2>17. QED
    BY <2>1, <2>13, <2>15, <2>16
<1>10. QED
  BY <1>5, <1>8, <1>9

LEMMA ConfigScaffolded ==
  ASSUME TypeOK, AllKept, Scaffolding, InitNextConfig, cmd'.pc # "idle"
  PROVE  Scaffolding'
<1> DEFINE was == before[cmd.root]
<1>1. /\ cmd.name = "init" /\ cmd.pc = "next-config" /\ cmd'.pc = "env-local"
      /\ cmd'.root = cmd.root /\ cmd'.exit = cmd.exit /\ before' = before /\ sdk' = sdk
  BY ScaffoldGoes DEF Scaffolds, InitNextConfig, At
<1>2. /\ cmd.undo \subseteq {"instrumentation"} /\ cmd.exit = "none"
      /\ InstrumentationDone(was, Here) /\ ConfigDone(was, Here) /\ EnvDone(was, Here)
  BY <1>1 DEF Scaffolding, UndoOf, Here
<1>3. /\ \A n \in Configs : SameAt(was, Here, n)
      /\ sdk.claim = "no" => SameAt(was, Here, ".env.local")
  BY <1>2 DEF ConfigDone, EnvDone
<1>4. cmd \in Command /\ cmd.root \in Dir
  BY DEF TypeOK, Command, Sites, Dir
<1> DEFINE at == FirstOf(Here, NextConfigs)
           file == NextConfigs[at]
<1>5. \/ fs' = fs /\ Continue("env-local")
      \/ /\ at # 0 /\ ~ MentionsWrapper(Here[file]) /\ ExportOf(file) \in Here[file]
         /\ fs' = Put(file, WrapExport(Here[file]))
         /\ cmd' = [cmd EXCEPT !.pc = "env-local", !.undo = @ \cup {"next-config"}]
  <2>1. ~ Finish("rolled back")
    BY <1>1, <1>4, FinishGoes
  <2>2. QED
    BY <2>1 DEF InitNextConfig, Scaffold, FailAndRollBack, SkipTo
<1>6. SUFFICES /\ cmd'.undo \subseteq {"instrumentation", "next-config"}
               /\ InstrumentationDone(before[cmd.root], fs[cmd.root])'
               /\ ConfigDone(before[cmd.root], fs[cmd.root])'
               /\ EnvDone(before[cmd.root], fs[cmd.root])'
  BY <1>1, <1>2 DEF Scaffolding, UndoOf
<1>7. before'[cmd'.root] = was
  BY <1>1
<1>8. CASE fs' = fs /\ Continue("env-local")
  <2>1. /\ cmd'.undo = cmd.undo /\ cmd'.target = cmd.target /\ cmd'.saved = cmd.saved
        /\ fs'[cmd'.root] = Here
    BY <1>1, <1>2, <1>4, <1>8 DEF Continue, Command, Here
  <2>2. InstrumentationDone(before[cmd.root], fs[cmd.root])'
    BY <1>2, <1>7, <2>1 DEF InstrumentationDone
  <2>3. ConfigDone(before[cmd.root], fs[cmd.root])'
    BY <1>2, <1>3, <1>7, <2>1 DEF ConfigDone
  <2>4. EnvDone(before[cmd.root], fs[cmd.root])'
    BY <1>1, <1>2, <1>3, <1>7, <2>1 DEF EnvDone
  <2>5. QED
    BY <1>2, <2>1, <2>2, <2>3, <2>4
<1>9. CASE /\ at # 0 /\ ~ MentionsWrapper(Here[file]) /\ ExportOf(file) \in Here[file]
           /\ fs' = Put(file, WrapExport(Here[file]))
           /\ cmd' = [cmd EXCEPT !.pc = "env-local", !.undo = @ \cup {"next-config"}]
  <2>1. /\ at \in {1, 2} /\ Has(Here, file)
        /\ at = 2 => ~ Has(Here, "next.config.ts")
    BY <1>9, NamesAre, FirstOfIs
  <2>2. file \in Configs /\ (file = "next.config.js" => ~ Has(Here, "next.config.ts"))
    BY <2>1, NamesAre DEF Configs
  <2> HIDE DEF file, at
  <2> DEFINE now == With(Here, file, WrapExport(Here[file]))
  <2>3. /\ cmd'.undo = cmd.undo \cup {"next-config"}
        /\ cmd'.target = cmd.target /\ cmd'.saved = cmd.saved
    BY <1>4, <1>9 DEF Command
  <2>4. fs'[cmd'.root] = now
    BY <1>1, <1>4, <1>9 DEF Put, Here, TypeOK
  <2>5. DOMAIN now = DOMAIN Here \cup {file} /\ now[file] = WrapExport(Here[file])
    BY DEF With
  <2>6. \A n : n # file => SameAt(Here, now, n)
    BY WithSame
  <2> HIDE DEF now
  <2>7. file \notin Instrumentation /\ file # ".env.local"
    BY <2>2, NamesAre
  <2>8. InstrumentationDone(was, now)
    <3>1. \A n \in Instrumentation : SameAt(Here, now, n)
      BY <2>6, <2>7
    <3>2. QED
      BY <1>2, <3>1, SameRestored
  <2>9. InstrumentationDone(before[cmd.root], fs[cmd.root])'
    BY <1>7, <2>3, <2>4, <2>8 DEF InstrumentationDone
  <2>10. SameAt(was, Here, file) /\ Has(was, file) /\ was[file] = Here[file]
    BY <1>3, <2>1, <2>2 DEF SameAt
  <2>11. \A n \in Configs \ {file} : SameAt(was, now, n)
    BY <1>3, <2>6, SameTransitive
  <2>12. file = "next.config.js" => ~ Has(now, "next.config.ts")
    BY <2>2, <2>5 DEF Has
  <2>13. Has(now, file) /\ now[file] = WrapExport(was[file])
    BY <2>5, <2>10 DEF Has
  <2>14. ~ MentionsWrapper(was[file]) /\ ExportOf(file) \in was[file]
    BY <1>9, <2>10
  <2>15. ConfigDone(before[cmd.root], fs[cmd.root])'
    BY <1>7, <2>2, <2>3, <2>4, <2>10, <2>11, <2>12, <2>13, <2>14 DEF ConfigDone
  <2>16. EnvDone(before[cmd.root], fs[cmd.root])'
    <3>1. sdk.claim = "no" => SameAt(was, now, ".env.local")
      BY <1>3, <2>6, <2>7, SameTransitive
    <3>2. "env-local" \notin cmd'.undo
      BY <1>2, <2>3
    <3>3. QED
      BY <1>1, <1>7, <2>4, <3>1, <3>2 DEF EnvDone
  <2>17. QED
    BY <1>2, <2>3, <2>9, <2>15, <2>16
<1>10. QED
  BY <1>5, <1>8, <1>9

LEMMA EnvScaffolded ==
  ASSUME TypeOK, AllKept, Scaffolding, InitEnvLocal, cmd'.pc # "idle"
  PROVE  Scaffolding'
<1> DEFINE was == before[cmd.root]
           lines == EnvLinesOf(Here)
<1>1. /\ cmd.name = "init" /\ cmd.pc = "env-local" /\ cmd'.pc = "gitignore"
      /\ cmd'.root = cmd.root /\ cmd'.exit = cmd.exit /\ before' = before /\ sdk' = sdk
  BY ScaffoldGoes DEF Scaffolds, InitEnvLocal, At
<1>2. /\ cmd.undo \subseteq {"instrumentation", "next-config"} /\ cmd.exit = "none"
      /\ InstrumentationDone(was, Here) /\ ConfigDone(was, Here) /\ EnvDone(was, Here)
  BY <1>1 DEF Scaffolding, UndoOf, Here
<1>3. sdk.claim = "no" => SameAt(was, Here, ".env.local")
  BY <1>2 DEF EnvDone
<1>4. cmd \in Command /\ cmd.root \in Dir
  BY DEF TypeOK, Command, Sites, Dir
<1>5. \/ fs' = fs /\ Continue("gitignore")
      \/ /\ WithPlaceholder(lines) # lines
         /\ fs' = Put(".env.local", WithPlaceholder(lines))
         /\ cmd' = [cmd EXCEPT !.pc = "gitignore", !.undo = @ \cup {"env-local"}]
  <2>1. ~ Finish("rolled back")
    BY <1>1, <1>4, FinishGoes
  <2>2. QED
    BY <2>1 DEF InitEnvLocal, Scaffold, FailAndRollBack, SkipTo, EnvLinesOf
<1>6. SUFFICES /\ cmd'.undo \subseteq {"instrumentation", "next-config", "env-local"}
               /\ InstrumentationDone(before[cmd.root], fs[cmd.root])'
               /\ ConfigDone(before[cmd.root], fs[cmd.root])'
               /\ EnvDone(before[cmd.root], fs[cmd.root])'
  BY <1>1, <1>2 DEF Scaffolding, UndoOf
<1>7. before'[cmd'.root] = was
  BY <1>1
<1>8. CASE fs' = fs /\ Continue("gitignore")
  <2>1. /\ cmd'.undo = cmd.undo /\ cmd'.target = cmd.target /\ cmd'.saved = cmd.saved
        /\ fs'[cmd'.root] = Here
    BY <1>1, <1>2, <1>4, <1>8 DEF Continue, Command, Here
  <2>2. InstrumentationDone(before[cmd.root], fs[cmd.root])'
    BY <1>2, <1>7, <2>1 DEF InstrumentationDone
  <2>3. ConfigDone(before[cmd.root], fs[cmd.root])'
    BY <1>2, <1>7, <2>1 DEF ConfigDone
  <2>4. EnvDone(before[cmd.root], fs[cmd.root])'
    BY <1>1, <1>2, <1>3, <1>7, <2>1 DEF EnvDone
  <2>5. QED
    BY <1>2, <2>1, <2>2, <2>3, <2>4
<1>9. CASE /\ WithPlaceholder(lines) # lines
           /\ fs' = Put(".env.local", WithPlaceholder(lines))
           /\ cmd' = [cmd EXCEPT !.pc = "gitignore", !.undo = @ \cup {"env-local"}]
  <2>1. NoKeyLine(lines) /\ WithPlaceholder(lines) = Append(lines, Placeholder)
    BY <1>9 DEF WithPlaceholder, NoKeyLine
  <2>2. lines \in Seq(EnvLine)
    BY HereIs, EnvLinesTyped
  <2>3. sdk.claim = "no" => EnvLinesOf(was) = lines
    BY <1>3 DEF EnvLinesOf, SameAt
  <2> DEFINE text == WithPlaceholder(lines)
             now == With(Here, ".env.local", text)
  <2>4. text = Append(lines, Placeholder)
    BY <2>1
  <2>5. fs'[cmd'.root] = now
    BY <1>1, <1>4, <1>9 DEF Put, Here, TypeOK
  <2> HIDE DEF lines, text
  <2>6. Has(now, ".env.local") /\ now[".env.local"] = text
    BY DEF With, Has
  <2>7. \A n : n # ".env.local" => SameAt(Here, now, n)
    BY WithSame
  <2> HIDE DEF now
  <2>8. /\ cmd'.undo = cmd.undo \cup {"env-local"}
        /\ cmd'.target = cmd.target /\ cmd'.saved = cmd.saved
    BY <1>4, <1>9 DEF Command
  <2>9. InstrumentationDone(was, now) /\ ConfigDone(was, now)
    <3>1. \A n \in Instrumentation \cup Configs : SameAt(Here, now, n)
      BY <2>7, NamesAre
    <3>2. QED
      BY <1>2, <3>1, SameRestored, SameConfig
  <2>10. InstrumentationDone(before[cmd.root], fs[cmd.root])'
    BY <1>7, <2>5, <2>8, <2>9 DEF InstrumentationDone
  <2>11. ConfigDone(before[cmd.root], fs[cmd.root])'
    BY <1>7, <2>5, <2>8, <2>9 DEF ConfigDone
  <2>12. EnvDone(before[cmd.root], fs[cmd.root])'
    BY <1>1, <1>7, <2>1, <2>2, <2>3, <2>4, <2>5, <2>6, <2>8 DEF EnvDone
  <2>13. QED
    BY <1>2, <2>8, <2>10, <2>11, <2>12
<1>10. QED
  BY <1>5, <1>8, <1>9

\* What the running SDK does next to a scaffolding step: a key of its own, the
\* marker removed, or .env.local once it has claimed.
LEMMA SdkSame ==
  ASSUME TypeOK, AllKept, NEW d \in Dir, SdkStep
  PROVE  /\ \A n \in Instrumentation \cup Configs : SameAt(fs[d], fs'[d], n)
         /\ sdk'.claim = "no" => sdk.claim = "no" /\ SameAt(fs[d], fs'[d], ".env.local")
<1> DEFINE Others == {"anon_key", "shutdown-requested", "claimed-key", "mcp.json", "mcp-connected"}
<1>1. Others \cap (Instrumentation \cup Configs \cup {".env.local"}) = {}
  BY DEF Instrumentation, Configs
<1>2. ".env.local" \notin Instrumentation \cup Configs
  BY NamesAre
<1>3. ASSUME NEW dir, NEW name, NEW text, NEW n, n # name
      PROVE  SameAt(dir, With(dir, name, text), n) /\ SameAt(dir, Without(dir, {name}), n)
  BY <1>3, WithSame, WithoutSame
<1>4. "app" \in Dir /\ App = fs["app"]
  BY DEF Dir, App
<1>5. ASSUME NEW new, fs' = [fs EXCEPT !["app"] = new]
      PROVE  fs'[d] = IF d = "app" THEN new ELSE fs[d]
  BY <1>5, EditedIs, <1>4
<1>6. CASE fs' = fs
  <2>1. sdk'.claim = "no" => sdk.claim = "no"
    BY DEF SdkStep, SdkStarts, SdkSeesMarker, SdkReadsEnv, SdkWritesKey, SdkRefreshes, TypeOK
  <2>2. QED
    BY <1>6, <2>1, SameReflexive
<1>7. CASE SdkStarts /\ fs' # fs
  <2>1. sdk'.claim = sdk.claim /\ \E key : fs' = AppWith("anon_key", key)
    BY <1>7 DEF SdkStarts, TypeOK
  <2>2. PICK key : fs' = [fs EXCEPT !["app"] = With(@, "anon_key", key)]
    BY <2>1 DEF AppWith
  <2>3. fs'[d] = fs[d] \/ fs'[d] = With(fs[d], "anon_key", key)
    BY <1>5, <2>2 DEF TypeOK
  <2>4. \A n : n # "anon_key" => SameAt(fs[d], fs'[d], n)
    BY <1>3, <2>3, SameReflexive
  <2>5. QED
    BY <1>1, <2>1, <2>4
<1>8. CASE SdkSeesMarker
  <2>1. sdk'.claim = sdk.claim
        /\ fs' = [fs EXCEPT !["app"] = Without(@, {"shutdown-requested"})]
    BY <1>8 DEF SdkSeesMarker, TypeOK
  <2>2. fs'[d] = fs[d] \/ fs'[d] = Without(fs[d], {"shutdown-requested"})
    BY <1>5, <2>1 DEF TypeOK
  <2>3. \A n : n # "shutdown-requested" => SameAt(fs[d], fs'[d], n)
    BY <1>3, <2>2, SameReflexive
  <2>4. QED
    BY <1>1, <2>1, <2>3
<1>9. CASE SdkWritesKey
  <2>1. sdk'.claim # "no"
    BY <1>9 DEF SdkWritesKey, TypeOK
  <2>2. PICK name, text :
          /\ name \in {".env.local", "claimed-key"}
          /\ fs' = [fs EXCEPT !["app"] = With(@, name, text)]
    BY <1>9 DEF SdkWritesKey, AppWith
  <2>3. fs'[d] = fs[d] \/ fs'[d] = With(fs[d], name, text)
    BY <1>5, <2>2 DEF TypeOK
  <2>4. \A n : n # name => SameAt(fs[d], fs'[d], n)
    BY <1>3, <2>3, SameReflexive
  <2>5. QED
    BY <1>1, <1>2, <2>1, <2>2, <2>4
<1>10. CASE SdkRefreshes /\ fs' # fs
  <2>1. sdk'.claim # "no"
    BY <1>10 DEF SdkRefreshes, TypeOK
  <2>2. PICK text, credential :
          fs' = [fs EXCEPT !["app"] = With(With(@, "mcp.json", text), "mcp-connected", credential)]
    BY <1>10 DEF SdkRefreshes
  <2>3. fs'[d] = fs[d] \/ fs'[d] = With(With(fs[d], "mcp.json", text), "mcp-connected", credential)
    BY <1>5, <2>2 DEF TypeOK
  <2>4. \A n : n # "mcp.json" /\ n # "mcp-connected" => SameAt(fs[d], fs'[d], n)
    <3> DEFINE middle == With(fs[d], "mcp.json", text)
    <3>1. ASSUME NEW n, n # "mcp.json", n # "mcp-connected"
          PROVE  SameAt(fs[d], With(middle, "mcp-connected", credential), n)
      <4>1. SameAt(fs[d], middle, n)
        BY <1>3, <3>1
      <4>2. SameAt(middle, With(middle, "mcp-connected", credential), n)
        BY <1>3, <3>1
      <4>3. QED
        BY <4>1, <4>2, SameTransitive
    <3>2. QED
      BY <2>3, <3>1, SameReflexive
  <2>5. QED
    BY <1>1, <2>1, <2>4
<1>11. CASE SdkReadsEnv
  BY <1>6, <1>11 DEF SdkReadsEnv
<1>12. QED
  BY <1>6, <1>7, <1>8, <1>9, <1>10, <1>11 DEF SdkStep

LEMMA SdkScaffolding ==
  ASSUME TypeOK, AllKept, Scaffolding, SdkStep
  PROVE  Scaffolding'
<1>1. cmd' = cmd /\ before' = before
  BY DEF SdkStep, SdkStarts, SdkSeesMarker, SdkReadsEnv, SdkWritesKey, SdkRefreshes
<1>2. cmd.root \in Dir
  BY HereIs
<1>3. cmd'.pc # "idle" => cmd'.exit = "none"
  BY <1>1 DEF Scaffolding
<1>4. ASSUME cmd.name = "init", cmd.pc \in ScaffoldPcs
      PROVE  /\ cmd.undo \subseteq UndoOf(cmd.pc)
             /\ InstrumentationDone(before[cmd.root], fs'[cmd.root])
             /\ ConfigDone(before[cmd.root], fs'[cmd.root])
             /\ EnvDone(before[cmd.root], fs[cmd.root])'
  <2>1. /\ cmd.undo \subseteq UndoOf(cmd.pc)
        /\ InstrumentationDone(before[cmd.root], fs[cmd.root])
        /\ ConfigDone(before[cmd.root], fs[cmd.root])
        /\ EnvDone(before[cmd.root], fs[cmd.root])
    BY <1>4 DEF Scaffolding, ScaffoldPcs
  <2>2. /\ \A n \in Instrumentation \cup Configs : SameAt(fs[cmd.root], fs'[cmd.root], n)
        /\ sdk'.claim = "no" =>
             sdk.claim = "no" /\ SameAt(fs[cmd.root], fs'[cmd.root], ".env.local")
    BY <1>2, SdkSame
  <2>3. InstrumentationDone(before[cmd.root], fs'[cmd.root])
        /\ ConfigDone(before[cmd.root], fs'[cmd.root])
    BY <2>1, <2>2, SameRestored, SameConfig
  <2>4. EnvDone(before[cmd.root], fs[cmd.root])'
    <3> SUFFICES ASSUME sdk'.claim = "no"
                 PROVE  EnvDone(before[cmd.root], fs[cmd.root])'
      BY DEF EnvDone
    <3>1. sdk.claim = "no" /\ SameAt(fs[cmd.root], fs'[cmd.root], ".env.local")
      BY <2>2
    <3>2. CASE "env-local" \notin cmd.undo /\ SameAt(before[cmd.root], fs[cmd.root], ".env.local")
      <4>1. SameAt(before[cmd.root], fs'[cmd.root], ".env.local")
        BY <3>1, <3>2, SameTransitive
      <4>2. QED
        BY <1>1, <3>2, <4>1 DEF EnvDone
    <3>3. CASE /\ "env-local" \in cmd.undo
               /\ EnvLinesOf(before[cmd.root]) \in Seq(EnvLine)
               /\ NoKeyLine(EnvLinesOf(before[cmd.root]))
               /\ Has(fs[cmd.root], ".env.local")
               /\ fs[cmd.root][".env.local"] = Append(EnvLinesOf(before[cmd.root]), Placeholder)
      BY <1>1, <3>1, <3>3 DEF EnvDone, SameAt
    <3>4. QED
      BY <2>1, <3>1, <3>2, <3>3 DEF EnvDone
  <2>5. QED
    BY <2>1, <2>3, <2>4
<1>5. QED
  BY <1>1, <1>3, <1>4 DEF Scaffolding, ScaffoldPcs, InstrumentationDone, ConfigDone

LEMMA ScaffoldingStarts ==
  ASSUME TypeOK, Starts
  PROVE  Scaffolding'
<1>1. cmd' \in Command /\ cmd'.undo = {} /\ cmd'.exit = "none"
  BY StartsTyped DEF Starts
<1>2. before' = fs /\ fs' = fs
  BY StartsAre
<1>3. \A n : SameAt(before'[cmd'.root], fs'[cmd'.root], n)
  BY <1>2, SameReflexive
<1>4. QED
  BY <1>1, <1>3 DEF Scaffolding, InstrumentationDone, ConfigDone, EnvDone

LEMMA ScaffoldingStep ==
  ASSUME TypeOK, AllKept, Scaffolding, Claims, Staged, Next
  PROVE  Scaffolding'
<1>1. CASE Starts
  BY <1>1, ScaffoldingStarts
<1>2. CASE SdkStep
  BY <1>2, SdkScaffolding
<1>3. CASE cmd'.pc = "idle"
  BY <1>3 DEF Scaffolding
<1>4. CASE Scaffolds /\ cmd'.pc # "idle"
  <2>1. CASE InitGitignore
    BY <1>4, <2>1, ScaffoldGoes DEF Scaffolding
  <2>2. QED
    BY <1>4, <2>1, InstrumentationScaffolded, ConfigScaffolded, EnvScaffolded DEF Scaffolds
<1>5. CASE ~ Starts /\ ~ Scaffolds /\ ~ SdkStep /\ cmd'.pc # "idle"
  <2>1. CASE GoesOn(cmd')
    BY <2>1 DEF GoesOn, LatePcs, Scaffolding
  <2>2. CASE cmd'.pc = "windsurf" /\ cmd'.exit = cmd.exit /\ cmd.pc # "idle"
    BY <2>2 DEF Scaffolding
  <2>3. CASE cmd' = cmd /\ UserEditsWindsurf
    BY <2>3 DEF UserEditsWindsurf, Scaffolding
  <2>4. QED
    BY <1>5, <2>1, <2>2, <2>3, NextGoes DEF Goes
<1>6. QED
  BY <1>1, <1>2, <1>3, <1>4, <1>5

LEMMA InitSound == Init => CliInv
<1> SUFFICES ASSUME Init PROVE CliInv
  OBVIOUS
<1>1. PICK p \in Projects : site = p.site /\ fs = p.files
  BY DEF Init
<1>2. /\ cmd = Idle
      /\ sdk = [state |-> "absent", claim |-> "no", env |-> <<>>]
      /\ budget = [commands |-> 0, faults |-> 0, claims |-> 0, edits |-> 0, minted |-> {}]
      /\ original = fs /\ before = fs
  BY DEF Init
<1>3. /\ site \in Layout /\ fs = [d \in Dir |-> fs[d]]
      /\ \A d \in Dir : TypedFiles(fs[d])
      /\ \A d \in Dir : \A n \in InfoFiles : Has(fs[d], n) => SectionsWhole(fs[d][n])
  BY <1>1, ProjectsAssumption
<1>4. TypeOK
  <2>1. cmd \in Command
    BY <1>2, IdleTyped
  <2>2. <<>> \in Seq(EnvLine)
    OBVIOUS
  <2>3. sdk \in [state : {"absent", "running", "drained"},
                 claim : {"no", "read", "persisted", "done"}, env : Seq(EnvLine)]
    BY <1>2, <2>2
  <2>4. budget \in [commands : Nat, faults : Nat, claims : Nat, edits : Nat,
                    minted : SUBSET AnonKey]
    BY <1>2
  <2>5. QED
    BY <1>3, <2>1, <2>3, <2>4 DEF TypeOK
<1>5. AllKept
  <2>1. \A d \in Dir : DirSound(fs[d])
    BY <1>3, SoundFiles
  <2>2. \A dir : KeepsAll(dir, dir)
    BY KeepsReflexive DEF KeepsAll
  <2>3. QED
    BY <1>2, <2>1, <2>2 DEF AllKept
<1>6. Idle.pc = "idle"
  BY DEF Idle
<1>7. Scaffolding /\ Staged /\ Asked
  BY <1>2, <1>6 DEF Scaffolding, Staged, Asked
<1>8. Claims
  BY <1>2 DEF Claims
<1>9. QED
  BY <1>4, <1>5, <1>7, <1>8 DEF CliInv

LEMMA NextSound == CliInv /\ Next => CliInv'
BY TypeStep, AllKeptStep, ScaffoldingStep, ClaimsStep, StagedStep, AskedStep DEF CliInv

LEMMA StutterSound == CliInv /\ UNCHANGED vars => CliInv'
<1> SUFFICES ASSUME CliInv, UNCHANGED vars PROVE CliInv'
  OBVIOUS
<1>1. TypeOK'
  BY DEF CliInv, TypeOK, vars
<1>2. AllKept'
  BY DEF CliInv, AllKept, vars
<1>3. Scaffolding'
  BY DEF CliInv, Scaffolding, InstrumentationDone, ConfigDone, EnvDone, vars
<1>4. Claims' /\ Staged' /\ Asked'
  BY DEF CliInv, Claims, Staged, Asked, Here, vars
<1>5. QED
  BY <1>1, <1>2, <1>3, <1>4 DEF CliInv

\* The commands of the CLI keep their invariant.
THEOREM CliInvariant == Spec => []CliInv
<1>1. Init => CliInv
  BY InitSound
<1>2. CliInv /\ [Next]_vars => CliInv'
  BY NextSound, StutterSound
<1>3. QED
  BY <1>1, <1>2, PTL DEF Spec

\* No line the user wrote is lost.
THEOREM ProjectStaysSound == Spec => []ProjectSound
<1>1. CliInv => ProjectSound
  <2> SUFFICES ASSUME CliInv PROVE ProjectSound
    OBVIOUS
  <2>1. ASSUME NEW d \in Dir, NEW n \in DOMAIN original[d]
        PROVE  KeepsUserText(n, original[d][n], TextAt(fs[d], n))
    <3>1. TextAt(original[d], n) = original[d][n]
      BY DEF TextAt, Has
    <3>2. CASE n \in UserFiles
      BY <3>1, <3>2 DEF CliInv, AllKept, KeepsAll
    <3>3. CASE n \notin UserFiles
      BY <3>3 DEF UserFiles, KeepsUserText
    <3>4. QED
      BY <3>2, <3>3
  <2>2. QED
    BY <2>1 DEF CliInv, ProjectSound, UserTextKept
<1>2. QED
  BY <1>1, CliInvariant, PTL

-----------------------------------------------------------------------------
\* A failed init

LEMMA OnlyRollback ==
  ASSUME CliInv, Next, cmd.pc # "idle", cmd'.exit = "rolled back"
  PROVE  RollsBack
<1>1. cmd.exit = "none" /\ cmd \in Command
  BY DEF CliInv, Scaffolding, TypeOK
<1>2. ~ Starts
  BY StartsAre
<1>3. TypeOK /\ Staged
  BY DEF CliInv
<1>4. CASE Scaffolds
  <2>1. cmd.name = "init" /\ cmd.pc \in ScaffoldPcs
    BY <1>4 DEF Scaffolds, InitInstrumentation, InitNextConfig, InitEnvLocal, InitGitignore, At,
         ScaffoldPcs
  <2>2. CASE FailAndRollBack
    BY <2>1, <2>2 DEF RollsBack, ScaffoldPcs
  <2>3. CASE ~ FailAndRollBack
    <3>1. \/ Finish("conflict") \/ \E pc : Continue(pc)
          \/ \E name, existed :
               cmd' = [cmd EXCEPT !.pc = "next-config", !.undo = {"instrumentation"},
                                  !.target = name, !.saved = existed]
          \/ \E pc, step : cmd' = [cmd EXCEPT !.pc = pc, !.undo = @ \cup {step}]
      <4>1. CASE InitInstrumentation
        BY <2>3, <4>1 DEF InitInstrumentation, SkipTo
      <4>2. CASE InitNextConfig \/ InitEnvLocal \/ InitGitignore
        BY <2>3, <4>2 DEF InitNextConfig, InitEnvLocal, InitGitignore, Scaffold, SkipTo
      <4>3. QED
        BY <1>4, <4>1, <4>2 DEF Scaffolds
    <3>2. cmd'.exit \in {"conflict", cmd.exit}
      BY <1>1, <3>1 DEF Finish, Continue, Command
    <3>3. QED
      BY <1>1, <3>2
  <2>4. QED
    BY <2>2, <2>3
<1>5. CASE ~ Scaffolds
  BY <1>1, <1>2, <1>3, <1>5, NextGoes DEF Goes, GoesOn, Outcomes
<1>6. QED
  BY <1>4, <1>5

\* A failed init leaves the files as it found them, the cases apart that
\* RollbackMisses names, and .env.local once the SDK has written to it.
THEOREM FailedInitIsUndone == Spec => FailedInitRestores
<1>1. CliInv /\ [Next]_vars =>
        [cmd.pc # "idle" /\ cmd'.exit = "rolled back" =>
           \A n \in (Instrumentation \cup ToSet(NextConfigs) \cup {".env.local"}) :
             \/ /\ Has(fs'[cmd.root], n) <=> Has(before[cmd.root], n)
                /\ Has(before[cmd.root], n) => fs'[cmd.root][n] = before[cmd.root][n]
             \/ n = ".env.local" /\ sdk.claim # "no"
             \/ Has(before[cmd.root], n) /\ RollbackMisses(n, before[cmd.root][n])]_vars
  <2> SUFFICES ASSUME CliInv, Next, cmd.pc # "idle", cmd'.exit = "rolled back",
                      NEW n \in Instrumentation \cup ToSet(NextConfigs) \cup {".env.local"}
               PROVE  \/ /\ Has(fs'[cmd.root], n) <=> Has(before[cmd.root], n)
                         /\ Has(before[cmd.root], n) => fs'[cmd.root][n] = before[cmd.root][n]
                      \/ n = ".env.local" /\ sdk.claim # "no"
                      \/ Has(before[cmd.root], n) /\ RollbackMisses(n, before[cmd.root][n])
    OBVIOUS
  <2>1. n \in Instrumentation \cup Configs \cup {".env.local"}
    BY ConfigNames
  <2>2. Restored(before[cmd.root], fs'[cmd.root], n)
    BY <2>1, OnlyRollback, RollbackRestores DEF CliInv
  <2>3. QED
    BY <2>2 DEF Restored, SameAt
<1>2. QED
  BY <1>1, CliInvariant, PTL DEF Spec, FailedInitRestores

LEMMA NoKeyToLose ==
  ASSUME NEW env \in Seq(EnvLine), NoKeyLine(env)
  PROVE  ReadEnvLocalApiKey(Append(env, Placeholder)) = ""
<1>1. \A k \in DOMAIN env : ~ Assigns(env[k])
  BY DEF NoKeyLine, Assigns
<1>2. ReadEnvLocalApiKey(env) = ""
  BY <1>1, ReadIs
<1>3. Harmless(env, Append(env, Placeholder))
  BY LinesOf, AppendHarmless
<1>4. QED
  BY <1>2, <1>3 DEF Harmless

LEMMA RollbackKeepsKey ==
  ASSUME TypeOK, AllKept, Scaffolding, RollsBack, sdk.claim = "no", NEW d \in Dir,
         EnvKey(fs[d]) \in DevKey
  PROVE  EnvKey(fs'[d]) \in DevKey
<1>1. CASE "env-local" \notin cmd.undo
  BY <1>1, RollbackHeld
<1>2. CASE "env-local" \in cmd.undo
  <2>1. EnvDone(before[cmd.root], fs[cmd.root])
    BY DEF RollsBack, Scaffolding
  <2> DEFINE env == EnvLinesOf(before[cmd.root])
  <2>2. /\ env \in Seq(EnvLine) /\ NoKeyLine(env)
        /\ Has(fs[cmd.root], ".env.local")
        /\ fs[cmd.root][".env.local"] = Append(env, Placeholder)
    BY <1>2, <2>1 DEF EnvDone
  <2> HIDE DEF env
  <2>3. EnvKey(fs[cmd.root]) = ""
    BY <2>2, NoKeyToLose DEF EnvKey
  <2>4. d # cmd.root
    BY <2>3, KeysAssumption
  <2>5. PICK new : fs' = [fs EXCEPT ![cmd.root] = new]
    BY DEF RollsBack, FailAndRollBack
  <2>6. fs'[d] = fs[d]
    BY <2>4, <2>5, EditedIs, HereIs
  <2>7. QED
    BY <2>6
<1>3. QED
  BY <1>1, <1>2

LEMMA UninitKeepsKey ==
  ASSUME TypeOK, AllKept, UninitEnvLocal \/ UninitConfirmed, NEW d \in Dir,
         EnvKey(fs[d]) \in DevKey, EnvKey(fs'[d]) \notin DevKey
  PROVE  cmd.name = "uninit" /\ (cmd.force \/ cmd'.consent)
<1>1. fs' # fs
  OBVIOUS
<1>2. cmd.root \in Dir /\ Here = fs[cmd.root]
  BY HereIs
<1>3. CASE UninitEnvLocal
  <2> DEFINE kept == WithoutGlasstraceLines(Here[".env.local"])
             new == WithOrWithout(Here, ".env.local", kept, kept = <<>>)
             asks == IsDevApiKey(EnvKey(Here)) /\ ~ cmd.force
  <2>1. cmd.name = "uninit" /\ ~ asks /\ fs' = [fs EXCEPT ![cmd.root] = new]
    BY <1>1, <1>3 DEF UninitEnvLocal, At, Clean, CleanInPart, EnvWithUserLines, Cleaned
  <2> HIDE DEF new
  <2>2. d = cmd.root
    <3>1. d # cmd.root => fs'[d] = fs[d]
      BY <1>2, <2>1, EditedIs
    <3>2. QED
      BY <3>1
  <2>3. IsDevApiKey(EnvKey(Here))
    BY <1>2, <2>2 DEF IsDevApiKey
  <2>4. QED
    BY <2>1, <2>3
<1>4. CASE UninitConfirmed
  <2> DEFINE answered == [cmd EXCEPT !.pc = "gitignore", !.env = <<>>]
  <2>1. cmd.name = "uninit" /\ cmd' = [answered EXCEPT !.consent = TRUE]
    BY <1>1, <1>4 DEF UninitConfirmed, At
  <2>2. QED
    BY <2>1 DEF TypeOK, Command
<1>5. QED
  BY <1>3, <1>4

\* What one step does to the keys of one directory.
LEMMA KeysStep ==
  ASSUME CliInv, Next, NEW d \in Dir
  PROVE  /\ \A n \in {"anon_key", "claimed-key"} :
              Has(fs[d], n) /\ ~ Has(fs'[d], n) => cmd.name = "uninit" /\ cmd.pc = "directory"
         /\ EnvKey(fs[d]) \in DevKey /\ EnvKey(fs'[d]) \notin DevKey =>
              \/ cmd.name = "uninit" /\ (cmd.force \/ cmd'.consent)
              \/ cmd'.exit = "rolled back" /\ sdk.claim # "no"
<1>1. TypeOK /\ AllKept /\ Scaffolding /\ Claims /\ Asked
  BY DEF CliInv
<1>2. CASE DirsTame
  BY <1>2 DEF DirsTame, Tame, KeysKept
<1>3. CASE RollsBack
  <2>1. cmd'.exit = "rolled back"
    BY <1>1, <1>3, FinishGoes DEF RollsBack, FailAndRollBack, TypeOK
  <2>2. KeysKept(fs[d], fs'[d])
    BY <1>1, <1>3, RollbackHeld
  <2>3. QED
    BY <1>1, <1>3, <2>1, <2>2, RollbackKeepsKey DEF KeysKept
<1>4. CASE UninitDirectory
  <2>1. cmd.name = "uninit" /\ cmd.pc = "directory"
    BY <1>4 DEF UninitDirectory, At
  <2>2. EnvKey(fs'[d]) = EnvKey(fs[d])
    BY <1>1, <1>4, DirectoryStep
  <2>3. QED
    BY <2>1, <2>2
<1>5. CASE UninitEnvLocal \/ UninitConfirmed
  <2>1. KeysKept(fs[d], fs'[d])
    BY <1>1, <1>5, EnvCleanStep
  <2>2. QED
    BY <1>1, <1>5, <2>1, UninitKeepsKey DEF KeysKept
<1>6. CASE SdkWritesKey
  BY <1>1, <1>6, ClaimStep DEF KeysKept
<1>7. QED
  BY <1>1, <1>2, <1>3, <1>4, <1>5, <1>6, StepsAreTame

\* The keys on disk outlive every step but those of uninit that are meant to
\* take them.
THEOREM KeysSurvive == Spec => CredentialsSurvive
<1>1. CliInv /\ [Next]_vars =>
        [\A d \in Dir :
           /\ \A n \in {"anon_key", "claimed-key"} :
                Has(fs[d], n) /\ ~ Has(fs'[d], n) => cmd.name = "uninit" /\ cmd.pc = "directory"
           /\ EnvKey(fs[d]) \in DevKey /\ EnvKey(fs'[d]) \notin DevKey =>
                \/ cmd.name = "uninit" /\ (cmd.force \/ cmd'.consent)
                \/ cmd'.exit = "rolled back" /\ sdk.claim # "no"]_vars
  BY KeysStep
<1>2. QED
  BY <1>1, CliInvariant, PTL DEF Spec, CredentialsSurvive

-----------------------------------------------------------------------------
\* upgrade-instructions

LEMMA OptIns ==
  ASSUME NEW a \in Dispatched
  PROVE  /\ OptInFiles(a) \subseteq TargetsOf(a) \cup {"codex.md", ".windsurfrules"}
         /\ TargetsOf(a) \ {"AGENTS.md"} \subseteq OptInFiles(a)
         /\ "AGENTS.md" \in OptInFiles(a) => TargetsOf(a) = {"AGENTS.md"}
         /\ "AGENTS.md" \in TargetsOf(a) /\ OptInFiles(a) \subseteq InfoFiles
         /\ TargetsOf(a) \cap {"codex.md", ".windsurfrules"} = {}
<1>1. a \in {"claude", "codex", "gemini", "cursor", "windsurf", "generic"}
  BY AgentAssumption DEF Dispatched
<1>2. CASE a = "claude"
  BY <1>2 DEF OptInFiles, TargetsOf, InfoFiles
<1>3. CASE a = "gemini"
  BY <1>3 DEF OptInFiles, TargetsOf, InfoFiles
<1>4. CASE a = "codex"
  BY <1>4 DEF OptInFiles, TargetsOf, InfoFiles
<1>5. CASE a = "cursor"
  BY <1>5 DEF OptInFiles, TargetsOf, InfoFiles
<1>6. CASE a = "windsurf"
  BY <1>6 DEF OptInFiles, TargetsOf, InfoFiles
<1>7. CASE a = "generic"
  BY <1>7 DEF OptInFiles, TargetsOf, InfoFiles
<1>8. QED
  BY <1>1, <1>2, <1>3, <1>4, <1>5, <1>6, <1>7

\* Where a file is one agent's target and the opt-in of another, it is AGENTS.md.
LEMMA OptInsApart ==
  ASSUME NEW a \in Dispatched, NEW b \in Dispatched, a # b,
         NEW n \in OptInFiles(a) \cap TargetsOf(b)
  PROVE  n = "AGENTS.md"
<1> DEFINE Known == {"claude", "codex", "gemini", "cursor", "windsurf", "generic"}
<1>1. a \in Known /\ b \in Known
  BY AgentAssumption DEF Dispatched
<1>2. n \in TargetsOf(b) \ {"AGENTS.md"} =>
        /\ b = "claude" => n = "CLAUDE.md"
        /\ b = "gemini" => n = "GEMINI.md"
        /\ b = "cursor" => n \in {"glasstrace.mdc", ".cursorrules"}
        /\ b = "windsurf" => n = "glasstrace.md"
        /\ b \in {"claude", "gemini", "cursor", "windsurf"}
  <2>1. CASE b \in {"codex", "generic"}
    BY <2>1 DEF TargetsOf
  <2>2. CASE b = "claude"
    BY <2>2 DEF TargetsOf
  <2>3. CASE b = "gemini"
    BY <2>3 DEF TargetsOf
  <2>4. CASE b = "cursor"
    BY <2>4 DEF TargetsOf
  <2>5. CASE b = "windsurf"
    BY <2>5 DEF TargetsOf
  <2>6. QED
    BY <1>1, <2>1, <2>2, <2>3, <2>4, <2>5
<1>3. /\ a = "claude" => n = "CLAUDE.md"
      /\ a = "gemini" => n = "GEMINI.md"
      /\ a = "codex" => n \in {"AGENTS.md", "codex.md"}
      /\ a = "cursor" => n \in {"glasstrace.mdc", ".cursorrules"}
      /\ a = "windsurf" => n \in {"glasstrace.md", ".windsurfrules"}
      /\ a = "generic" => n = "AGENTS.md"
  BY DEF OptInFiles
<1>4. QED
  BY <1>1, <1>2, <1>3

LEMMA FoundIs ==
  ASSUME NEW root \in Dir, NEW a
  PROVE  /\ FoundDir(site, root, a) \in Dir \cup {"none"}
         /\ FoundDir(site, root, "generic") = root
<1> DEFINE dirs == SearchDirs(root)
           I(b) == {i \in 1 .. Len(dirs) : b = "generic" \/ dirs[i] \in site.at[b]}
<1>1. /\ Len(dirs) \in {1, 2} /\ \A i \in 1 .. Len(dirs) : dirs[i] \in Dir
      /\ dirs[1] = root
  BY DEF SearchDirs, Dir
<1>2. ASSUME NEW b
      PROVE  FoundDir(site, root, b) =
               IF FirstIn(I(b)) = 0 THEN "none" ELSE dirs[FirstIn(I(b))]
  BY DEF FoundDir, SelectInSeq, FirstIn
<1>3. \A b : I(b) \in SUBSET (1 .. Len(dirs))
  OBVIOUS
<1>4. 1 \in I("generic")
  BY <1>1
<1> HIDE DEF I, dirs
<1>5. ASSUME NEW b PROVE I(b) \in SUBSET (1 .. 2)
  BY <1>1, <1>3
<1>6. ASSUME NEW b
      PROVE  /\ FirstIn(I(b)) # 0 => FirstIn(I(b)) \in 1 .. Len(dirs)
             /\ 1 \in I(b) => FirstIn(I(b)) = 1
  BY <1>3, <1>5, FirstIs
<1>7. FoundDir(site, root, a) \in Dir \cup {"none"}
  <2>1. FirstIn(I(a)) # 0 => dirs[FirstIn(I(a))] \in Dir
    BY <1>1, <1>6
  <2>2. QED
    BY <1>2, <2>1
<1>8. FoundDir(site, root, "generic") = root
  <2>1. FirstIn(I("generic")) = 1
    BY <1>4, <1>6
  <2>2. QED
    BY <1>1, <1>2, <2>1
<1>9. QED
  BY <1>7, <1>8

LEMMA InjectedUpToDate ==
  ASSUME NEW files, NEW targets, NEW d \in Dir, DirSound(files[d]),
         NEW n \in Targeted(targets, d)
  PROVE  LET text == InjectAllTargets(files, targets)[d][n]
         IN /\ text \in Seq(InfoLine) /\ SectionsWhole(text) /\ UpToDate(text)
            /\ HasManagedSection(text) /\ WithManagedSection(text) = text
<1> DEFINE new == InjectAllTargets(files, targets)[d]
           dir == files[d]
           text == new[n]
<1>1. /\ n \in InfoFiles
      /\ text = IF Has(dir, n) THEN WithManagedSection(dir[n]) ELSE CreatedInfoFile(n)
  BY InjectedIs
<1> HIDE DEF text, dir
<1>2. text \in Seq(InfoLine) /\ SectionsWhole(text) /\ UpToDate(text)
  <2>1. CASE Has(dir, n)
    <3>1. dir[n] \in Seq(InfoLine) /\ SectionsWhole(dir[n])
      BY <1>1, <2>1 DEF DirSound, FileSound, Has, dir
    <3>2. InfoSound(dir[n], WithManagedSection(dir[n])) /\ UpToDate(WithManagedSection(dir[n]))
      BY <3>1, ManagedSound
    <3>3. QED
      BY <1>1, <2>1, <3>2 DEF InfoSound
  <2>2. CASE ~ Has(dir, n)
    BY <1>1, <2>2, CreatedSound DEF InfoSound
  <2>3. QED
    BY <2>1, <2>2
<1>3. WithManagedSection(text) = text /\ HasManagedSection(text)
  BY <1>2, ManagedTwice
<1>4. QED
  BY <1>2, <1>3 DEF text

LEMMA OptedInIs ==
  ASSUME NEW files, NEW root, NEW a
  PROVE  a \in OptedIn(site, files, root) <=>
           /\ a \in DetectedAgents(site, root) \cup {"generic"}
           /\ \E n \in OptInFiles(a) : /\ Has(files[FoundDir(site, root, a)], n)
                                       /\ HasManagedSection(files[FoundDir(site, root, a)][n])
BY DEF OptedIn

LEMMA DetectedIn ==
  ASSUME NEW root \in Dir, NEW a \in DetectedAgents(site, root) \cup {"generic"}
  PROVE  a \in Dispatched /\ FoundDir(site, root, a) \in Dir
<1>1. a = "generic" \/ FoundDir(site, root, a) # "none"
  BY DEF DetectedAgents
<1>2. root # "none"
  BY DEF Dir
<1>3. FoundDir(site, root, a) # "none"
  BY <1>1, <1>2, FoundIs
<1>4. QED
  BY <1>3, FoundIs, DetectedTyped

LEMMA InTargets ==
  ASSUME NEW root, NEW agents
  PROVE  /\ \A d, n : <<d, n>> \in Targets(site, root, agents) <=>
                        \E a \in agents : FoundDir(site, root, a) = d /\ n \in TargetsOf(a)
         /\ \A t \in Targets(site, root, agents) : t = <<t[1], t[2]>>
<1>1. ASSUME NEW t
      PROVE  t \in Targets(site, root, agents) <=>
               \E a \in agents : t \in {FoundDir(site, root, a)} \X TargetsOf(a)
  BY DEF Targets
<1>2. QED
  BY <1>1

\* The agents opted in after an upgrade have the targets of those before it,
\* whichever of them were written.
LEMMA SameTargets ==
  ASSUME NEW files, NEW root \in Dir, \A d \in Dir : DirSound(files[d]),
         NEW agents, agents = OptedIn(site, files, root),
         NEW written, written \subseteq Targets(site, root, agents),
         NEW new, new = InjectAllTargets(files, written)
  PROVE  Targets(site, root, OptedIn(site, new, root)) = Targets(site, root, agents)
<1> DEFINE later == OptedIn(site, new, root)
           targets == Targets(site, root, agents)
           names(d) == Targeted(written, d)
<1>1. ASSUME NEW d \in Dir
      PROVE  /\ DOMAIN new[d] = DOMAIN files[d] \cup names(d)
             /\ \A n \in DOMAIN files[d] \ names(d) : new[d][n] = files[d][n]
  BY InjectedIs
<1>2. ASSUME NEW d \in Dir, NEW n \in names(d) PROVE HasManagedSection(new[d][n])
  BY InjectedUpToDate
<1>3. ASSUME NEW d \in Dir, NEW n \in names(d) PROVE <<d, n>> \in targets
  BY DEF Targeted
<1>4. ASSUME NEW a \in agents PROVE a \in later
  <2> DEFINE d == FoundDir(site, root, a)
  <2>1. a \in DetectedAgents(site, root) \cup {"generic"} /\ d \in Dir
    BY OptedInIs, DetectedIn
  <2>2. PICK n \in OptInFiles(a) : Has(files[d], n) /\ HasManagedSection(files[d][n])
    BY OptedInIs
  <2> HIDE DEF d, names
  <2>3. Has(new[d], n) /\ HasManagedSection(new[d][n])
    BY <1>1, <1>2, <2>1, <2>2 DEF Has
  <2> USE DEF d
  <2>4. QED
    BY <2>1, <2>3, OptedInIs
<1>5. ASSUME NEW b \in later, NEW n \in TargetsOf(b)
      PROVE  <<FoundDir(site, root, b), n>> \in targets
  <2> DEFINE d == FoundDir(site, root, b)
  <2>1. b \in DetectedAgents(site, root) \cup {"generic"} /\ b \in Dispatched /\ d \in Dir
    BY OptedInIs, DetectedIn
  <2>2. PICK m \in OptInFiles(b) : Has(new[d], m) /\ HasManagedSection(new[d][m])
    BY OptedInIs
  <2>3. CASE m \notin names(d)
    <3>1. Has(files[d], m) /\ HasManagedSection(files[d][m])
      BY <1>1, <2>1, <2>2, <2>3 DEF Has
    <3>2. b \in agents
      BY <2>1, <3>1, OptedInIs
    <3>3. QED
      BY <3>2, InTargets
  <2>4. CASE m \in names(d)
    <3>1. <<d, m>> \in targets
      BY <1>3, <2>1, <2>4
    <3>2. PICK c \in agents : FoundDir(site, root, c) = d /\ m \in TargetsOf(c)
      BY <3>1, InTargets
    <3>3. c \in Dispatched
      BY OptedInIs, DetectedIn
    <3>4. CASE c = b
      BY <3>2, <3>4, InTargets
    <3>5. CASE c # b
      <4>1. m = "AGENTS.md"
        BY <2>1, <3>2, <3>3, <3>5, OptInsApart
      <4>2. n = m
        BY <2>1, <2>2, <4>1, OptIns
      <4>3. QED
        BY <3>1, <4>2
    <3>6. QED
      BY <3>4, <3>5
  <2>5. QED
    BY <2>3, <2>4
<1> HIDE DEF names, later
<1>6. targets \subseteq Targets(site, root, later)
  <2>1. ASSUME NEW t \in targets PROVE t \in Targets(site, root, later)
    <3>1. t = <<t[1], t[2]>> /\ <<t[1], t[2]>> \in targets
      BY InTargets
    <3>2. PICK a \in agents : FoundDir(site, root, a) = t[1] /\ t[2] \in TargetsOf(a)
      BY <3>1, InTargets
    <3>3. <<t[1], t[2]>> \in Targets(site, root, later)
      BY <1>4, <3>2, InTargets
    <3>4. QED
      BY <3>1, <3>3
  <2>2. QED
    BY <2>1
<1>7. Targets(site, root, later) \subseteq targets
  <2>1. ASSUME NEW t \in Targets(site, root, later) PROVE t \in targets
    <3>1. t = <<t[1], t[2]>> /\ <<t[1], t[2]>> \in Targets(site, root, later)
      BY InTargets
    <3>2. PICK b \in later : FoundDir(site, root, b) = t[1] /\ t[2] \in TargetsOf(b)
      BY <3>1, InTargets
    <3>3. <<t[1], t[2]>> \in targets
      BY <1>5, <3>2
    <3>4. QED
      BY <3>1, <3>3
  <2>2. QED
    BY <2>1
<1>8. QED
  BY <1>6, <1>7 DEF later

LEMMA InjectedFunction ==
  ASSUME NEW files, NEW targets, NEW d \in Dir, NEW dir,
         dir = InjectAllTargets(files, targets)[d]
  PROVE  dir = [n \in DOMAIN dir |-> dir[n]]
<1> DEFINE names == {n \in InfoFiles : <<d, n>> \in targets}
           text(n) == CASE n \notin names -> files[d][n]
                        [] n \in names /\ Has(files[d], n) -> WithManagedSection(files[d][n])
                        [] n \in names /\ ~ Has(files[d], n) -> CreatedInfoFile(n)
<1>1. dir = [n \in DOMAIN files[d] \cup names |-> text(n)]
  BY DEF InjectAllTargets
<1> HIDE DEF names, text
<1>2. QED
  BY <1>1

\* Where some of the targets are written already, writing all of them comes to
\* the same.
LEMMA InjectedAgain ==
  ASSUME NEW files, \A d \in Dir : DirSound(files[d]),
         NEW targets, NEW written \in SUBSET targets
  PROVE  InjectAllTargets(InjectAllTargets(files, written), targets) = InjectAllTargets(files, targets)
<1> DEFINE new == InjectAllTargets(files, written)
           again == InjectAllTargets(new, targets)
           once == InjectAllTargets(files, targets)
<1>1. once = [d \in Dir |-> once[d]] /\ again = [d \in Dir |-> again[d]]
  BY DEF InjectAllTargets
<1>2. ASSUME NEW d \in Dir PROVE again[d] = once[d]
  <2> DEFINE names == Targeted(targets, d)
             some == Targeted(written, d)
             text(dir, n) == IF Has(dir, n) THEN WithManagedSection(dir[n]) ELSE CreatedInfoFile(n)
  <2>1. /\ DOMAIN new[d] = DOMAIN files[d] \cup some
        /\ \A n \in DOMAIN files[d] \ some : new[d][n] = files[d][n]
        /\ \A n \in some : new[d][n] = text(files[d], n)
    BY InjectedIs
  <2>2. /\ DOMAIN again[d] = DOMAIN new[d] \cup names
        /\ \A n \in DOMAIN new[d] \ names : again[d][n] = new[d][n]
        /\ \A n \in names : again[d][n] = text(new[d], n)
    BY InjectedIs
  <2>3. /\ DOMAIN once[d] = DOMAIN files[d] \cup names
        /\ \A n \in DOMAIN files[d] \ names : once[d][n] = files[d][n]
        /\ \A n \in names : once[d][n] = text(files[d], n)
    BY InjectedIs
  <2>4. \A n \in some : WithManagedSection(new[d][n]) = new[d][n]
    BY InjectedUpToDate
  <2>5. some \subseteq names
    BY DEF Targeted
  <2>6. /\ again[d] = [n \in DOMAIN again[d] |-> again[d][n]]
        /\ once[d] = [n \in DOMAIN once[d] |-> once[d][n]]
    BY InjectedFunction
  <2> HIDE DEF names, some, again, once, new
  <2>7. DOMAIN again[d] = DOMAIN once[d]
    BY <2>1, <2>2, <2>3, <2>5
  <2>8. ASSUME NEW n \in DOMAIN once[d] PROVE again[d][n] = once[d][n]
    <3>1. CASE n \in some
      BY <2>1, <2>2, <2>3, <2>4, <2>5, <3>1 DEF Has
    <3>2. CASE n \in names \ some
      BY <2>1, <2>2, <2>3, <3>2 DEF Has
    <3>3. CASE n \notin names
      BY <2>1, <2>2, <2>3, <2>5, <3>3
    <3>4. QED
      BY <3>1, <3>2, <3>3
  <2>9. QED
    BY <2>6, <2>7, <2>8
<1> HIDE DEF again, once
<1>3. again = once
  BY <1>1, <1>2
<1>4. QED
  BY <1>3 DEF again, once

LEMMA NotOlder == ~ OlderThan(RunningVersion, RunningVersion)
<1> DEFINE numbers == Numbers(<<1, 12, 0>>)
<1>1. RunningVersion = [numbers |-> numbers, prerelease |-> <<>>]
  <2>1. Numbers(<<>>) = <<>>
    BY DEF Numbers
  <2>2. QED
    BY <2>1 DEF RunningVersion, Version
<1>2. ~ Precedes(numbers, numbers)
  <2>1. /\ DOMAIN numbers = {1, 2, 3}
        /\ numbers[1] = <<0, 1>> /\ numbers[2] = <<0, 12>> /\ numbers[3] = <<0, 0>>
    <3>1. DOMAIN <<1, 12, 0>> = {1, 2, 3}
      OBVIOUS
    <3>2. QED
      BY <3>1 DEF Numbers
  <2> HIDE DEF numbers
  <2>2. \A k \in {1, 2, 3} : ~ Before(numbers[k], numbers[k])
    <3>1. /\ ~ Before(<<0, 1>>, <<0, 1>>) /\ ~ Before(<<0, 12>>, <<0, 12>>)
          /\ ~ Before(<<0, 0>>, <<0, 0>>)
      BY DEF Before
    <3>2. QED
      BY <2>1, <3>1
  <2>3. QED
    BY <2>1, <2>2 DEF Precedes
<1> HIDE DEF numbers
<1>3. RunningVersion.numbers = numbers /\ RunningVersion.prerelease = <<>>
  BY <1>1
<1>4. QED
  BY <1>2, <1>3 DEF OlderThan

LEMMA CurrentNotStale ==
  ASSUME NEW lines \in Seq(InfoLine), SectionsWhole(lines), UpToDate(lines)
  PROVE  InspectFile(lines) # "stale"
<1>1. PICK e \in Nat : EndsAt(lines, e) /\ lines[e - 2] = "start v=cur"
  BY DEF UpToDate
<1>2. PICK e2 \in Nat : EndsAt(lines, e2) /\ FindMarkerBoundaries(lines) = <<e2 - 2, e2>>
  BY ManagedTwice, SectionManaged
<1>3. e = e2
  BY <1>1, <1>2, EndUnique
<1> DEFINE b == FindMarkerBoundaries(lines)
<1>4. b[1] = e - 2 /\ b # <<0, 0>>
  <2>1. b = <<e - 2, e>>
    BY <1>2, <1>3
  <2>2. e > 2
    BY <1>1 DEF EndsAt
  <2> HIDE DEF b
  <2>3. e # 0 /\ b[1] = e - 2 /\ b[2] = e
    BY <2>1, <2>2
  <2>4. QED
    BY <2>3
<1>5. StampOf(lines[b[1]]) = <<RunningVersion>>
  BY <1>1, <1>4 DEF StampOf
<1>6. <<RunningVersion>> # <<>> /\ <<RunningVersion>>[1] = RunningVersion
  OBVIOUS
<1> HIDE DEF b
<1>7. InspectFile(lines) = "current"
  BY <1>4, <1>5, <1>6, NotOlder DEF InspectFile, b
<1>8. QED
  BY <1>7

LEMMA StaleManaged ==
  ASSUME NEW lines, InspectFile(lines) = "stale"
  PROVE  HasManagedSection(lines)
BY DEF InspectFile, HasManagedSection

LEMMA NoStaleLeft ==
  ASSUME NEW files, NEW root \in Dir, \A d \in Dir : DirSound(files[d]),
         NEW new, new = InjectAllTargets(files, Targets(site, root, OptedIn(site, files, root)))
  PROVE  StaleFiles(new[root]) \subseteq NoticeStays(root)
<1> DEFINE agents == OptedIn(site, files, root)
           names == Targeted(Targets(site, root, agents), root)
<1> SUFFICES ASSUME NEW n \in StaleFiles(new[root]), n \notin NoticeStays(root)
             PROVE  FALSE
  OBVIOUS
<1>1. n \in InfoFiles /\ n \in DOMAIN new[root] /\ InspectFile(new[root][n]) = "stale"
  BY DEF StaleFiles
<1>2. n \notin {"codex.md", ".windsurfrules"}
  BY DEF NoticeStays
<1>3. PICK a \in DetectedAgents(site, root) \cup {"generic"} :
        FoundDir(site, root, a) = root /\ n \in TargetsOf(a)
  BY <1>1 DEF NoticeStays
<1>4. a \in Dispatched /\ "generic" \in Dispatched
  BY DetectedIn DEF Dispatched
<1>5. n \notin names
  <2>1. ASSUME n \in names PROVE FALSE
    <3>1. /\ new[root][n] \in Seq(InfoLine) /\ SectionsWhole(new[root][n])
          /\ UpToDate(new[root][n])
      BY <2>1, InjectedUpToDate
    <3>2. QED
      BY <1>1, <3>1, CurrentNotStale
  <2>2. QED
    BY <2>1
<1>6. n \in DOMAIN files[root] /\ new[root][n] = files[root][n]
  BY <1>1, <1>5, InjectedIs
<1>7. HasManagedSection(files[root][n]) /\ Has(files[root], n)
  BY <1>1, <1>6, StaleManaged DEF Has
<1>8. CASE n = "AGENTS.md"
  <2>1. "generic" \in agents
    <3>1. "AGENTS.md" \in OptInFiles("generic")
      BY DEF OptInFiles
    <3>2. FoundDir(site, root, "generic") = root
      BY FoundIs
    <3>3. QED
      BY <1>7, <1>8, <3>1, <3>2, OptedInIs
  <2>2. "AGENTS.md" \in TargetsOf("generic") /\ FoundDir(site, root, "generic") = root
    BY <1>4, OptIns, FoundIs
  <2>3. n \in names
    BY <1>1, <1>8, <2>1, <2>2, InTargets DEF Targeted
  <2>4. QED
    BY <1>5, <2>3
<1>9. CASE n # "AGENTS.md"
  <2>1. n \in OptInFiles(a)
    BY <1>3, <1>4, <1>9, OptIns
  <2>2. a \in agents
    BY <1>3, <1>7, <2>1, OptedInIs
  <2>3. n \in names
    BY <1>1, <1>3, <2>2, InTargets DEF Targeted
  <2>4. QED
    BY <1>5, <2>3
<1>10. QED
  BY <1>8, <1>9

LEMMA OnlyUpgrade ==
  ASSUME CliInv, Next, At("upgrade", "upgrade"), cmd'.exit = "done"
  PROVE  UpgradeAll
<1>1. cmd.exit = "none" /\ cmd \in Command /\ cmd.name = "upgrade" /\ cmd.pc = "upgrade"
  BY DEF CliInv, Scaffolding, TypeOK, At
<1>2. ~ Starts /\ ~ UninitStep
  BY <1>1, StartsAre DEF UninitStep, Starts, UninitMarker, UninitNextConfig,
     UninitInstrumentation, UninitDirectory, UninitDiscovery, UninitEnvLocal, UninitConfirmed,
     UninitGitignore, UninitMcp, UninitInfo, UninitExit, At
<1>3. ~ InitStep
  BY <1>1, <1>2 DEF InitStep, Starts, InitInstrumentation, InitNextConfig, InitEnvLocal,
     InitGitignore, InitAnonKey, InitDiscovery, InitCi, InitCoverage, InitVerify, InitAgent, At
<1>4. ~ McpStep
  BY <1>1, <1>2 DEF McpStep, Starts, McpAddResolve, McpAddAgent, AgentsDone, WindsurfStage,
     WindsurfReplace, Inject, UpdateGitignore, WriteMcpMarker, At
<1>5. ~ SdkStep /\ ~ UserEditsWindsurf
  BY <1>1 DEF SdkStep, SdkStarts, SdkSeesMarker, SdkReadsEnv, SdkWritesKey, SdkRefreshes,
     UserEditsWindsurf
<1>6. ~ Killed
  BY <1>1, FinishGoes DEF Killed
<1>7. QED
  BY <1>2, <1>3, <1>4, <1>5, <1>6 DEF Next, Starts

\* What upgrade-instructions could not write, the next run writes as this one
\* would have, and no stale file is left then but those it does not write; after
\* a run that wrote everything there is nothing to do.
THEOREM UpgradeIsIdempotent == Spec => UpgradeSettles
<1>1. CliInv /\ [Next]_vars =>
        [At("upgrade", "upgrade") /\ cmd'.exit = "done" =>
           /\ Refreshed(fs') = Refreshed(fs)
           /\ StaleFiles(Refreshed(fs')[cmd.root]) \subseteq NoticeStays(cmd.root)
           /\ budget' = budget => fs' = Refreshed(fs')]_vars
  <2> SUFFICES ASSUME CliInv, Next, At("upgrade", "upgrade"), cmd'.exit = "done"
               PROVE  /\ Refreshed(fs') = Refreshed(fs)
                      /\ StaleFiles(Refreshed(fs')[cmd.root]) \subseteq NoticeStays(cmd.root)
                      /\ budget' = budget => fs' = Refreshed(fs')
    OBVIOUS
  <2> DEFINE agents == OptedIn(site, fs, cmd.root)
             targets == Targets(site, cmd.root, agents)
  <2>1. InjectInto(targets)
    <3>1. cmd \in Command /\ UpgradeAll
      BY OnlyUpgrade DEF CliInv, TypeOK
    <3>2. ~ Finish("failed")
      BY <3>1, FinishGoes
    <3>3. QED
      BY <3>1, <3>2 DEF UpgradeAll
  <2>2. PICK written \in SUBSET targets :
          /\ fs' = InjectAllTargets(fs, written)
          /\ IF written = targets THEN UNCHANGED budget ELSE Fails
    BY <2>1 DEF InjectInto
  <2>3. cmd.root \in Dir /\ \A d \in Dir : DirSound(fs[d])
    BY HereIs DEF CliInv, AllKept
  <2> HIDE DEF targets
  <2>4. Targets(site, cmd.root, OptedIn(site, fs', cmd.root)) = targets
    BY <2>2, <2>3, SameTargets DEF targets
  <2>5. Refreshed(fs) = InjectAllTargets(fs, targets)
    BY DEF Refreshed, targets
  <2>6. Refreshed(fs') = InjectAllTargets(fs', targets)
    BY <2>4 DEF Refreshed
  <2>7. Refreshed(fs') = Refreshed(fs)
    BY <2>2, <2>3, <2>5, <2>6, InjectedAgain
  <2>8. StaleFiles(Refreshed(fs)[cmd.root]) \subseteq NoticeStays(cmd.root)
    BY <2>3, NoStaleLeft DEF Refreshed
  <2>9. ASSUME budget' = budget PROVE fs' = Refreshed(fs')
    <3>1. budget.faults \in Nat /\ budget = [budget EXCEPT !.faults = @] /\ "faults" \in DOMAIN budget
      BY DEF CliInv, TypeOK
    <3>2. ~ Fails
      BY <2>9, <3>1 DEF Fails
    <3>3. QED
      BY <2>2, <2>5, <2>7, <3>2
  <2>10. QED
    BY <2>7, <2>8, <2>9
<1>2. QED
  BY <1>1, CliInvariant, PTL DEF Spec, UpgradeSettles

-----------------------------------------------------------------------------
\* What uninit gives back

\* Nothing failed, and the SDK has not run.
Quiet == budget.faults = 0 /\ sdk.state = "absent" /\ sdk.claim = "no"

OursAlone == GlasstraceFiles \cup {"public", "static"}
NoAssignment(env) == \A k \in DOMAIN env : ~ Assigns(env[k])

\* A text the commands have made of the user's `was`, and uninit undoes.
Edited(n, was, text, alone) ==
  /\ n = "instrumentation.ts" => text \in {was, was \cup {"import", "call"}}
  /\ n \in Configs =>
       \/ text = was
       \/ /\ text = WrapExport(was) /\ ~ MentionsWrapper(was) /\ ExportOf(n) \in was
          /\ n = "next.config.js" => alone
  /\ n = ".env.local" => LinesNamed(text, {"user"}) = was /\ NoAssignment(text)
  /\ n = ".gitignore" => text \ GitignoreEntries = was
  /\ n \in InfoFiles => text \in {was, was \o Section}
  /\ n \notin Instrumentation \cup Configs \cup InfoFiles \cup {".env.local", ".gitignore"} =>
       text = was

\* A text the commands have made where there was none.
Added(n, text) ==
  /\ n \in Instrumentation \cup InfoFiles \cup OursAlone \cup AgentConfigs \cup {".env.local", ".gitignore"}
  /\ n = "instrumentation.ts" => text = {"import", "register", "call"}
  /\ n = ".env.local" => LinesNamed(text, {"user"}) = <<>> /\ NoAssignment(text)
  /\ n = ".gitignore" => text \ GitignoreEntries = {}
  /\ n \in InfoFiles => text = Section \/ n = "glasstrace.mdc"
  /\ n \in AgentConfigs => text \in McpText /\ text.json /\ ~ text.other /\ text.entry # "none"

\* File n of a directory, against the directory of the start.
Undoable(n, was, now) ==
  /\ Has(was, n) /\ ~ UninitMisses(n, was[n]) =>
       Has(now, n) /\ Edited(n, was[n], now[n], ~ Has(now, "next.config.ts"))
  /\ ~ Has(was, n) /\ Has(now, n) => Added(n, now[n])
  /\ n \in Configs => (Has(now, n) <=> Has(was, n))

AllUndoable(was, now) == \A n : Undoable(n, was, now)

\* As uninit leaves it.
Undone(n, was, now) ==
  /\ Has(was, n) /\ ~ UninitMisses(n, was[n]) => Has(now, n) /\ now[n] = was[n]
  /\ ~ Has(was, n) /\ Has(now, n) => UninitMayLeave(n)

\* The files uninit has been through when it comes to a step.
Behind(pc) ==
  CASE pc = "instrumentation" -> Configs
    [] pc = "directory" -> Configs \cup {"instrumentation.ts"}
    [] pc = "discovery" -> Configs \cup {"instrumentation.ts"} \cup GlasstraceFiles
    [] pc = "env-local" -> Configs \cup {"instrumentation.ts"} \cup OursAlone
    [] pc \in {"env-confirm", "gitignore"} ->
         Configs \cup {"instrumentation.ts", ".env.local"} \cup OursAlone
    [] pc = "mcp" -> Configs \cup {"instrumentation.ts", ".env.local", ".gitignore"} \cup OursAlone
    [] pc = "info" -> Configs \cup {"instrumentation.ts", ".env.local", ".gitignore"} \cup OursAlone
                        \cup AgentConfigs
    [] pc = "exit" -> Configs \cup {"instrumentation.ts", ".env.local", ".gitignore"} \cup OursAlone
                        \cup AgentConfigs \cup InfoFiles
    [] OTHER -> {}

Reversible ==
  /\ \A d \in Sites : DirSound(original[d]) /\ AllUndoable(original[d], fs[d])
  /\ cmd.name = "uninit" =>
       \A n \in Behind(cmd.pc) : Undone(n, original[cmd.root], fs[cmd.root])

QuietlyReversible == Quiet => Reversible

-----------------------------------------------------------------------------

LEMMA FilterAll ==
  ASSUME NEW env \in Seq(EnvLine), NEW names, \A k \in DOMAIN env : env[k].name \in names
  PROVE  LinesNamed(env, names) = env
<1>0. Len(env) \in Nat /\ DOMAIN env = 1 .. Len(env)
  OBVIOUS
<1>1. PICK f : /\ LinesNamed(env, names) = f[Len(env)] /\ f[0] = <<>>
               /\ \A k \in 1 .. Len(env) :
                    f[k] = IF env[k].name \in names THEN Append(f[k - 1], env[k]) ELSE f[k - 1]
  BY <1>0, FilterIs
<1> DEFINE T == {m \in 0 .. Len(env) : f[m] = SubSeq(env, 1, m)}
<1>2. 0 \in T
  <2>1. SubSeq(env, 1, 0) = <<>> /\ 0 \in 0 .. Len(env)
    BY <1>0
  <2>2. QED
    BY <1>1, <2>1
<1>3. ASSUME NEW m \in 0 .. Len(env) - 1, m \in T PROVE m + 1 \in T
  <2>1. m + 1 \in 1 .. Len(env) /\ (m + 1) - 1 = m
    BY <1>0
  <2>2. f[m + 1] = Append(f[m], env[m + 1])
    BY <1>0, <1>1, <2>1
  <2>3. Append(SubSeq(env, 1, m), env[m + 1]) = SubSeq(env, 1, m + 1)
    OBVIOUS
  <2>4. f[m] = SubSeq(env, 1, m) /\ m + 1 \in 0 .. Len(env)
    BY <1>3
  <2>5. f[m + 1] = SubSeq(env, 1, m + 1)
    BY <2>2, <2>3, <2>4
  <2>6. QED
    BY <2>4, <2>5
<1>4. T = 0 .. Len(env)
  <2> HIDE DEF T
  <2>1. T \in SUBSET (0 .. Len(env))
    BY DEF T
  <2>2. QED
    BY <1>0, <1>2, <1>3, <2>1, UpTo
<1>5. f[Len(env)] = SubSeq(env, 1, Len(env))
  <2>1. Len(env) \in T
    <3> HIDE DEF T
    <3>1. QED
      BY <1>0, <1>4
  <2>2. QED
    BY <2>1
<1>6. SubSeq(env, 1, Len(env)) = env
  OBVIOUS
<1>7. QED
  BY <1>1, <1>5, <1>6

\* Lines of other names may change, and come behind.
LEMMA FilterOthers ==
  ASSUME NEW env \in Seq(EnvLine), NEW now \in Seq(EnvLine), NEW names, Len(env) <= Len(now),
         \A k \in 1 .. Len(env) :
           /\ env[k].name \in names <=> now[k].name \in names
           /\ env[k].name \in names => now[k] = env[k],
         \A k \in Len(env) + 1 .. Len(now) : now[k].name \notin names
  PROVE  LinesNamed(now, names) = LinesNamed(env, names)
<1>0. Len(env) \in Nat /\ Len(now) \in Nat
  OBVIOUS
<1>1. PICK f : /\ LinesNamed(env, names) = f[Len(env)] /\ f[0] = <<>>
               /\ \A k \in 1 .. Len(env) :
                    f[k] = IF env[k].name \in names THEN Append(f[k - 1], env[k]) ELSE f[k - 1]
  BY <1>0, FilterIs
<1>2. PICK g : /\ LinesNamed(now, names) = g[Len(now)] /\ g[0] = <<>>
               /\ \A k \in 1 .. Len(now) :
                    g[k] = IF now[k].name \in names THEN Append(g[k - 1], now[k]) ELSE g[k - 1]
  BY <1>0, FilterIs
<1> DEFINE T == {m \in 0 .. Len(env) : g[m] = f[m]}
           U == {m \in 0 .. Len(now) - Len(env) : g[Len(env) + m] = f[Len(env)]}
<1>3. 0 \in T
  BY <1>0, <1>1, <1>2
<1>4. ASSUME NEW m \in 0 .. Len(env) - 1, m \in T PROVE m + 1 \in T
  <2>1. /\ m + 1 \in 1 .. Len(env) /\ m + 1 \in 1 .. Len(now) /\ (m + 1) - 1 = m
        /\ m + 1 \in 0 .. Len(env) /\ g[m] = f[m]
    BY <1>0, <1>4
  <2>2. f[m + 1] = IF env[m + 1].name \in names THEN Append(f[m], env[m + 1]) ELSE f[m]
    BY <1>1, <2>1
  <2>3. g[m + 1] = IF now[m + 1].name \in names THEN Append(g[m], now[m + 1]) ELSE g[m]
    BY <1>2, <2>1
  <2>4. g[m + 1] = f[m + 1]
    BY <2>1, <2>2, <2>3
  <2>5. QED
    BY <2>1, <2>4
<1>5. T = 0 .. Len(env)
  <2> HIDE DEF T
  <2>1. T \in SUBSET (0 .. Len(env))
    BY DEF T
  <2>2. QED
    BY <1>0, <1>3, <1>4, <2>1, UpTo
<1>6. 0 \in U
  <2>1. Len(env) \in T
    <3> HIDE DEF T
    <3>1. QED
      BY <1>0, <1>5
  <2>2. Len(env) + 0 = Len(env) /\ 0 \in 0 .. Len(now) - Len(env)
    BY <1>0
  <2>3. QED
    BY <2>1, <2>2
<1>7. ASSUME NEW m \in 0 .. (Len(now) - Len(env)) - 1, m \in U PROVE m + 1 \in U
  <2> DEFINE k == Len(env) + (m + 1)
  <2>1. /\ k \in 1 .. Len(now) /\ k \in Len(env) + 1 .. Len(now) /\ k - 1 = Len(env) + m
        /\ m + 1 \in 0 .. Len(now) - Len(env) /\ g[Len(env) + m] = f[Len(env)]
    BY <1>0, <1>7
  <2> HIDE DEF k
  <2>2. g[k] = g[k - 1]
    BY <1>2, <2>1
  <2>3. g[k] = f[Len(env)]
    BY <2>1, <2>2
  <2>4. QED
    BY <2>1, <2>3 DEF k
<1>8. Len(now) - Len(env) \in U
  <2> HIDE DEF U
  <2>1. U \in SUBSET (0 .. Len(now) - Len(env)) /\ Len(now) - Len(env) \in Nat
    BY <1>0 DEF U
  <2>2. U = 0 .. Len(now) - Len(env)
    BY <1>6, <1>7, <2>1, UpTo
  <2>3. QED
    BY <2>1, <2>2
<1>9. Len(env) + (Len(now) - Len(env)) = Len(now)
  BY <1>0
<1>10. g[Len(now)] = f[Len(env)]
  BY <1>8, <1>9
<1>11. QED
  BY <1>1, <1>2, <1>10

LEMMA UserLinesAll ==
  ASSUME NEW env \in Seq(EnvLine), \A k \in DOMAIN env : env[k].name = "user"
  PROVE  LinesNamed(env, {"user"}) = env
BY FilterAll

LEMMA UserAssignsNothing ==
  ASSUME NEW env, \A k \in DOMAIN env : env[k].name = "user"
  PROVE  NoAssignment(env)
BY DEF NoAssignment, Assigns, IsKeyLine

\* Nothing is done yet.
LEMMA NothingDone ==
  ASSUME NEW was, DirSound(was), NEW n, Has(was, n), ~ UninitMisses(n, was[n]), NEW alone
  PROVE  Edited(n, was[n], was[n], alone)
<1>1. CASE n = ".env.local"
  <2>1. was[n] \in Seq(EnvLine) /\ \A k \in DOMAIN was[n] : was[n][k].name = "user"
    BY <1>1 DEF DirSound, FileSound, Has, UninitMisses
  <2>2. QED
    BY <1>1, <2>1, UserLinesAll, UserAssignsNothing DEF Edited, Configs, InfoFiles, Instrumentation
<1>2. CASE n = ".gitignore"
  <2>1. was[n] \cap GitignoreEntries = {}
    BY <1>2 DEF UninitMisses
  <2>2. was[n] \ GitignoreEntries = was[n]
    BY <2>1
  <2>3. QED
    BY <1>2, <2>2 DEF Edited, Configs, InfoFiles, Instrumentation
<1>3. QED
  BY <1>1, <1>2 DEF Edited

LEMMA UndoneUndoable ==
  ASSUME NEW was, DirSound(was), NEW n, NEW now, Undone(n, was, now),
         n \in Configs => (Has(now, n) <=> Has(was, n))
  PROVE  Undoable(n, was, now)
<1>1. Has(was, n) /\ ~ UninitMisses(n, was[n]) =>
        Has(now, n) /\ Edited(n, was[n], now[n], ~ Has(now, "next.config.ts"))
  BY NothingDone DEF Undone
<1>2. UninitMayLeave(n) /\ n \notin Configs => Added(n, now[n])
  BY DEF UninitMayLeave, Added, Instrumentation, InfoFiles, Configs, AgentConfigs
<1>3. QED
  BY <1>1, <1>2 DEF Undoable, Undone

LEMMA StartUndoable ==
  ASSUME NEW was, DirSound(was)
  PROVE  AllUndoable(was, was)
BY NothingDone DEF AllUndoable, Undoable

\* A file that is left alone stays undoable.
LEMMA UndoableStays ==
  ASSUME NEW was, NEW dir, NEW new, NEW n, Undoable(n, was, dir), SameAt(dir, new, n),
         Has(new, "next.config.ts") <=> Has(dir, "next.config.ts")
  PROVE  Undoable(n, was, new)
BY DEF Undoable, SameAt, Edited

LEMMA ConfigsStay ==
  ASSUME NEW was, NEW dir, NEW new, AllUndoable(was, dir), Undoable("next.config.ts", was, new)
  PROVE  Has(new, "next.config.ts") <=> Has(dir, "next.config.ts")
BY DEF AllUndoable, Undoable, Configs

LEMMA UndoneStays ==
  ASSUME NEW was, NEW dir, NEW new, NEW n, Undone(n, was, dir), SameAt(dir, new, n)
  PROVE  Undone(n, was, new)
BY DEF Undone, SameAt

\* Some files were changed.
LEMMA ChangedUndoable ==
  ASSUME NEW was, NEW dir, NEW new, AllUndoable(was, dir), NEW names,
         \A n : n \notin names => SameAt(dir, new, n),
         \A n \in names : Undoable(n, was, new)
  PROVE  AllUndoable(was, new)
<1>1. Has(new, "next.config.ts") <=> Has(dir, "next.config.ts")
  <2>1. CASE "next.config.ts" \in names
    BY <2>1, ConfigsStay
  <2>2. CASE "next.config.ts" \notin names
    <3>1. SameAt(dir, new, "next.config.ts")
      BY <2>2
    <3>2. QED
      BY <3>1 DEF SameAt
  <2>3. QED
    BY <2>1, <2>2
<1>2. ASSUME NEW n PROVE Undoable(n, was, new)
  <2>1. Undoable(n, was, dir)
    BY DEF AllUndoable
  <2>2. CASE n \in names
    BY <2>2
  <2>3. CASE n \notin names
    <3>1. SameAt(dir, new, n)
      BY <2>3
    <3>2. QED
      BY <1>1, <2>1, <3>1, UndoableStays
  <2>4. QED
    BY <2>2, <2>3
<1>3. QED
  BY <1>2 DEF AllUndoable

LEMMA WithUndoable ==
  ASSUME NEW was, NEW dir, NEW name, NEW text, AllUndoable(was, dir),
         Undoable(name, was, With(dir, name, text))
  PROVE  AllUndoable(was, With(dir, name, text))
<1> DEFINE new == With(dir, name, text)
           names == {name}
<1>1. \A n : n \notin names => SameAt(dir, new, n)
  BY WithSame
<1>2. \A n \in names : Undoable(n, was, new)
  OBVIOUS
<1> HIDE DEF new, names
<1>3. AllUndoable(was, new)
  BY <1>1, <1>2, ChangedUndoable
<1>4. QED
  BY <1>3 DEF new

\* Files of ours, and instrumentation files that uninit does not look at.
LEMMA OursUndoable ==
  ASSUME NEW n \in OursAlone \cup (Instrumentation \ {"instrumentation.ts"}), NEW was, NEW now
  PROVE  Undoable(n, was, now)
<1>1. \A text : UninitMisses(n, text)
  BY DEF UninitMisses, OursAlone
<1>2. \A text : Added(n, text)
  BY DEF Added, OursAlone, GlasstraceFiles, Instrumentation, InfoFiles, AgentConfigs
<1>3. n \notin Configs
  BY DEF OursAlone, GlasstraceFiles, Instrumentation, Configs
<1>4. QED
  BY <1>1, <1>2, <1>3 DEF Undoable

LEMMA WithOurs ==
  ASSUME NEW was, NEW dir, AllUndoable(was, dir), NEW text,
         NEW name \in OursAlone \cup (Instrumentation \ {"instrumentation.ts"})
  PROVE  AllUndoable(was, With(dir, name, text))
BY OursUndoable, WithUndoable

LEMMA CallUndoable ==
  ASSUME NEW was, NEW dir, AllUndoable(was, dir), NEW name, name = "instrumentation.ts", NEW new,
         Has(new, name),
         \/ ~ Has(dir, name) /\ new[name] = {"import", "register", "call"}
         \/ /\ Has(dir, name) /\ ~ HasRegisterGlasstraceCall(dir[name])
            /\ new[name] = MergedInstrumentation(dir[name])
  PROVE  Undoable(name, was, new)
<1>0. Undoable(name, was, dir)
  BY DEF AllUndoable
<1>1. name \in Instrumentation /\ name \notin Configs \cup InfoFiles \cup AgentConfigs
  BY DEF Instrumentation, Configs, InfoFiles, AgentConfigs
<1>2. ASSUME Has(was, name), ~ UninitMisses(name, was[name])
      PROVE  Edited(name, was[name], new[name], ~ Has(new, "next.config.ts"))
  <2>1. Has(dir, name) /\ dir[name] \in {was[name], was[name] \cup {"import", "call"}}
    BY <1>0, <1>2 DEF Undoable, Edited
  <2>2. ~ HasRegisterGlasstraceCall(dir[name]) /\ new[name] = MergedInstrumentation(dir[name])
    BY <2>1
  <2>3. dir[name] = was[name]
    BY <2>1, <2>2 DEF HasRegisterGlasstraceCall
  <2>4. "register" \in was[name]
    BY <1>2 DEF UninitMisses
  <2>5. new[name] = was[name] \cup {"import", "call"}
    BY <2>2, <2>3, <2>4 DEF MergedInstrumentation, InjectRegisterGlasstrace
  <2>6. QED
    BY <1>1, <2>5 DEF Edited
<1>3. ASSUME ~ Has(was, name) PROVE Added(name, new[name])
  <2>1. ~ Has(dir, name)
    <3>1. Has(dir, name) => dir[name] = {"import", "register", "call"}
      BY <1>0, <1>3 DEF Undoable, Added
    <3>2. QED
      BY <3>1 DEF HasRegisterGlasstraceCall
  <2>2. QED
    BY <1>1, <2>1 DEF Added
<1>4. QED
  BY <1>1, <1>2, <1>3 DEF Undoable

LEMMA WrapUndoable ==
  ASSUME NEW was, NEW dir, AllUndoable(was, dir), NEW name \in Configs, Has(dir, name),
         ~ MentionsWrapper(dir[name]), ExportOf(name) \in dir[name],
         name = "next.config.js" => ~ Has(dir, "next.config.ts")
  PROVE  Undoable(name, was, With(dir, name, WrapExport(dir[name])))
<1> DEFINE new == With(dir, name, WrapExport(dir[name]))
<1>1. /\ Undoable(name, was, dir) /\ Has(new, name) /\ new[name] = WrapExport(dir[name])
      /\ name = "next.config.js" => ~ Has(new, "next.config.ts")
  BY DEF AllUndoable, With, Has
<1> HIDE DEF new
<1>2. name \notin Instrumentation \cup InfoFiles \cup AgentConfigs \cup {".env.local", ".gitignore"}
  BY DEF Instrumentation, Configs, InfoFiles, AgentConfigs
<1>3. Has(was, name)
  BY <1>1 DEF Undoable
<1>4. ASSUME ~ UninitMisses(name, was[name])
      PROVE  Edited(name, was[name], new[name], ~ Has(new, "next.config.ts"))
  <2>1. Edited(name, was[name], dir[name], ~ Has(dir, "next.config.ts"))
    BY <1>1, <1>3, <1>4 DEF Undoable
  <2>2. dir[name] # WrapExport(was[name])
    BY DEF MentionsWrapper, WrapExport
  <2>3. dir[name] = was[name]
    BY <2>1, <2>2 DEF Edited
  <2>4. /\ new[name] = WrapExport(was[name]) /\ ~ MentionsWrapper(was[name])
        /\ ExportOf(name) \in was[name]
    BY <1>1, <2>3
  <2>5. QED
    BY <1>1, <1>2, <2>4 DEF Edited, Instrumentation
<1>5. Undoable(name, was, new)
  BY <1>1, <1>3, <1>4 DEF Undoable
<1>6. QED
  BY <1>5 DEF new

\* The lines of the user are the same, and none assigns a key that did not.
SameUser(env, now) ==
  /\ LinesNamed(now, {"user"}) = LinesNamed(env, {"user"})
  /\ NoAssignment(env) => NoAssignment(now)

LEMMA NoLines == LinesNamed(<<>>, {"user"}) = <<>> /\ NoAssignment(<<>>)
<1>1. <<>> \in Seq(EnvLine) /\ DOMAIN <<>> = {}
  OBVIOUS
<1>2. QED
  BY <1>1, UserLinesAll DEF NoAssignment

LEMMA EnvUndoable ==
  ASSUME NEW was, NEW dir, AllUndoable(was, dir), NEW name, name = ".env.local", NEW text,
         SameUser(EnvLinesOf(dir), text)
  PROVE  Undoable(name, was, With(dir, name, text))
<1> DEFINE new == With(dir, name, text)
<1>1. Undoable(name, was, dir) /\ Has(new, name) /\ new[name] = text
  BY DEF AllUndoable, With, Has
<1> HIDE DEF new
<1>2. name \notin Instrumentation \cup Configs \cup InfoFiles \cup AgentConfigs
  BY DEF Instrumentation, Configs, InfoFiles, AgentConfigs
<1>3. ASSUME Has(was, name), ~ UninitMisses(name, was[name])
      PROVE  Edited(name, was[name], text, ~ Has(new, "next.config.ts"))
  <2>1. EnvLinesOf(dir) = dir[name] /\ LinesNamed(dir[name], {"user"}) = was[name] /\ NoAssignment(dir[name])
    BY <1>1, <1>3 DEF Undoable, Edited, EnvLinesOf
  <2>2. QED
    BY <1>2, <2>1 DEF Edited, SameUser
<1>4. ASSUME ~ Has(was, name) PROVE Added(name, text)
  <2>1. LinesNamed(EnvLinesOf(dir), {"user"}) = <<>> /\ NoAssignment(EnvLinesOf(dir))
    <3>1. CASE Has(dir, name)
      BY <1>1, <1>4, <3>1 DEF Undoable, Added, EnvLinesOf
    <3>2. CASE ~ Has(dir, name)
      BY <3>2, NoLines DEF EnvLinesOf
    <3>3. QED
      BY <3>1, <3>2
  <2>2. QED
    BY <1>2, <2>1 DEF Added, SameUser
<1>5. Undoable(name, was, new)
  BY <1>1, <1>2, <1>3, <1>4 DEF Undoable
<1>6. QED
  BY <1>5 DEF new

LEMMA AppendUser ==
  ASSUME NEW env \in Seq(EnvLine), NEW line \in EnvLine, line.name # "user", ~ Assigns(line)
  PROVE  SameUser(env, Append(env, line))
<1> DEFINE now == Append(env, line)
<1>1. /\ now \in Seq(EnvLine) /\ Len(env) \in Nat /\ Len(now) = Len(env) + 1
      /\ DOMAIN now = 1 .. Len(env) + 1 /\ DOMAIN env = 1 .. Len(env)
      /\ now[Len(env) + 1] = line /\ \A k \in 1 .. Len(env) : now[k] = env[k]
  OBVIOUS
<1> HIDE DEF now
<1>2. \A k \in Len(env) + 1 .. Len(now) : now[k].name \notin {"user"}
  BY <1>1
<1>3. LinesNamed(now, {"user"}) = LinesNamed(env, {"user"})
  <2>1. Len(env) <= Len(now) /\ \A k \in 1 .. Len(env) : now[k] = env[k]
    BY <1>1
  <2>2. QED
    BY <1>1, <1>2, <2>1, FilterOthers
<1>4. NoAssignment(env) => NoAssignment(now)
  <2>1. \A k \in DOMAIN now : k \in DOMAIN env \/ k = Len(env) + 1
    BY <1>1
  <2>2. QED
    BY <1>1, <2>1 DEF NoAssignment
<1>5. QED
  BY <1>3, <1>4 DEF SameUser, now

LEMMA PlaceholderUser ==
  ASSUME NEW env \in Seq(EnvLine)
  PROVE  SameUser(env, WithPlaceholder(env))
<1>1. SameUser(env, Append(env, Placeholder))
  BY LinesOf, AppendUser
<1>2. QED
  BY <1>1 DEF WithPlaceholder, SameUser

LEMMA CoverageUser ==
  ASSUME NEW env \in Seq(EnvLine)
  PROVE  SameUser(env, WithCoverageMap(env))
<1> DEFINE set == {k \in DOMAIN env : env[k].name = "coverage" /\ env[k].form # "comment"}
           m == Min(set)
           now == [env EXCEPT ![m].value = "true"]
<1>0. Len(env) \in Nat /\ DOMAIN env = 1 .. Len(env)
  OBVIOUS
<1>1. SameUser(env, Append(env, CoverageLine("strict", "true")))
  <2>1. ~ Assigns(CoverageLine("strict", "true"))
    BY DEF Assigns, IsKeyLine, CoverageLine
  <2>2. QED
    BY <2>1, LinesOf, AppendUser
<1>2. CASE set # {}
  <2>1. m \in set
    <3>1. set \in SUBSET (1 .. Len(env))
      BY <1>0
    <3> HIDE DEF set
    <3>2. QED
      BY <1>0, <1>2, <3>1, MinIs
  <2> HIDE DEF m
  <2>2. m \in DOMAIN env /\ env[m] \in EnvLine /\ env[m].name = "coverage"
    BY <2>1
  <2>3. now[m] = [env[m] EXCEPT !.value = "true"] /\ \A k \in DOMAIN env : k # m => now[k] = env[k]
    BY <2>2
  <2>4. now[m] \in EnvLine /\ now[m].name = "coverage"
    BY <2>2, <2>3 DEF EnvLine
  <2>5. now = [k \in DOMAIN env |-> now[k]]
    OBVIOUS
  <2> HIDE DEF now
  <2>6. \A k \in 1 .. Len(env) : now[k] \in EnvLine
    <3>1. \A k \in 1 .. Len(env) : env[k] \in EnvLine
      OBVIOUS
    <3>2. QED
      BY <1>0, <2>3, <2>4, <3>1
  <2>7. now \in Seq(EnvLine) /\ Len(now) = Len(env) /\ DOMAIN now = DOMAIN env
    BY <1>0, <2>5, <2>6
  <2>8. LinesNamed(now, {"user"}) = LinesNamed(env, {"user"})
    <3>1. \A k \in 1 .. Len(env) : /\ env[k].name \in {"user"} <=> now[k].name \in {"user"}
                                   /\ env[k].name \in {"user"} => now[k] = env[k]
      BY <1>0, <2>2, <2>3, <2>4
    <3>2. \A k \in Len(env) + 1 .. Len(now) : now[k].name \notin {"user"}
      BY <1>0, <2>7
    <3>3. QED
      BY <1>0, <2>7, <3>1, <3>2, FilterOthers
  <2>9. NoAssignment(env) => NoAssignment(now)
    <3>1. ~ Assigns(now[m])
      BY <2>4 DEF Assigns, IsKeyLine
    <3>2. QED
      BY <2>3, <2>7, <3>1 DEF NoAssignment
  <2>10. WithCoverageMap(env) = now
    BY <1>2 DEF WithCoverageMap, now, m
  <2>11. QED
    BY <2>8, <2>9, <2>10 DEF SameUser
<1>3. CASE set = {}
  BY <1>1, <1>3 DEF WithCoverageMap
<1>4. QED
  BY <1>2, <1>3

LEMMA IgnoreUndoable ==
  ASSUME NEW was, NEW dir, AllUndoable(was, dir), NEW name, name = ".gitignore",
         NEW more \in SUBSET GitignoreEntries, NEW new, Has(new, name),
         new[name] = (IF Has(dir, name) THEN dir[name] ELSE {}) \cup more
  PROVE  Undoable(name, was, new)
<1>0. Undoable(name, was, dir)
  BY DEF AllUndoable
<1>1. name \notin Instrumentation \cup Configs \cup InfoFiles \cup AgentConfigs
  BY DEF Instrumentation, Configs, InfoFiles, AgentConfigs
<1>2. ASSUME Has(was, name), ~ UninitMisses(name, was[name])
      PROVE  Edited(name, was[name], new[name], ~ Has(new, "next.config.ts"))
  <2>1. Has(dir, name) /\ dir[name] \ GitignoreEntries = was[name]
    BY <1>0, <1>2 DEF Undoable, Edited
  <2>2. new[name] \ GitignoreEntries = was[name]
    BY <2>1
  <2>3. QED
    BY <1>1, <2>2 DEF Edited
<1>3. ASSUME ~ Has(was, name) PROVE Added(name, new[name])
  <2>1. Has(dir, name) => dir[name] \ GitignoreEntries = {}
    BY <1>0, <1>3 DEF Undoable, Added
  <2>2. new[name] \ GitignoreEntries = {}
    BY <2>1
  <2>3. QED
    BY <1>1, <2>2 DEF Added
<1>4. QED
  BY <1>1, <1>2, <1>3 DEF Undoable

\* A section put behind the user's lines is found, kept, and taken out again.
LEMMA AddedSection ==
  ASSUME NEW lines \in Seq(InfoLine), SectionsWhole(lines), ~ HasManagedSection(lines)
  PROVE  LET now == lines \o Section
         IN /\ WithManagedSection(lines) = now /\ WithManagedSection(now) = now
            /\ HasManagedSection(now) /\ RemoveMarkerSection(now) = lines
<1> DEFINE now == lines \o Section
           n == Len(lines)
<1>1. NoSection(lines) /\ FindMarkerBoundaries(lines) = <<0, 0>>
  <2>1. FindMarkerBoundaries(lines) = <<0, 0>>
    BY DEF HasManagedSection
  <2>2. \A e \in Nat : EndsAt(lines, e) => <<e - 2, e>> # <<0, 0>>
    BY DEF EndsAt
  <2>3. QED
    BY <2>1, <2>2, BoundariesAre
<1>2. WithManagedSection(lines) = now
  BY <1>1 DEF WithManagedSection
<1>3. now \in Seq(InfoLine) /\ SectionsWhole(now) /\ UpToDate(now) /\ EndsAt(now, n + 3)
  BY <1>1, AppendSound, AppendedUpToDate DEF InfoSound
<1>4. /\ n \in Nat /\ Len(now) = n + 3 /\ \A k \in 1 .. n : now[k] = lines[k]
  BY Indices, SectionAppended
<1> HIDE DEF now, n
<1>5. WithManagedSection(now) = now /\ HasManagedSection(now)
  BY <1>3, ManagedTwice
<1>6. FindMarkerBoundaries(now) = <<n + 1, n + 3>>
  <2>1. PICK e \in Nat : EndsAt(now, e) /\ FindMarkerBoundaries(now) = <<e - 2, e>>
    BY <1>3, <1>5, SectionManaged
  <2>2. e = n + 3
    BY <1>3, <1>4, <2>1, EndUnique
  <2>3. QED
    BY <1>4, <2>1, <2>2
<1> DEFINE left == SubSeq(now, 1, n) \o SubSeq(now, n + 4, n + 3)
<1>7. RemoveMarkerSection(now) = left
  <2>1. <<n + 1, n + 3>>[1] = n + 1 /\ <<n + 1, n + 3>>[2] = n + 3 /\ (n + 1) - 1 = n /\ (n + 3) + 1 = n + 4
    BY <1>4
  <2>2. QED
    BY <1>4, <1>6, <2>1 DEF RemoveMarkerSection
<1>8. left = lines
  <2>1. /\ SubSeq(now, 1, (n + 3) - 3) \o SubSeq(now, (n + 3) + 1, n + 3) = left
        /\ (n + 3) - 2 = n + 1 /\ (n + 3) - 3 = n
    BY <1>4
  <2>2. /\ left \in Seq(InfoLine) /\ Len(left) = n
        /\ \A k \in 1 .. n : left[k] = IF k < n + 1 THEN now[k] ELSE now[k + 3]
    BY <1>3, <1>4, <2>1, SectionRemoved
  <2> HIDE DEF left
  <2>3. \A k \in 1 .. n : left[k] = lines[k]
    BY <1>4, <2>2
  <2>4. QED
    BY <2>2, <2>3, SameLines DEF n
<1>9. QED
  BY <1>2, <1>5, <1>7, <1>8 DEF now

LEMMA SectionAlone ==
  /\ Section = <<>> \o Section /\ <<>> \in Seq(InfoLine)
  /\ SectionsWhole(<<>>) /\ ~ HasManagedSection(<<>>)
<1>1. Section = <<>> \o Section
  BY DEF Section
<1>2. ~ HasManagedSection(<<>>)
  <2>1. \A e \in Nat : ~ EndsAt(<<>>, e)
    BY DEF EndsAt
  <2>2. QED
    BY <2>1, EmptySound, SectionManaged
<1>3. QED
  BY <1>1, <1>2, EmptySound

LEMMA InfoUndoable ==
  ASSUME NEW was, NEW dir, AllUndoable(was, dir), DirSound(was), NEW name \in InfoFiles, NEW new,
         Has(new, name),
         new[name] = IF Has(dir, name) THEN WithManagedSection(dir[name]) ELSE CreatedInfoFile(name)
  PROVE  Undoable(name, was, new)
<1>0. Undoable(name, was, dir)
  BY DEF AllUndoable
<1>1. /\ name \notin Instrumentation \cup Configs \cup AgentConfigs \cup {".env.local", ".gitignore"}
      /\ name # "instrumentation.ts"
  BY DEF Instrumentation, Configs, InfoFiles, AgentConfigs
<1>2. ASSUME Has(was, name), ~ UninitMisses(name, was[name])
      PROVE  Edited(name, was[name], new[name], ~ Has(new, "next.config.ts"))
  <2>1. Has(dir, name) /\ dir[name] \in {was[name], was[name] \o Section}
    BY <1>0, <1>2 DEF Undoable, Edited
  <2>2. was[name] \in Seq(InfoLine) /\ SectionsWhole(was[name])
    BY <1>2 DEF DirSound, FileSound, Has
  <2>3. ~ HasManagedSection(was[name])
    BY <1>2 DEF UninitMisses
  <2>4. new[name] = was[name] \o Section
    BY <2>1, <2>2, <2>3, AddedSection
  <2>5. QED
    BY <1>1, <2>4 DEF Edited
<1>3. ASSUME ~ Has(was, name), name # "glasstrace.mdc" PROVE new[name] = Section
  <2>1. CASE Has(dir, name)
    <3>1. dir[name] = Section
      BY <1>0, <1>3, <2>1 DEF Undoable, Added
    <3>2. WithManagedSection(Section) = Section
      BY SectionAlone, AddedSection
    <3>3. QED
      BY <2>1, <3>1, <3>2
  <2>2. CASE ~ Has(dir, name)
    BY <1>3, <2>2 DEF CreatedInfoFile
  <2>3. QED
    BY <2>1, <2>2
<1>4. ASSUME ~ Has(was, name) PROVE Added(name, new[name])
  BY <1>1, <1>3, <1>4 DEF Added
<1>5. QED
  BY <1>1, <1>2, <1>4 DEF Undoable

\* A configuration of an agent that holds our entry alone.
OurEntry(text) == text \in McpText /\ text.json /\ ~ text.other /\ text.entry # "none"

LEMMA AgentUndoable ==
  ASSUME NEW was, NEW new, NEW name \in AgentConfigs,
         ~ Has(was, name) /\ Has(new, name) => OurEntry(new[name])
  PROVE  Undoable(name, was, new)
<1>1. \A text : UninitMisses(name, text)
  BY DEF UninitMisses, AgentConfigs, McpFiles
<1>2. name \notin InfoFiles \cup {"instrumentation.ts", ".env.local", ".gitignore"} \cup Configs
  BY DEF Instrumentation, InfoFiles, AgentConfigs, Configs
<1>3. QED
  BY <1>1, <1>2 DEF Undoable, Added, OurEntry

-----------------------------------------------------------------------------
\* Steps that nothing interferes with

\* The files of the app and of the repository's root can still be given back.
SitesUndoable(files) == \A d \in Sites : AllUndoable(original[d], files[d])

LEMMA ReversibleIs ==
  ASSUME TypeOK, AllKept, Reversible
  PROVE  /\ SitesUndoable(fs) /\ cmd.root \in Sites /\ Here = fs[cmd.root]
         /\ AllUndoable(original[cmd.root], Here) /\ DirSound(original[cmd.root]) /\ DirSound(Here)
         /\ Sites \subseteq Dir /\ "home" \notin Sites
<1>1. cmd.root \in Sites /\ Sites \subseteq Dir /\ "home" \notin Sites
  BY DEF TypeOK, Command, Sites, Dir
<1>2. QED
  BY <1>1, HereIs DEF Reversible, SitesUndoable

LEMMA EditSites ==
  ASSUME TypeOK, NEW files, NEW d, NEW new, files = [fs EXCEPT ![d] = new], SitesUndoable(fs),
         d \in Sites => AllUndoable(original[d], new)
  PROVE  SitesUndoable(files)
<1>1. DOMAIN fs = Dir /\ Sites \subseteq Dir
  BY DEF TypeOK, Sites, Dir
<1>2. \A e \in Sites : files[e] = IF e = d THEN new ELSE fs[e]
  BY <1>1
<1>3. QED
  BY <1>2 DEF SitesUndoable

LEMMA PutSites ==
  ASSUME TypeOK, AllKept, Reversible, NEW name, NEW text, fs' = Put(name, text),
         Undoable(name, original[cmd.root], With(Here, name, text))
  PROVE  SitesUndoable(fs')
<1>1. AllUndoable(original[cmd.root], With(Here, name, text))
  BY ReversibleIs, WithUndoable
<1>2. fs' = [fs EXCEPT ![cmd.root] = With(Here, name, text)]
  BY DEF Put, Here
<1>3. QED
  BY <1>1, <1>2, ReversibleIs, EditSites

LEMMA OursSites ==
  ASSUME TypeOK, AllKept, Reversible, NEW text,
         NEW name \in OursAlone \cup (Instrumentation \ {"instrumentation.ts"}),
         fs' = Put(name, text)
  PROVE  SitesUndoable(fs')
BY OursUndoable, PutSites

LEMMA WithHas ==
  ASSUME NEW dir, NEW name, NEW text
  PROVE  Has(With(dir, name, text), name) /\ With(dir, name, text)[name] = text
BY DEF With, Has

LEMMA InstrumentationSites ==
  ASSUME TypeOK, AllKept, Reversible, InitInstrumentation, ~ Fails
  PROVE  SitesUndoable(fs')
<1>1. CASE UNCHANGED fs
  BY <1>1, ReversibleIs
<1>2. ASSUME NEW name \in ToSet(InstrumentationTarget(site, Here)),
             \/ ~ Has(Here, name) /\ fs' = Put(name, {"import", "register", "call"})
             \/ /\ Has(Here, name) /\ ~ HasRegisterGlasstraceCall(Here[name])
                /\ fs' = Put(name, MergedInstrumentation(Here[name]))
      PROVE  SitesUndoable(fs')
  <2>1. name \in Instrumentation
    BY TargetIs
  <2>2. CASE name # "instrumentation.ts"
    BY <1>2, <2>1, <2>2, OursSites
  <2>3. ASSUME NEW text, name = "instrumentation.ts", fs' = Put(name, text),
               \/ ~ Has(Here, name) /\ text = {"import", "register", "call"}
               \/ /\ Has(Here, name) /\ ~ HasRegisterGlasstraceCall(Here[name])
                  /\ text = MergedInstrumentation(Here[name])
        PROVE  SitesUndoable(fs')
    <3> DEFINE new == With(Here, name, text)
    <3>1. Has(new, name) /\ new[name] = text
      BY WithHas
    <3> HIDE DEF new
    <3>2. Undoable(name, original[cmd.root], new)
      BY <2>3, <3>1, ReversibleIs, CallUndoable
    <3>3. QED
      BY <2>3, <3>2, PutSites DEF new
  <2>4. QED
    BY <1>2, <2>2, <2>3
<1>3. QED
  BY <1>1, <1>2 DEF InitInstrumentation, SkipTo, FailAndRollBack

LEMMA ConfigSites ==
  ASSUME TypeOK, AllKept, Reversible, InitNextConfig, ~ Fails
  PROVE  SitesUndoable(fs')
<1> DEFINE at == FirstOf(Here, NextConfigs)
           name == NextConfigs[at]
<1>1. CASE UNCHANGED fs
  BY <1>1, ReversibleIs
<1>2. CASE /\ at # 0 /\ ~ MentionsWrapper(Here[name]) /\ ExportOf(name) \in Here[name]
           /\ fs' = Put(name, WrapExport(Here[name]))
  <2>1. /\ name \in Configs /\ Has(Here, name)
        /\ name = "next.config.js" => ~ Has(Here, "next.config.ts")
    <3>1. at \in {1, 2} /\ Has(Here, name) /\ (at = 2 => ~ Has(Here, NextConfigs[1]))
      BY <1>2, FirstOfIs, NamesAre
    <3> HIDE DEF at
    <3>2. QED
      BY <3>1, NamesAre DEF Configs
  <2> HIDE DEF at, name
  <2>2. Undoable(name, original[cmd.root], With(Here, name, WrapExport(Here[name])))
    BY <1>2, <2>1, ReversibleIs, WrapUndoable
  <2>3. QED
    BY <1>2, <2>2, PutSites
<1>3. QED
  BY <1>1, <1>2 DEF InitNextConfig, Scaffold, SkipTo, FailAndRollBack

LEMMA EnvSites ==
  ASSUME TypeOK, AllKept, Reversible, NEW text, fs' = Put(".env.local", text),
         SameUser(EnvLinesOf(Here), text)
  PROVE  SitesUndoable(fs')
BY ReversibleIs, EnvUndoable, PutSites

LEMMA EnvLocalSites ==
  ASSUME TypeOK, AllKept, Reversible, InitEnvLocal, ~ Fails
  PROVE  SitesUndoable(fs')
<1>1. CASE UNCHANGED fs
  BY <1>1, ReversibleIs
<1>2. CASE fs' = Put(".env.local", WithPlaceholder(EnvLinesOf(Here)))
  BY <1>2, ReversibleIs, EnvLinesTyped, PlaceholderUser, EnvSites
<1>3. QED
  BY <1>1, <1>2 DEF InitEnvLocal, Scaffold, SkipTo, FailAndRollBack, EnvLinesOf

LEMMA CoverageSites ==
  ASSUME TypeOK, AllKept, Reversible, InitCoverage
  PROVE  SitesUndoable(fs')
<1>1. CASE UNCHANGED fs
  BY <1>1, ReversibleIs
<1>2. CASE fs' = Put(".env.local", WithCoverageMap(EnvLinesOf(Here)))
  BY <1>2, ReversibleIs, EnvLinesTyped, CoverageUser, EnvSites
<1>3. QED
  BY <1>1, <1>2 DEF InitCoverage, EnvLinesOf

LEMMA IgnoreSites ==
  ASSUME TypeOK, AllKept, Reversible, NEW more \in SUBSET GitignoreEntries,
         fs' = Put(".gitignore", (IF Has(Here, ".gitignore") THEN Here[".gitignore"] ELSE {}) \cup more)
  PROVE  SitesUndoable(fs')
<1> DEFINE text == (IF Has(Here, ".gitignore") THEN Here[".gitignore"] ELSE {}) \cup more
           new == With(Here, ".gitignore", text)
<1>1. Has(new, ".gitignore") /\ new[".gitignore"] = text
  BY WithHas
<1> HIDE DEF new
<1>2. Undoable(".gitignore", original[cmd.root], new)
  BY <1>1, ReversibleIs, IgnoreUndoable
<1>3. QED
  BY <1>2, PutSites DEF new

LEMMA GitignoreSites ==
  ASSUME TypeOK, AllKept, Reversible, (InitGitignore /\ ~ Fails) \/ UpdateGitignore
  PROVE  SitesUndoable(fs')
<1>1. CASE UNCHANGED fs
  BY <1>1, ReversibleIs
<1>2. {".glasstrace/"} \in SUBSET GitignoreEntries /\ {"mcp"} \in SUBSET GitignoreEntries
  BY DEF GitignoreEntries
<1>3. CASE InitGitignore /\ ~ Fails
  BY <1>1, <1>2, <1>3, IgnoreSites DEF InitGitignore, Scaffold, SkipTo, FailAndRollBack
<1>4. CASE UpdateGitignore
  BY <1>1, <1>2, <1>4, IgnoreSites DEF UpdateGitignore
<1>5. QED
  BY <1>3, <1>4

LEMMA OwnSites ==
  ASSUME TypeOK, AllKept, Reversible, InitAnonKey \/ InitDiscovery \/ WriteMcpMarker \/ UninitMarker
  PROVE  SitesUndoable(fs')
<1>1. CASE UNCHANGED fs
  BY <1>1, ReversibleIs
<1>2. /\ {"anon_key", "mcp-connected", "shutdown-requested"} \subseteq OursAlone
      /\ site.staticRoot \in OursAlone
  BY DEF TypeOK, Layout, OursAlone, GlasstraceFiles
<1>3. CASE InitAnonKey
  BY <1>1, <1>2, <1>3, OursSites DEF InitAnonKey
<1>4. CASE InitDiscovery
  BY <1>1, <1>2, <1>4, OursSites DEF InitDiscovery
<1>5. CASE WriteMcpMarker \/ UninitMarker
  BY <1>1, <1>2, <1>5, OursSites DEF WriteMcpMarker, UninitMarker
<1>6. QED
  BY <1>3, <1>4, <1>5

LEMMA EntryOurs ==
  ASSUME TypeOK, NEW agent
  PROVE  LET entry == GenerateMcpConfig(agent, cmd.credential.key)
         IN /\ OurEntry(entry)
            /\ \A text : OurEntry(text) => OurEntry(PrepareWindsurf(text, entry))
<1> DEFINE entry == GenerateMcpConfig(agent, cmd.credential.key)
<1>1. cmd.credential.key \in DevKey \cup AnonKey \cup {""}
  BY DEF TypeOK, Command, Keys
<1>2. "none" \notin DevKey \cup AnonKey \cup {""}
  BY KeysAssumption
<1>3. OurEntry(entry)
  BY <1>1, <1>2 DEF GenerateMcpConfig, McpConfig, McpText, OurEntry
<1> HIDE DEF entry
<1>4. ASSUME NEW text, OurEntry(text) PROVE OurEntry(PrepareWindsurf(text, entry))
  BY <1>3, <1>4 DEF PrepareWindsurf, McpText, OurEntry
<1>5. QED
  BY <1>3, <1>4 DEF entry

LEMMA McpNames ==
  ASSUME NEW agent \in Dispatched, agent # "windsurf"
  PROVE  McpFileOf(agent) \in AgentConfigs \cup OursAlone
<1>1. agent \in {"claude", "codex", "gemini", "cursor", "generic"}
  BY AgentAssumption DEF Dispatched
<1>2. QED
  BY <1>1 DEF McpFileOf, AgentConfigs, OursAlone, GlasstraceFiles

LEMMA McpSites ==
  ASSUME TypeOK, AllKept, Reversible, NEW name \in AgentConfigs \cup OursAlone, NEW d, NEW text,
         fs' = [fs EXCEPT ![d] = With(fs[d], name, text)],
         d \in Sites /\ ~ Has(original[d], name) /\ name \in AgentConfigs => OurEntry(text)
  PROVE  SitesUndoable(fs')
<1> DEFINE new == With(fs[d], name, text)
<1>1. Has(new, name) /\ new[name] = text
  BY WithHas
<1> HIDE DEF new
<1>2. ASSUME d \in Sites PROVE AllUndoable(original[d], new)
  <2>1. Undoable(name, original[d], new)
    BY <1>1, <1>2, OursUndoable, AgentUndoable
  <2>2. AllUndoable(original[d], fs[d])
    BY <1>2 DEF Reversible
  <2>3. QED
    BY <2>1, <2>2, WithUndoable DEF new
<1>3. QED
  BY <1>2, ReversibleIs, EditSites DEF new

LEMMA WriteMcpSites ==
  ASSUME TypeOK, AllKept, Reversible, NEW agent \in Dispatched, agent # "windsurf", NEW d, NEW pc,
         NEW caught, WriteMcpConfig(agent, d, pc, caught)
  PROVE  SitesUndoable(fs')
<1>1. CASE UNCHANGED fs
  BY <1>1, ReversibleIs
<1>2. QED
  BY <1>1, McpNames, EntryOurs, McpSites DEF WriteMcpConfig

LEMMA RegisterSites ==
  ASSUME TypeOK, AllKept, Reversible, NEW agent \in Dispatched, agent # "windsurf", NEW d,
         RegisterViaCli(agent, d)
  PROVE  SitesUndoable(fs')
<1> DEFINE name == McpFileOf(agent)
           entry == GenerateMcpConfig(agent, cmd.credential.key)
           text == IF Has(fs[d], name) THEN PrepareWindsurf(fs[d][name], entry) ELSE entry
<1>1. fs' = [fs EXCEPT ![d] = With(fs[d], name, text)] /\ name \in AgentConfigs \cup OursAlone
  BY McpNames DEF RegisterViaCli
<1> HIDE DEF name
<1>2. ASSUME d \in Sites, ~ Has(original[d], name), name \in AgentConfigs PROVE OurEntry(text)
  <2>1. Undoable(name, original[d], fs[d])
    BY <1>2 DEF Reversible, AllUndoable
  <2>2. Has(fs[d], name) => OurEntry(fs[d][name])
    BY <1>2, <2>1 DEF Undoable, Added, OurEntry
  <2>3. QED
    BY <2>2, EntryOurs
<1> HIDE DEF text
<1>3. QED
  BY <1>1, <1>2, McpSites

LEMMA AgentSites ==
  ASSUME TypeOK, AllKept, Reversible,
         InitCi \/ \E a \in Dispatched : InitAgent(a) \/ McpAddAgent(a)
  PROVE  SitesUndoable(fs')
<1>1. CASE InitCi
  BY <1>1, WriteMcpSites DEF InitCi, Dispatched
<1>2. ASSUME NEW a \in Dispatched, InitAgent(a) PROVE SitesUndoable(fs')
  <2>1. CASE UNCHANGED fs
    BY <2>1, ReversibleIs
  <2>2. a # "windsurf"
    BY <1>2 DEF InitAgent
  <2>3. QED
    BY <1>2, <2>1, <2>2, WriteMcpSites DEF InitAgent, SkipAgent
<1>3. ASSUME NEW a \in Dispatched, McpAddAgent(a) PROVE SitesUndoable(fs')
  <2>1. a # "windsurf"
    BY <1>3 DEF McpAddAgent
  <2>2. QED
    BY <1>3, <2>1, RegisterSites, WriteMcpSites DEF McpAddAgent
<1>4. QED
  BY <1>1, <1>2, <1>3

LEMMA HomeSites ==
  ASSUME TypeOK, AllKept, Reversible, WindsurfStage \/ WindsurfReplace \/ UserEditsWindsurf
  PROVE  SitesUndoable(fs')
<1>1. CASE UNCHANGED fs
  BY <1>1, ReversibleIs
<1>2. ASSUME NEW new, fs' = [fs EXCEPT !["home"] = new] PROVE SitesUndoable(fs')
  BY <1>2, ReversibleIs, EditSites
<1>3. CASE WindsurfStage
  BY <1>1, <1>2, <1>3 DEF WindsurfStage, SkipAgent, HomeWith
<1>4. CASE WindsurfReplace \/ UserEditsWindsurf
  BY <1>2, <1>4 DEF WindsurfReplace, UserEditsWindsurf, HomeWith
<1>5. QED
  BY <1>3, <1>4

LEMMA InjectSites ==
  ASSUME TypeOK, AllKept, Reversible, NEW targets, InjectInto(targets)
  PROVE  SitesUndoable(fs')
<1>1. ASSUME NEW written, NEW d \in Dir
      PROVE  LET put == InjectAllTargets(fs, written)[d]
                 names == Targeted(written, d)
             IN /\ names \subseteq InfoFiles
                /\ DOMAIN put = DOMAIN fs[d] \cup names
                /\ \A n \in DOMAIN fs[d] \ names : put[n] = fs[d][n]
                /\ \A n \in names : put[n] = IF Has(fs[d], n) THEN WithManagedSection(fs[d][n])
                                             ELSE CreatedInfoFile(n)
  BY InjectedIs
<1> PICK written \in SUBSET targets : fs' = InjectAllTargets(fs, written)
  BY DEF InjectInto
<1> SUFFICES ASSUME NEW d \in Sites PROVE AllUndoable(original[d], fs'[d])
  BY DEF SitesUndoable
<1> DEFINE names == Targeted(written, d)
           new == fs'[d]
<1>2. d \in Dir /\ AllUndoable(original[d], fs[d]) /\ DirSound(original[d])
  BY ReversibleIs DEF Reversible
<1>3. /\ names \subseteq InfoFiles
      /\ DOMAIN new = DOMAIN fs[d] \cup names
      /\ \A n \in DOMAIN fs[d] \ names : new[n] = fs[d][n]
      /\ \A n \in names : new[n] = IF Has(fs[d], n) THEN WithManagedSection(fs[d][n])
                                   ELSE CreatedInfoFile(n)
  BY <1>2, <1>1
<1> HIDE DEF names, new
<1>4. \A n : n \notin names => SameAt(fs[d], new, n)
  BY <1>3 DEF SameAt, Has
<1>5. ASSUME NEW n \in names PROVE Undoable(n, original[d], new)
  <2>1. n \in InfoFiles /\ Has(new, n)
    BY <1>3 DEF Has
  <2>2. QED
    BY <1>2, <1>3, <2>1, InfoUndoable
<1>6. AllUndoable(original[d], new)
  BY <1>2, <1>4, <1>5, ChangedUndoable
<1>7. QED
  BY <1>6 DEF new

\* The steps of every command but uninit.
LEMMA OthersSites ==
  ASSUME TypeOK, AllKept, Reversible, Next, ~ Fails, ~ SdkStep, ~ UninitStep
  PROVE  SitesUndoable(fs')
<1>1. CASE UNCHANGED fs
  BY <1>1, ReversibleIs
<1>2. CASE Starts
  BY <1>1, <1>2, StartsAre
<1>3. CASE AgentsDone \/ McpAddResolve \/ InitVerify \/ Killed
  BY <1>1, <1>3 DEF AgentsDone, McpAddResolve, InitVerify, Killed
<1>4. CASE Inject \/ UpgradeAll
  BY <1>1, <1>4, InjectSites DEF Inject, UpgradeAll
<1>5. CASE InitStep
  BY <1>2, <1>3, <1>5, InstrumentationSites, ConfigSites, EnvLocalSites, GitignoreSites, OwnSites,
     AgentSites, CoverageSites DEF InitStep, Starts, Dispatched
<1>6. CASE McpStep
  BY <1>2, <1>3, <1>4, <1>6, AgentSites, HomeSites, GitignoreSites, OwnSites
     DEF McpStep, Starts, Dispatched
<1>7. QED
  BY <1>2, <1>3, <1>4, <1>5, <1>6, HomeSites DEF Next, Starts

-----------------------------------------------------------------------------
\* The steps of uninit

\* A directory in which uninit has been through these files.
GivesBack(was, dir, new, names) ==
  /\ \A n : n \notin names => SameAt(dir, new, n)
  /\ \A n \in names : Undone(n, was, new)
  /\ \A n \in Configs : Has(new, n) <=> Has(dir, n)

LEMMA Gone ==
  ASSUME NEW dir, NEW names, NEW n \in names
  PROVE  ~ Has(Without(dir, names), n)
<1>1. DOMAIN Without(dir, names) = DOMAIN dir \ names
  BY WithoutIs
<1>2. QED
  BY <1>1 DEF Has

LEMMA NoFile ==
  ASSUME NEW was, NEW new, NEW n, ~ Has(new, n), Has(was, n) => UninitMisses(n, was[n])
  PROVE  Undone(n, was, new)
BY DEF Undone

LEMMA SameFile ==
  ASSUME NEW was, NEW new, NEW n, Has(new, n), Has(was, n) /\ ~ UninitMisses(n, was[n]),
         new[n] = was[n]
  PROVE  Undone(n, was, new)
BY DEF Undone

LEMMA ConfigUnwrapped ==
  ASSUME NEW dir, NEW n \in Configs, "wrap" \notin dir[n]
  PROVE  SameAt(dir, UnwrappedConfig(dir), n)
<1>1. CASE UnwrappedConfig(dir) = dir
  BY <1>1, SameReflexive
<1>2. ASSUME NEW name \in Configs, CanUnwrapExport(name, dir[name]),
             UnwrappedConfig(dir) = With(dir, name, UnwrapExport(dir[name]))
      PROVE  SameAt(dir, UnwrappedConfig(dir), n)
  <2>1. n # name
    BY <1>2 DEF CanUnwrapExport
  <2>2. QED
    BY <1>2, <2>1, WithSame
<1>3. QED
  BY <1>1, <1>2, UnwrappedIs

LEMMA ConfigsBack ==
  ASSUME NEW was, NEW dir, AllUndoable(was, dir)
  PROVE  GivesBack(was, dir, UnwrappedConfig(dir), Configs)
<1> DEFINE new == UnwrappedConfig(dir)
<1>1. \A n : n \notin Configs => SameAt(dir, new, n)
  BY UnwrappedSame
<1>2. \A n \in Configs : Has(new, n) <=> Has(dir, n)
  <2>1. CASE new = dir
    BY <2>1
  <2>2. ASSUME NEW name \in Configs, Has(dir, name), new = With(dir, name, UnwrapExport(dir[name]))
        PROVE  \A n \in Configs : Has(new, n) <=> Has(dir, n)
    <3> HIDE DEF new
    <3>1. DOMAIN new = DOMAIN dir
      BY <2>2 DEF With, Has
    <3>2. QED
      BY <3>1 DEF Has
  <2>3. QED
    BY <2>1, <2>2, UnwrappedIs
<1>3. ASSUME NEW n \in Configs PROVE Undone(n, was, new)
  <2>1. Undoable(n, was, dir)
    BY DEF AllUndoable
  <2>2. Has(dir, n) <=> Has(was, n)
    BY <2>1 DEF Undoable
  <2>3. ASSUME Has(was, n), ~ UninitMisses(n, was[n]) PROVE Has(new, n) /\ new[n] = was[n]
    <3>1. was[n] \cap {"unclosed", "misclosed", "wrap"} = {}
      BY <2>3, ConfigNames DEF UninitMisses
    <3>2. Edited(n, was[n], dir[n], ~ Has(dir, "next.config.ts"))
      BY <2>1, <2>3 DEF Undoable
    <3>3. CASE dir[n] = was[n]
      <4>1. SameAt(dir, new, n)
        BY <3>1, <3>3, ConfigUnwrapped
      <4>2. QED
        BY <2>2, <2>3, <3>3, <4>1 DEF SameAt
    <3>4. CASE /\ dir[n] = WrapExport(was[n]) /\ ~ MentionsWrapper(was[n]) /\ ExportOf(n) \in was[n]
               /\ n = "next.config.js" => ~ Has(dir, "next.config.ts")
      <4>1. MentionsWrapper(dir[n]) /\ CanUnwrapExport(n, dir[n])
        <5>1. "unclosed" \notin dir[n]
          BY <3>1, <3>4 DEF WrapExport
        <5>2. QED
          BY <3>4, <5>1 DEF MentionsWrapper, WrapExport, CanUnwrapExport
      <4>2. new = With(dir, n, UnwrapExport(dir[n]))
        BY <2>2, <2>3, <3>4, <4>1, UnwrappedIs
      <4>3. UnwrapExport(dir[n]) = was[n]
        BY <3>1, <3>4 DEF UnwrapExport, WithEarlierParenthesis, WrapExport, MentionsWrapper
      <4> HIDE DEF new
      <4>4. QED
        BY <4>2, <4>3, WithHas
    <3>5. QED
      BY <3>2, <3>3, <3>4 DEF Edited
  <2>4. QED
    BY <1>2, <2>2, <2>3 DEF Undone
<1>4. QED
  BY <1>1, <1>2, <1>3 DEF GivesBack

LEMMA InstrumentationBack ==
  ASSUME NEW was, NEW dir, AllUndoable(was, dir), NEW name, name = "instrumentation.ts", NEW new,
         new = IF ~ Has(dir, name) THEN dir
               ELSE IF IsInitCreatedInstrumentation(dir[name]) THEN Without(dir, {name})
               ELSE With(dir, name, RemoveRegisterGlasstrace(dir[name]))
  PROVE  GivesBack(was, dir, new, {name})
<1>1. \A n : n \notin {name} => SameAt(dir, new, n)
  BY SameReflexive, WithSame, WithoutSame
<1>2. name \notin Configs
  BY DEF Configs
<1>3. Undoable(name, was, dir)
  BY DEF AllUndoable
<1>4. CASE ~ Has(dir, name)
  <2>1. Undone(name, was, new)
    BY <1>3, <1>4, NoFile DEF Undoable
  <2>2. QED
    BY <1>1, <1>2, <2>1 DEF GivesBack, SameAt
<1>5. CASE Has(dir, name)
  <2>1. ASSUME Has(was, name), ~ UninitMisses(name, was[name])
        PROVE  Has(new, name) /\ new[name] = was[name]
    <3>1. dir[name] \in {was[name], was[name] \cup {"import", "call"}}
      BY <1>3, <2>1 DEF Undoable, Edited
    <3>2. /\ "import" \notin was[name] /\ "call" \notin was[name]
          /\ ~ IsInitCreatedInstrumentation(was[name] \cup {"call"})
      BY <2>1 DEF UninitMisses, HasRegisterGlasstraceCall
    <3>3. ~ IsInitCreatedInstrumentation(dir[name])
      BY <3>1, <3>2 DEF IsInitCreatedInstrumentation
    <3>4. RemoveRegisterGlasstrace(dir[name]) = was[name]
      BY <3>1, <3>2 DEF RemoveRegisterGlasstrace
    <3>5. QED
      BY <1>5, <3>3, <3>4, WithHas
  <2>2. ASSUME ~ Has(was, name) PROVE ~ Has(new, name)
    <3>1. dir[name] = {"import", "register", "call"}
      BY <1>3, <1>5, <2>2 DEF Undoable, Added
    <3>2. IsInitCreatedInstrumentation(dir[name])
      BY <3>1 DEF IsInitCreatedInstrumentation
    <3>3. new = Without(dir, {name})
      BY <1>5, <3>2
    <3>4. QED
      BY <3>3, Gone
  <2>3. Undone(name, was, new)
    BY <2>1, <2>2 DEF Undone
  <2>4. QED
    BY <1>1, <1>2, <2>3 DEF GivesBack, SameAt
<1>6. QED
  BY <1>4, <1>5

LEMMA OursBack ==
  ASSUME NEW was, NEW dir, NEW names \in SUBSET OursAlone
  PROVE  GivesBack(was, dir, Without(dir, names), names)
<1>1. \A n \in names : UninitMisses(n, was[n]) /\ n \notin Configs
  BY DEF UninitMisses, OursAlone, GlasstraceFiles, Configs
<1>2. \A n : n \notin names => SameAt(dir, Without(dir, names), n)
  BY WithoutIs DEF SameAt, Has
<1>3. \A n \in names : ~ Has(Without(dir, names), n)
  BY Gone
<1>4. QED
  BY <1>1, <1>2, <1>3, NoFile DEF GivesBack, SameAt

LEMMA NothingAssigned ==
  ASSUME NEW dir, DirSound(dir), Has(dir, ".env.local"), NoAssignment(dir[".env.local"])
  PROVE  ~ IsDevApiKey(EnvKey(dir))
<1>1. dir[".env.local"] \in Seq(EnvLine)
  BY DEF DirSound, FileSound, Has
<1>2. EnvKey(dir) = ""
  BY <1>1, ReadIs DEF EnvKey, NoAssignment
<1>3. QED
  BY <1>2, KeysAssumption DEF IsDevApiKey

LEMMA EnvBack ==
  ASSUME NEW was, NEW dir, AllUndoable(was, dir), DirSound(dir), NEW name, name = ".env.local",
         NEW kept, kept = WithoutGlasstraceLines(dir[name]), NEW new,
         \/ new = dir /\ (IsDevApiKey(EnvKey(dir)) \/ ~ Has(dir, name))
         \/ new = WithOrWithout(dir, name, kept, kept = <<>>) /\ Has(dir, name)
  PROVE  GivesBack(was, dir, new, {name})
<1>1. \A n : n \notin {name} => SameAt(dir, new, n)
  BY SameReflexive, WithSame, WithoutSame DEF WithOrWithout
<1>2. name \notin Configs
  BY DEF Configs
<1>3. Undoable(name, was, dir)
  BY DEF AllUndoable
<1>4. kept = LinesNamed(dir[name], {"user"})
  BY DEF WithoutGlasstraceLines
<1>5. ASSUME Has(was, name), ~ UninitMisses(name, was[name])
      PROVE  Has(new, name) /\ new[name] = was[name]
  <2>1. Has(dir, name) /\ kept = was[name] /\ NoAssignment(dir[name])
    BY <1>3, <1>4, <1>5 DEF Undoable, Edited
  <2>2. kept # <<>>
    BY <1>5, <2>1 DEF UninitMisses, EmptyText
  <2>3. new = With(dir, name, kept)
    BY <2>1, <2>2, NothingAssigned DEF WithOrWithout
  <2>4. QED
    BY <2>1, <2>3, WithHas
<1>6. ASSUME ~ Has(was, name) PROVE ~ Has(new, name)
  <2>1. CASE Has(dir, name)
    <3>1. kept = <<>> /\ NoAssignment(dir[name])
      BY <1>3, <1>4, <1>6, <2>1 DEF Undoable, Added
    <3>2. new = Without(dir, {name})
      BY <2>1, <3>1, NothingAssigned DEF WithOrWithout
    <3>3. QED
      BY <3>2, Gone
  <2>2. CASE ~ Has(dir, name)
    BY <2>2
  <2>3. QED
    BY <2>1, <2>2
<1>7. Undone(name, was, new)
  BY <1>5, <1>6 DEF Undone
<1>8. QED
  BY <1>1, <1>2, <1>7 DEF GivesBack, SameAt

LEMMA IgnoreBack ==
  ASSUME NEW was, NEW dir, AllUndoable(was, dir), NEW name, name = ".gitignore",
         NEW kept, kept = dir[name] \ GitignoreEntries, NEW new,
         new = IF Has(dir, name) THEN WithOrWithout(dir, name, kept, kept = {}) ELSE dir
  PROVE  GivesBack(was, dir, new, {name})
<1>1. \A n : n \notin {name} => SameAt(dir, new, n)
  BY SameReflexive, WithSame, WithoutSame DEF WithOrWithout
<1>2. name \notin Configs
  BY DEF Configs
<1>3. Undoable(name, was, dir)
  BY DEF AllUndoable
<1>4. ASSUME Has(was, name), ~ UninitMisses(name, was[name])
      PROVE  Has(new, name) /\ new[name] = was[name]
  <2>1. Has(dir, name) /\ kept = was[name]
    BY <1>3, <1>4 DEF Undoable, Edited
  <2>2. kept # {}
    BY <1>4, <2>1 DEF UninitMisses, EmptyText, InfoFiles
  <2>3. new = With(dir, name, kept)
    BY <2>1, <2>2 DEF WithOrWithout
  <2>4. QED
    BY <2>1, <2>3, WithHas
<1>5. ASSUME ~ Has(was, name) PROVE ~ Has(new, name)
  <2>1. CASE Has(dir, name)
    <3>1. kept = {}
      BY <1>3, <1>5, <2>1 DEF Undoable, Added
    <3>2. new = Without(dir, {name})
      BY <2>1, <3>1 DEF WithOrWithout
    <3>3. QED
      BY <3>2, Gone
  <2>2. CASE ~ Has(dir, name)
    BY <2>2
  <2>3. QED
    BY <2>1, <2>2
<1>6. Undone(name, was, new)
  BY <1>4, <1>5 DEF Undone
<1>7. QED
  BY <1>1, <1>2, <1>6 DEF GivesBack, SameAt

LEMMA EntriesBack ==
  ASSUME NEW was, NEW dir, AllUndoable(was, dir)
  PROVE  GivesBack(was, dir, WithoutMcpEntries(dir, AgentConfigs), AgentConfigs)
<1> DEFINE having == {n \in AgentConfigs : Has(dir, n) /\ HasEntry(dir[n])}
           gone == {n \in having : ~ dir[n].other}
           new == WithoutMcpEntries(dir, AgentConfigs)
<1>1. /\ DOMAIN new = DOMAIN dir \ gone
      /\ \A n \in DOMAIN new : new[n] = IF n \in having THEN WithoutEntry(dir[n]) ELSE dir[n]
  BY EntriesLeft
<1> HIDE DEF new
<1>2. \A n : n \notin AgentConfigs => SameAt(dir, new, n)
  BY <1>1 DEF SameAt, Has
<1>3. \A n \in Configs : n \notin AgentConfigs
  BY DEF Configs, AgentConfigs
<1>4. ASSUME NEW n \in AgentConfigs PROVE Undone(n, was, new)
  <2>1. \A text : UninitMisses(n, text)
    BY DEF UninitMisses, AgentConfigs, McpFiles
  <2>2. Undoable(n, was, dir)
    BY DEF AllUndoable
  <2>3. ~ Has(was, n) /\ Has(dir, n) => n \in gone
    BY <2>2 DEF Undoable, Added, HasEntry
  <2>4. ~ Has(was, n) => ~ Has(new, n)
    BY <1>1, <2>3 DEF Has
  <2>5. QED
    BY <2>1, <2>4 DEF Undone
<1>5. QED
  BY <1>2, <1>3, <1>4 DEF GivesBack, SameAt, new

LEMMA InfoBack ==
  ASSUME NEW was, NEW dir, AllUndoable(was, dir), DirSound(was)
  PROVE  GivesBack(was, dir, WithoutSections(dir, InfoFiles), InfoFiles)
<1> DEFINE marked == {n \in InfoFiles : Has(dir, n) /\ HasManagedSection(dir[n])}
           gone == {n \in marked : RemoveMarkerSection(dir[n]) = <<>>}
           new == WithoutSections(dir, InfoFiles)
<1>1. /\ DOMAIN new = DOMAIN dir \ gone
      /\ \A n \in DOMAIN new : new[n] = IF n \in marked THEN RemoveMarkerSection(dir[n]) ELSE dir[n]
  BY SectionsLeft
<1> HIDE DEF new
<1>2. \A n : n \notin InfoFiles => SameAt(dir, new, n)
  BY <1>1 DEF SameAt, Has
<1>3. \A n \in Configs : n \notin InfoFiles
  BY DEF Configs, InfoFiles
<1>4. ASSUME NEW n \in InfoFiles PROVE Undone(n, was, new)
  <2>1. Undoable(n, was, dir)
    BY DEF AllUndoable
  <2>2. ASSUME Has(was, n), ~ UninitMisses(n, was[n]) PROVE Has(new, n) /\ new[n] = was[n]
    <3>1. Has(dir, n) /\ dir[n] \in {was[n], was[n] \o Section}
      BY <2>1, <2>2 DEF Undoable, Edited
    <3>2. was[n] \in Seq(InfoLine) /\ SectionsWhole(was[n])
      BY <2>2 DEF DirSound, FileSound, Has
    <3>3. ~ HasManagedSection(was[n]) /\ was[n] # <<>>
      BY <2>2 DEF UninitMisses, EmptyText
    <3>4. CASE dir[n] = was[n]
      BY <1>1, <3>1, <3>3, <3>4 DEF Has
    <3>5. CASE dir[n] = was[n] \o Section
      <4>1. HasManagedSection(dir[n]) /\ RemoveMarkerSection(dir[n]) = was[n]
        BY <3>2, <3>3, <3>5, AddedSection
      <4>2. QED
        BY <1>1, <3>1, <3>3, <4>1 DEF Has
    <3>6. QED
      BY <3>1, <3>4, <3>5
  <2>3. ASSUME ~ Has(was, n), n # "glasstrace.mdc" PROVE ~ Has(new, n)
    <3>1. Has(dir, n) => dir[n] = Section
      BY <2>1, <2>3 DEF Undoable, Added
    <3>2. HasManagedSection(Section) /\ RemoveMarkerSection(Section) = <<>>
      BY SectionAlone, AddedSection
    <3>3. Has(dir, n) => n \in gone
      BY <3>1, <3>2
    <3>4. QED
      BY <1>1, <3>3 DEF Has
  <2>4. QED
    BY <2>2, <2>3 DEF Undone, UninitMayLeave
<1>5. QED
  BY <1>2, <1>3, <1>4 DEF GivesBack, SameAt, new

-----------------------------------------------------------------------------
\* One step after the other

LEMMA BehindIs ==
  /\ Behind("instrumentation") = Configs
  /\ Behind("directory") = Behind("instrumentation") \cup {"instrumentation.ts"}
  /\ Behind("discovery") = Behind("directory") \cup GlasstraceFiles
  /\ Behind("env-local") = Behind("discovery") \cup {"public", "static"}
  /\ Behind("gitignore") = Behind("env-local") \cup {".env.local"}
  /\ Behind("env-confirm") = Behind("gitignore")
  /\ Behind("mcp") = Behind("gitignore") \cup {".gitignore"}
  /\ Behind("info") = Behind("mcp") \cup AgentConfigs
  /\ Behind("exit") = Behind("info") \cup InfoFiles
  /\ \A pc \in {"idle", "marker", "next-config", "windsurf", "agents"} : Behind(pc) = {}
BY DEF Behind, OursAlone

\* The step that goes through these files of the directory.
LEMMA StepGivesBack ==
  ASSUME TypeOK, AllKept, Reversible, UNCHANGED original, cmd.name = "uninit", cmd'.root = cmd.root,
         \A d \in Sites : d # cmd.root => fs'[d] = fs[d],
         NEW names, GivesBack(original[cmd.root], Here, fs'[cmd.root], names),
         Behind(cmd'.pc) \subseteq Behind(cmd.pc) \cup names
  PROVE  Reversible'
<1> DEFINE was == original[cmd.root]
           new == fs'[cmd.root]
<1>0. /\ AllUndoable(was, Here) /\ DirSound(was) /\ cmd.root \in Sites
      /\ \A d \in Sites : DirSound(original[d]) /\ AllUndoable(original[d], fs[d])
      /\ \A n \in Behind(cmd.pc) : Undone(n, was, Here)
  BY ReversibleIs DEF Reversible
<1> HIDE DEF was, new
<1>1. GivesBack(was, Here, new, names)
  BY DEF was, new
<1>2. \A n \in names : Undone(n, was, new) /\ Undoable(n, was, new)
  <2>1. ASSUME NEW n \in names PROVE Undone(n, was, new) /\ Undoable(n, was, new)
    <3>1. Undone(n, was, new)
      BY <1>1 DEF GivesBack
    <3>2. n \in Configs => (Has(new, n) <=> Has(was, n))
      BY <1>0, <1>1 DEF GivesBack, AllUndoable, Undoable
    <3>3. QED
      BY <1>0, <3>1, <3>2, UndoneUndoable
  <2>2. QED
    BY <2>1
<1>3. AllUndoable(was, new)
  BY <1>0, <1>1, <1>2, ChangedUndoable DEF GivesBack
<1>4. ASSUME NEW n \in Behind(cmd'.pc) PROVE Undone(n, was, new)
  <2>1. CASE n \in names
    BY <1>2, <2>1
  <2>2. CASE n \notin names
    BY <1>0, <1>1, <1>4, <2>2, UndoneStays DEF GivesBack
  <2>3. QED
    BY <2>1, <2>2
<1>5. ASSUME NEW d \in Sites PROVE DirSound(original[d]) /\ AllUndoable(original[d], fs'[d])
  <2>1. CASE d = cmd.root
    BY <1>0, <1>3, <2>1 DEF was, new
  <2>2. CASE d # cmd.root
    BY <1>0, <2>2
  <2>3. QED
    BY <2>1, <2>2
<1>6. cmd'.root = cmd.root /\ original' = original
  OBVIOUS
<1>7. QED
  BY <1>4, <1>5, <1>6 DEF Reversible, was, new

LEMMA CleanedSites ==
  ASSUME TypeOK, NEW new, NEW files,
         files = [fs EXCEPT ![cmd.root] = new] \/ (files = fs /\ new = Here)
  PROVE  files[cmd.root] = new /\ \A d \in Dir : d # cmd.root => files[d] = fs[d]
<1>1. cmd.root \in Dir /\ DOMAIN fs = Dir
  BY DEF TypeOK, Command, Sites, Dir
<1>2. QED
  BY <1>1 DEF Here

LEMMA PartIs ==
  ASSUME TypeOK, NEW files, NEW parts, NEW pc, CleanInPart(files, parts, pc), ~ Fails
  PROVE  fs' = files /\ cmd'.pc = pc /\ cmd'.root = cmd.root
BY DEF CleanInPart, Continue, TypeOK, Command

LEMMA PartGivesBack ==
  ASSUME TypeOK, AllKept, Reversible, UNCHANGED original, cmd.name = "uninit",
         NEW new, NEW files, NEW parts, NEW pc, CleanInPart(files, parts, pc), ~ Fails,
         files = [fs EXCEPT ![cmd.root] = new] \/ (files = fs /\ new = Here),
         NEW names, GivesBack(original[cmd.root], Here, new, names),
         Behind(pc) \subseteq Behind(cmd.pc) \cup names
  PROVE  Reversible'
<1>1. fs' = files /\ cmd'.pc = pc /\ cmd'.root = cmd.root
  BY PartIs
<1>2. files[cmd.root] = new /\ \A d \in Dir : d # cmd.root => files[d] = fs[d]
  BY CleanedSites
<1>3. Sites \subseteq Dir
  BY DEF Sites, Dir
<1>4. QED
  BY <1>1, <1>2, <1>3, StepGivesBack

LEMMA CleanGivesBack ==
  ASSUME TypeOK, AllKept, Reversible, UNCHANGED original, cmd.name = "uninit",
         NEW new, NEW files, NEW pc, Clean(files, pc), ~ Fails,
         files = [fs EXCEPT ![cmd.root] = new] \/ (files = fs /\ new = Here),
         NEW names, GivesBack(original[cmd.root], Here, new, names),
         Behind(pc) \subseteq Behind(cmd.pc) \cup names
  PROVE  Reversible'
<1>1. CleanInPart(files, {fs}, pc)
  BY DEF Clean
<1>2. QED
  BY <1>1, PartGivesBack

Cleanable == TypeOK /\ AllKept /\ Reversible /\ ~ Fails

LEMMA CleanableIs ==
  ASSUME Cleanable
  PROVE  /\ TypeOK /\ AllKept /\ Reversible /\ ~ Fails /\ AllUndoable(original[cmd.root], Here)
         /\ DirSound(original[cmd.root]) /\ DirSound(Here)
BY ReversibleIs DEF Cleanable

LEMMA NextConfigGivesBack ==
  ASSUME Cleanable, UninitNextConfig
  PROVE  Reversible'
<1>1. GivesBack(original[cmd.root], Here, UnwrappedConfig(Here), Configs)
  BY CleanableIs, ConfigsBack
<1>2. /\ cmd.name = "uninit" /\ UNCHANGED original
      /\ Clean([fs EXCEPT ![cmd.root] = UnwrappedConfig(Here)], "instrumentation")
  BY DEF UninitNextConfig, Cleaned, At
<1>3. QED
  BY <1>1, <1>2, CleanableIs, BehindIs, CleanGivesBack

LEMMA InstrumentationGivesBack ==
  ASSUME Cleanable, UninitInstrumentation
  PROVE  Reversible'
<1> DEFINE name == "instrumentation.ts"
           new == IF ~ Has(Here, name) THEN Here
                  ELSE IF IsInitCreatedInstrumentation(Here[name]) THEN Without(Here, {name})
                  ELSE With(Here, name, RemoveRegisterGlasstrace(Here[name]))
<1>1. GivesBack(original[cmd.root], Here, new, {name})
  BY CleanableIs, InstrumentationBack
<1>2. /\ cmd.name = "uninit" /\ cmd.pc = "instrumentation" /\ UNCHANGED original
      /\ Clean([fs EXCEPT ![cmd.root] = new], "directory")
  BY DEF UninitInstrumentation, Cleaned, At
<1> HIDE DEF new
<1>3. QED
  BY <1>1, <1>2, CleanableIs, BehindIs, CleanGivesBack

LEMMA DirectoryGivesBack ==
  ASSUME Cleanable, UninitDirectory
  PROVE  Reversible'
<1>1. GivesBack(original[cmd.root], Here, Without(Here, GlasstraceFiles), GlasstraceFiles)
  BY OursBack DEF OursAlone
<1>2. /\ cmd.name = "uninit" /\ cmd.pc = "directory" /\ UNCHANGED original
      /\ Clean([fs EXCEPT ![cmd.root] = Without(Here, GlasstraceFiles)], "discovery")
  BY DEF UninitDirectory, Cleaned, At
<1>3. QED
  BY <1>1, <1>2, CleanableIs, BehindIs, CleanGivesBack

LEMMA DiscoveryGivesBack ==
  ASSUME Cleanable, UninitDiscovery
  PROVE  Reversible'
<1> DEFINE names == {"public", "static"}
           new == Without(Here, names)
<1>1. GivesBack(original[cmd.root], Here, new, names)
  BY OursBack DEF OursAlone
<1>2. /\ cmd.name = "uninit" /\ cmd.pc = "discovery" /\ UNCHANGED original
      /\ fs' = [fs EXCEPT ![cmd.root] = new] /\ Continue("env-local")
  BY CleanableIs DEF UninitDiscovery, Cleaned, At
<1>3. Behind("env-local") \subseteq Behind("discovery") \cup names
  BY BehindIs
<1> HIDE DEF names, new
<1>4. cmd'.pc = "env-local" /\ cmd'.root = cmd.root /\ Sites \subseteq Dir
  BY <1>2, CleanableIs DEF Continue, TypeOK, Command, Sites, Dir
<1>5. fs'[cmd.root] = new /\ \A d \in Dir : d # cmd.root => fs'[d] = fs[d]
  BY <1>2, CleanableIs, HereIs, EditedIs
<1>6. QED
  BY <1>1, <1>2, <1>3, <1>4, <1>5, CleanableIs, StepGivesBack

LEMMA EnvGivesBack ==
  ASSUME Cleanable, UninitEnvLocal
  PROVE  Reversible'
<1> DEFINE name == ".env.local"
           kept == WithoutGlasstraceLines(Here[name])
           new == WithOrWithout(Here, name, kept, kept = <<>>)
           files == IF Has(Here, name) THEN EnvWithUserLines(Here[name]) ELSE fs
           left == IF Has(Here, name) THEN new ELSE Here
           asks == IsDevApiKey(EnvKey(Here)) /\ ~ cmd.force
           names == {name}
<1>1. /\ cmd.name = "uninit" /\ cmd.pc = "env-local" /\ UNCHANGED original
      /\ \/ Clean(files, "gitignore")
         \/ /\ asks /\ UNCHANGED fs
            /\ cmd' = [cmd EXCEPT !.pc = "env-confirm", !.env = Here[name]]
  BY DEF UninitEnvLocal, At
<1>2. /\ Behind("gitignore") \subseteq Behind("env-local") \cup names
      /\ Behind("env-confirm") \subseteq Behind("env-local") \cup names
  BY BehindIs
<1>3. GivesBack(original[cmd.root], Here, left, names)
  BY CleanableIs, EnvBack
<1>4. asks => GivesBack(original[cmd.root], Here, Here, names)
  BY CleanableIs, EnvBack
<1>5. files = [fs EXCEPT ![cmd.root] = left] \/ (files = fs /\ left = Here)
  BY DEF EnvWithUserLines, Cleaned
<1> HIDE DEF new, files, left, asks, names
<1>6. CASE Clean(files, "gitignore")
  BY <1>1, <1>2, <1>3, <1>5, <1>6, CleanableIs, CleanGivesBack
<1>7. CASE asks /\ UNCHANGED fs /\ cmd' = [cmd EXCEPT !.pc = "env-confirm", !.env = Here[name]]
  <2>1. cmd'.pc = "env-confirm" /\ cmd'.root = cmd.root
    BY <1>7, CleanableIs DEF TypeOK, Command
  <2>2. fs'[cmd.root] = Here /\ \A d \in Sites : fs'[d] = fs[d]
    BY <1>7 DEF Here
  <2>3. QED
    BY <1>1, <1>2, <1>4, <1>7, <2>1, <2>2, CleanableIs, StepGivesBack
<1>8. QED
  BY <1>1, <1>6, <1>7

\* Nothing has changed since the question.
LEMMA ConfirmedGivesBack ==
  ASSUME Cleanable, Asked, Quiet, UninitConfirmed
  PROVE  Reversible'
<1> DEFINE name == ".env.local"
           kept == WithoutGlasstraceLines(Here[name])
           new == WithOrWithout(Here, name, kept, kept = <<>>)
           names == {name}
<1>1. /\ cmd.name = "uninit" /\ cmd.pc = "env-confirm" /\ UNCHANGED original
      /\ UNCHANGED fs \/ fs' = EnvWithUserLines(cmd.env)
      /\ cmd'.pc = "gitignore" /\ cmd'.root = cmd.root
  <2>1. cmd \in Command
    BY CleanableIs DEF TypeOK
  <2>2. QED
    BY <2>1, CleanableIs, UninitConfirmedIs DEF UninitConfirmed, At, Command
<1>2. Has(Here, name) /\ cmd.env = Here[name]
  BY <1>1 DEF Asked, Quiet
<1>3. Behind("gitignore") = Behind("env-confirm") /\ names \subseteq Behind("gitignore")
  BY BehindIs
<1>4. GivesBack(original[cmd.root], Here, new, names)
  BY <1>2, CleanableIs, EnvBack
<1>5. CASE UNCHANGED fs
  <2>1. fs'[cmd.root] = Here /\ \A d \in Sites : fs'[d] = fs[d]
    BY <1>5 DEF Here
  <2>2. GivesBack(original[cmd.root], Here, Here, {})
    BY SameReflexive DEF GivesBack
  <2>3. QED
    BY <1>1, <1>3, <2>1, <2>2, CleanableIs, StepGivesBack
<1>6. CASE fs' = EnvWithUserLines(cmd.env)
  <2>1. fs' = [fs EXCEPT ![cmd.root] = new]
    BY <1>2, <1>6 DEF EnvWithUserLines, Cleaned
  <2> HIDE DEF new, names
  <2>2. fs'[cmd.root] = new /\ \A d \in Dir : d # cmd.root => fs'[d] = fs[d]
    BY <2>1, CleanableIs, HereIs, EditedIs
  <2>3. Sites \subseteq Dir
    BY DEF Sites, Dir
  <2>4. QED
    BY <1>1, <1>3, <1>4, <2>2, <2>3, CleanableIs, StepGivesBack
<1>7. QED
  BY <1>1, <1>5, <1>6

LEMMA IgnoreGivesBack ==
  ASSUME Cleanable, UninitGitignore
  PROVE  Reversible'
<1> DEFINE name == ".gitignore"
           kept == Here[name] \ GitignoreEntries
           new == IF Has(Here, name) THEN WithOrWithout(Here, name, kept, kept = {}) ELSE Here
           files == IF Has(Here, name) THEN Cleaned(WithOrWithout(Here, name, kept, kept = {})) ELSE fs
           names == {name}
<1>1. GivesBack(original[cmd.root], Here, new, names)
  BY CleanableIs, IgnoreBack
<1>2. /\ cmd.name = "uninit" /\ cmd.pc = "gitignore" /\ UNCHANGED original /\ Clean(files, "mcp")
  BY DEF UninitGitignore, At
<1>3. files = [fs EXCEPT ![cmd.root] = new] \/ (files = fs /\ new = Here)
  BY DEF Cleaned
<1>4. Behind("mcp") \subseteq Behind("gitignore") \cup names
  BY BehindIs
<1> HIDE DEF new, files, names
<1>5. QED
  BY <1>1, <1>2, <1>3, <1>4, CleanableIs, CleanGivesBack

LEMMA McpGivesBack ==
  ASSUME Cleanable, UninitMcp
  PROVE  Reversible'
<1> DEFINE new == WithoutMcpEntries(Here, AgentConfigs)
           here == [fs EXCEPT ![cmd.root] = new]
           files == IF cmd.root \in site.at["windsurf"]
                    THEN [here EXCEPT !["home"] = WithoutMcpEntries(@, {"mcp_config.json"})]
                    ELSE here
<1>1. GivesBack(original[cmd.root], Here, new, AgentConfigs)
  BY CleanableIs, EntriesBack
<1>2. /\ cmd.name = "uninit" /\ cmd.pc = "mcp" /\ UNCHANGED original
      /\ \E parts : CleanInPart(files, parts, "info")
  BY McpOrderIs DEF UninitMcp, At, Cleaned
<1>3. cmd.root \in Sites /\ Sites \subseteq Dir /\ "home" \notin Sites
  BY CleanableIs, ReversibleIs
<1> HIDE DEF new
<1>4. here = [fs EXCEPT ![cmd.root] = new]
  OBVIOUS
<1> HIDE DEF here
<1>5. here[cmd.root] = new /\ \A d \in Dir : d # cmd.root => here[d] = fs[d]
  BY <1>4, CleanableIs, CleanedSites
<1>6. \A d \in Sites : files[d] = here[d]
  BY <1>3
<1> HIDE DEF files
<1>7. fs' = files /\ cmd'.pc = "info" /\ cmd'.root = cmd.root
  BY <1>2, CleanableIs, PartIs
<1>8. fs'[cmd.root] = new /\ \A d \in Sites : d # cmd.root => fs'[d] = fs[d]
  BY <1>3, <1>5, <1>6, <1>7
<1>9. Behind(cmd'.pc) \subseteq Behind(cmd.pc) \cup AgentConfigs
  BY <1>2, <1>7, BehindIs
<1>10. QED
  BY <1>1, <1>2, <1>7, <1>8, <1>9, CleanableIs, StepGivesBack

LEMMA InfoGivesBack ==
  ASSUME Cleanable, UninitInfo
  PROVE  Reversible'
<1> DEFINE new == WithoutSections(Here, InfoFiles)
<1>1. GivesBack(original[cmd.root], Here, new, InfoFiles)
  BY CleanableIs, InfoBack
<1>2. /\ cmd.name = "uninit" /\ cmd.pc = "info" /\ UNCHANGED original
      /\ \E parts : CleanInPart([fs EXCEPT ![cmd.root] = new], parts, "exit")
  BY InfoOrderIs DEF UninitInfo, At, Cleaned
<1> HIDE DEF new
<1>3. QED
  BY <1>1, <1>2, CleanableIs, BehindIs, PartGivesBack

-----------------------------------------------------------------------------
\* uninit is the only command that goes through files

LEMMA MarkerGivesBack ==
  ASSUME Cleanable, UninitMarker
  PROVE  Reversible'
<1>1. SitesUndoable(fs')
  BY CleanableIs, OwnSites
<1>2. cmd'.pc = "next-config" /\ UNCHANGED original
  BY CleanableIs DEF UninitMarker, Continue, TypeOK, Command
<1>3. Behind(cmd'.pc) = {}
  BY <1>2, BehindIs
<1>4. QED
  BY <1>1, <1>2, <1>3, CleanableIs DEF Reversible, SitesUndoable

LEMMA IdleGivesBack ==
  ASSUME Cleanable, UninitExit \/ StartUninit
  PROVE  Reversible'
<1>1. UNCHANGED <<fs, original>>
  BY StartsAre DEF UninitExit, Starts
<1>2. cmd'.name = "uninit" => Behind(cmd'.pc) = {}
  <2>1. CASE UninitExit
    BY <2>1, CleanableIs, FinishGoes, BehindIs DEF UninitExit, TypeOK
  <2>2. CASE StartUninit
    BY <2>2, CleanableIs, StartsTyped, BehindIs
  <2>3. QED
    BY <2>1, <2>2
<1>3. QED
  BY <1>1, <1>2, CleanableIs DEF Reversible

LEMMA UninitGivesBackFiles ==
  ASSUME Cleanable, Asked, Quiet, UninitStep
  PROVE  Reversible'
BY MarkerGivesBack, IdleGivesBack, NextConfigGivesBack, InstrumentationGivesBack,
   DirectoryGivesBack, DiscoveryGivesBack, EnvGivesBack, ConfirmedGivesBack, IgnoreGivesBack,
   McpGivesBack, InfoGivesBack DEF UninitStep

LEMMA OthersBehindNothing ==
  ASSUME TypeOK, Staged, Next, ~ Fails, ~ SdkStep, ~ UninitStep, cmd'.name = "uninit"
  PROVE  Behind(cmd'.pc) = {}
<1>1. CASE Starts
  BY <1>1, StartsTyped, BehindIs DEF Starts
<1>2. CASE Scaffolds
  BY <1>2, ScaffoldGoes, BehindIs
<1>3. CASE ~ Starts /\ ~ Scaffolds
  <2>1. CASE cmd' = cmd /\ UserEditsWindsurf
    BY <2>1, BehindIs DEF UserEditsWindsurf
  <2>2. CASE cmd'.pc \in {"idle", "windsurf"}
    BY <2>2, BehindIs
  <2>3. CASE WindsurfReplace
    <3>1. cmd'.pc = "agents"
      BY <2>3 DEF WindsurfReplace, WindsurfThrows, WindsurfReady, TypeOK, Command
    <3>2. QED
      BY <3>1, BehindIs
  <2>4. CASE GoesOn(cmd') /\ ~ WindsurfReplace
    <3>1. cmd.name = "uninit" /\ cmd.pc # "idle"
      BY <2>4 DEF GoesOn
    <3>2. ~ InitStep
      BY <1>3, <3>1 DEF InitStep, Starts, InitInstrumentation, InitNextConfig, InitEnvLocal,
         InitGitignore, InitAnonKey, InitDiscovery, InitCi, InitCoverage, InitVerify, InitAgent, At
    <3>3. ~ McpStep
      BY <1>3, <2>4, <3>1 DEF McpStep, Starts, McpAddResolve, McpAddAgent, AgentsDone,
         WindsurfStage, Inject, UpdateGitignore, WriteMcpMarker, At
    <3>4. ~ UpgradeAll
      BY <3>1 DEF UpgradeAll, At
    <3>5. ~ Killed
      BY DEF Killed
    <3>6. UserEditsWindsurf
      BY <1>3, <3>2, <3>3, <3>4, <3>5 DEF Next, Starts
    <3>7. QED
      BY <3>6, BehindIs DEF UserEditsWindsurf
  <2>5. QED
    BY <1>3, <2>1, <2>2, <2>3, <2>4, NextGoes DEF Goes
<1>4. QED
  BY <1>1, <1>2, <1>3

LEMMA OthersReversible ==
  ASSUME Cleanable, Staged, Next, ~ SdkStep, ~ UninitStep
  PROVE  Reversible'
<1>1. SitesUndoable(fs')
  BY CleanableIs, OthersSites
<1>2. original' = original
  BY HistoryKept
<1>3. cmd'.name = "uninit" => Behind(cmd'.pc) = {}
  BY CleanableIs, OthersBehindNothing
<1>4. QED
  BY <1>1, <1>2, <1>3, CleanableIs DEF Reversible, SitesUndoable

-----------------------------------------------------------------------------
\* As long as it is quiet

LEMMA WasQuiet ==
  ASSUME TypeOK, Next, Quiet'
  PROVE  Quiet /\ ~ Fails /\ ~ SdkStep
<1>1. budget.faults \in Nat /\ DOMAIN budget = {"commands", "faults", "claims", "edits", "minted"}
  BY DEF TypeOK
<1>2. budget'.faults = budget.faults \/ budget'.faults = budget.faults + 1
  BY <1>1, NextSpends DEF Spends, Fails
<1>3. Fails => budget'.faults = budget.faults + 1
  BY <1>1 DEF Fails
<1>4. budget.faults = 0 /\ ~ Fails
  BY <1>1, <1>2, <1>3 DEF Quiet
<1>5. ~ SdkStep
  <2>1. DOMAIN sdk = {"state", "claim", "env"}
    BY DEF TypeOK
  <2>2. CASE SdkStarts
    BY <2>1, <2>2 DEF SdkStarts, Quiet
  <2>3. CASE SdkSeesMarker
    BY <2>1, <2>3 DEF SdkSeesMarker, Quiet
  <2>4. CASE SdkReadsEnv
    BY <2>1, <2>4 DEF SdkReadsEnv, Quiet
  <2>5. CASE SdkWritesKey
    BY <2>1, <2>5 DEF SdkWritesKey, Quiet
  <2>6. CASE SdkRefreshes
    BY <2>1, <2>6 DEF SdkRefreshes, Quiet
  <2>7. QED
    BY <2>2, <2>3, <2>4, <2>5, <2>6 DEF SdkStep
<1>6. QED
  BY <1>4, <1>5, OthersLeaveSdk DEF Quiet

LEMMA StepReversible ==
  ASSUME CliInv, QuietlyReversible, Next
  PROVE  QuietlyReversible'
<1> SUFFICES ASSUME Quiet' PROVE Reversible'
  BY DEF QuietlyReversible
<1>1. Quiet /\ ~ Fails /\ ~ SdkStep
  BY WasQuiet DEF CliInv
<1>2. Cleanable /\ Staged /\ Asked
  BY <1>1 DEF CliInv, QuietlyReversible, Cleanable
<1>3. QED
  BY <1>1, <1>2, UninitGivesBackFiles, OthersReversible

LEMMA StartReversible == Init => QuietlyReversible
<1> SUFFICES ASSUME Init PROVE Reversible
  BY DEF QuietlyReversible
<1>1. fs = original /\ cmd.name = "none"
  BY DEF Init, Idle
<1>2. \A d \in Sites : DirSound(original[d])
  BY InitSound DEF CliInv, AllKept, Sites, Dir, Init
<1>3. QED
  BY <1>1, <1>2, StartUndoable DEF Reversible

LEMMA StutterReversible == QuietlyReversible /\ UNCHANGED vars => QuietlyReversible'
BY DEF QuietlyReversible, Quiet, Reversible, vars

\* What is left when uninit ends.
LEMMA AllGivenBack ==
  ASSUME TypeOK, Reversible, At("uninit", "exit"), NEW n
  PROVE  LET was == original[cmd.root]
             now == fs[cmd.root]
         IN /\ Has(was, n) /\ ~ UninitMisses(n, was[n]) => Has(now, n) /\ now[n] = was[n]
            /\ ~ Has(was, n) /\ Has(now, n) => UninitMayLeave(n)
<1> DEFINE was == original[cmd.root]
           now == fs[cmd.root]
<1>1. Undoable(n, was, now) /\ \A m \in Behind("exit") : Undone(m, was, now)
  BY DEF Reversible, TypeOK, Command, At, AllUndoable
<1> HIDE DEF was, now
<1>2. CASE n \in Behind("exit")
  BY <1>1, <1>2 DEF Undone, was, now
<1>3. CASE n \in Instrumentation \ {"instrumentation.ts"}
  BY <1>3 DEF UninitMisses, UninitMayLeave
<1>4. CASE n \notin Behind("exit") \cup (Instrumentation \ {"instrumentation.ts"})
  <2>1. /\ n \notin Instrumentation \cup Configs \cup InfoFiles \cup {".env.local", ".gitignore"}
        /\ n \notin OursAlone \cup AgentConfigs
    BY <1>4 DEF Behind
  <2>2. Has(was, n) /\ ~ UninitMisses(n, was[n]) => Has(now, n) /\ now[n] = was[n]
    BY <1>1, <2>1 DEF Undoable, Edited
  <2>3. ~ (~ Has(was, n) /\ Has(now, n))
    BY <1>1, <2>1 DEF Undoable, Added
  <2>4. QED
    BY <2>2, <2>3 DEF was, now
<1>5. QED
  BY <1>2, <1>3, <1>4

LEMMA ExitRestores ==
  ASSUME TypeOK, QuietlyReversible, At("uninit", "exit"),
         budget.faults = 0, sdk.state = "absent", sdk.claim = "no"
  PROVE  LET now == fs[cmd.root]
             was == original[cmd.root]
             kept == {n \in DOMAIN was : Has(now, n) /\ now[n] = was[n]}
             left == DOMAIN now \ DOMAIN was
         IN /\ \A n \in DOMAIN was \ kept : UninitMisses(n, was[n])
            /\ \A n \in left : UninitMayLeave(n)
<1>1. Reversible
  BY DEF QuietlyReversible, Quiet
<1>2. QED
  BY <1>1, AllGivenBack DEF Has

\* Where nothing came in between, uninit gives the directory back as it was
\* before the first command: the files that were there, but for what
\* UninitMisses names, and no others, but for what UninitMayLeave names.
THEOREM UninitGivesBack == Spec => UninitRestores
<1>1. Init => CliInv /\ QuietlyReversible
  BY InitSound, StartReversible
<1>2. CliInv /\ QuietlyReversible /\ [Next]_vars => CliInv' /\ QuietlyReversible'
  BY NextSound, StutterSound, StepReversible, StutterReversible
<1>3. CliInv /\ QuietlyReversible =>
        (/\ At("uninit", "exit") /\ cmd'.exit = "done"
         /\ budget.faults = 0 /\ sdk.state = "absent" /\ sdk.claim = "no"
         => LET now == fs[cmd.root]
                was == original[cmd.root]
                kept == {n \in DOMAIN was : Has(now, n) /\ now[n] = was[n]}
                left == DOMAIN now \ DOMAIN was
            IN /\ \A n \in DOMAIN was \ kept : UninitMisses(n, was[n])
               /\ \A n \in left : UninitMayLeave(n))
  BY ExitRestores DEF CliInv
<1>4. QED
  BY <1>1, <1>2, <1>3, PTL DEF Spec, UninitRestores

-----------------------------------------------------------------------------
\* What init has set up and uninit taken away

HasCall(dir) ==
  \E n \in Instrumentation :
    /\ Has(dir, n) /\ dir[n] \cap {"import", "call", "callOpts"} # {}
    /\ n = "instrumentation.ts" => "import" \in dir[n] \/ HasRegisterGlasstraceCall(dir[n])
HasConfig(dir) == Has(dir, "mcp.json") /\ HasEntry(dir["mcp.json"])
HasStamp(dir, key) == Has(dir, "mcp-connected") /\ dir["mcp-connected"].key = key

\* init, from the step after each part on.
StampedPcs == {"coverage", "verify"}
ConfiguredPcs == {"inject", "ignore", "marker"} \cup StampedPcs
ResolvedPcs == {"ci", "agents", "windsurf"} \cup ConfiguredPcs
KeyPcs == {"discovery"} \cup ResolvedPcs
CallPcs == {"next-config", "env-local", "gitignore", "anon-key"} \cup KeyPcs

Configured == cmd.wrote /\ HasConfig(Here)

SetUp ==
  /\ cmd.pc \in CallPcs => HasCall(Here)
  /\ cmd.pc \in KeyPcs => Has(Here, "anon_key")
  /\ cmd.pc \in ResolvedPcs => cmd.credential = EffectiveCredential(Here)
  /\ cmd.pc \in {"agents", "windsurf"} => "generic" \in cmd.todo \/ Configured
  /\ cmd.pc \in ConfiguredPcs => Configured
  /\ cmd.pc \in StampedPcs => HasStamp(Here, cmd.credential.key)

NoImport(dir) == Has(dir, "instrumentation.ts") => "import" \notin dir["instrumentation.ts"]
NoneOfOurs(dir) == \A n \in GlasstraceFiles : ~ Has(dir, n)
NoEntries(dir) == \A n \in AgentConfigs : Has(dir, n) => ~ HasEntry(dir[n])

\* uninit, likewise.
EntriesGonePcs == {"info", "exit"}
OursGonePcs == {"discovery", "env-local", "env-confirm", "gitignore", "mcp"} \cup EntriesGonePcs
ImportGonePcs == {"directory"} \cup OursGonePcs

Cleared ==
  /\ cmd.pc \in ImportGonePcs => NoImport(Here)
  /\ cmd.pc \in OursGonePcs => NoneOfOurs(Here)
  /\ cmd.pc \in EntriesGonePcs => NoEntries(Here)

Settled ==
  /\ cmd.name = "init" /\ cmd.yes => SetUp
  /\ cmd.name = "uninit" => Cleared

QuietlySettled == Quiet => Settled

-----------------------------------------------------------------------------
\* uninit

LEMMA ClearedStays ==
  ASSUME NEW dir, NEW new, NEW names, \A n : n \notin names => SameAt(dir, new, n)
  PROVE  /\ "instrumentation.ts" \notin names /\ NoImport(dir) => NoImport(new)
         /\ names \cap GlasstraceFiles = {} /\ NoneOfOurs(dir) => NoneOfOurs(new)
         /\ names \cap AgentConfigs = {} /\ NoEntries(dir) => NoEntries(new)
BY DEF NoImport, NoneOfOurs, NoEntries, SameAt

LEMMA NamesApart ==
  /\ "instrumentation.ts" \notin GlasstraceFiles \cup AgentConfigs \cup InfoFiles
  /\ GlasstraceFiles \cap (AgentConfigs \cup InfoFiles) = {}
  /\ AgentConfigs \cap InfoFiles = {}
  /\ ({"public", "static", ".env.local", ".gitignore"} \cap
       ({"instrumentation.ts"} \cup GlasstraceFiles \cup AgentConfigs)) = {}
BY DEF GlasstraceFiles, AgentConfigs, InfoFiles

\* The step that leaves this directory, and goes on there.
LEMMA ClearedStep ==
  ASSUME Cleared, cmd.name = "uninit", NEW names, \A n : n \notin names => SameAt(Here, Here', n),
         cmd'.pc \in ImportGonePcs => NoImport(Here') \/
           ("instrumentation.ts" \notin names /\ cmd.pc \in ImportGonePcs),
         cmd'.pc \in OursGonePcs => NoneOfOurs(Here') \/
           (names \cap GlasstraceFiles = {} /\ cmd.pc \in OursGonePcs),
         cmd'.pc \in EntriesGonePcs => NoEntries(Here') \/
           (names \cap AgentConfigs = {} /\ cmd.pc \in EntriesGonePcs)
  PROVE  Cleared'
<1>1. cmd'.pc \in ImportGonePcs => NoImport(Here')
  BY ClearedStays DEF Cleared
<1>2. cmd'.pc \in OursGonePcs => NoneOfOurs(Here')
  BY ClearedStays DEF Cleared
<1>3. cmd'.pc \in EntriesGonePcs => NoEntries(Here')
  BY ClearedStays DEF Cleared
<1>4. (cmd'.pc \in ImportGonePcs) <=> (cmd.pc \in ImportGonePcs)'
  BY DEF ImportGonePcs, OursGonePcs, EntriesGonePcs
<1>5. QED
  BY <1>1, <1>2, <1>3 DEF Cleared, NoImport, NoneOfOurs, NoEntries, ImportGonePcs, OursGonePcs,
     EntriesGonePcs

LEMMA NothingCleared ==
  ASSUME cmd'.pc \notin ImportGonePcs
  PROVE  Cleared'
BY DEF Cleared, ImportGonePcs, OursGonePcs, EntriesGonePcs

\* The step that changes these files of the directory.
LEMMA PartClears ==
  ASSUME Cleanable, Cleared, cmd.name = "uninit",
         NEW new, NEW files, NEW parts, NEW pc, CleanInPart(files, parts, pc),
         files = [fs EXCEPT ![cmd.root] = new] \/ (files = fs /\ new = Here),
         NEW names, \A n : n \notin names => SameAt(Here, new, n),
         pc \in ImportGonePcs => NoImport(new) \/
           ("instrumentation.ts" \notin names /\ cmd.pc \in ImportGonePcs),
         pc \in OursGonePcs => NoneOfOurs(new) \/
           (names \cap GlasstraceFiles = {} /\ cmd.pc \in OursGonePcs),
         pc \in EntriesGonePcs => NoEntries(new) \/
           (names \cap AgentConfigs = {} /\ cmd.pc \in EntriesGonePcs)
  PROVE  Cleared'
<1>1. fs' = files /\ cmd'.pc = pc /\ cmd'.root = cmd.root
  BY PartIs DEF Cleanable
<1>2. files[cmd.root] = new
  BY CleanedSites DEF Cleanable
<1>3. Here' = new
  BY <1>1, <1>2 DEF Here
<1>4. QED
  BY <1>1, <1>3, ClearedStep

LEMMA CleanClears ==
  ASSUME Cleanable, Cleared, cmd.name = "uninit",
         NEW new, NEW files, NEW pc, Clean(files, pc),
         files = [fs EXCEPT ![cmd.root] = new] \/ (files = fs /\ new = Here),
         NEW names, \A n : n \notin names => SameAt(Here, new, n),
         pc \in ImportGonePcs => NoImport(new) \/
           ("instrumentation.ts" \notin names /\ cmd.pc \in ImportGonePcs),
         pc \in OursGonePcs => NoneOfOurs(new) \/
           (names \cap GlasstraceFiles = {} /\ cmd.pc \in OursGonePcs),
         pc \in EntriesGonePcs => NoEntries(new) \/
           (names \cap AgentConfigs = {} /\ cmd.pc \in EntriesGonePcs)
  PROVE  Cleared'
<1>1. CleanInPart(files, {fs}, pc)
  BY DEF Clean
<1>2. QED
  BY <1>1, PartClears

LEMMA UninitPcs ==
  /\ "next-config" \notin ImportGonePcs /\ "instrumentation" \notin ImportGonePcs
  /\ "marker" \notin ImportGonePcs /\ "idle" \notin ImportGonePcs
  /\ "directory" \in ImportGonePcs \ OursGonePcs
  /\ \A pc \in {"discovery", "env-local", "env-confirm", "gitignore", "mcp"} :
       pc \in ImportGonePcs /\ pc \in OursGonePcs /\ pc \notin EntriesGonePcs
  /\ \A pc \in {"info", "exit"} :
       pc \in ImportGonePcs /\ pc \in OursGonePcs /\ pc \in EntriesGonePcs
  /\ EntriesGonePcs \subseteq OursGonePcs /\ OursGonePcs \subseteq ImportGonePcs
BY DEF ImportGonePcs, OursGonePcs, EntriesGonePcs

LEMMA EarlyClears ==
  ASSUME Cleanable, UninitMarker \/ UninitNextConfig \/ UninitExit
  PROVE  Cleared'
<1>0. cmd \in Command /\ TypeOK /\ ~ Fails
  BY DEF Cleanable, TypeOK
<1>1. CASE UninitMarker
  BY <1>0, <1>1, NothingCleared, UninitPcs DEF UninitMarker, Continue, Command
<1>2. CASE UninitNextConfig
  BY <1>0, <1>2, PartIs, NothingCleared, UninitPcs DEF UninitNextConfig, Clean
<1>3. CASE UninitExit
  BY <1>0, <1>3, FinishGoes, NothingCleared, UninitPcs DEF UninitExit
<1>4. QED
  BY <1>1, <1>2, <1>3

LEMMA InstrumentationClears ==
  ASSUME Cleanable, Cleared, UninitInstrumentation
  PROVE  Cleared'
<1> DEFINE name == "instrumentation.ts"
           new == IF ~ Has(Here, name) THEN Here
                  ELSE IF IsInitCreatedInstrumentation(Here[name]) THEN Without(Here, {name})
                  ELSE With(Here, name, RemoveRegisterGlasstrace(Here[name]))
           names == {name}
<1>1. GivesBack(original[cmd.root], Here, new, names)
  BY CleanableIs, InstrumentationBack
<1>2. /\ cmd.name = "uninit" /\ cmd.pc = "instrumentation"
      /\ Clean([fs EXCEPT ![cmd.root] = new], "directory")
  BY DEF UninitInstrumentation, Cleaned, At
<1>3. NoImport(new)
  <2>1. CASE ~ Has(Here, name)
    BY <2>1 DEF NoImport
  <2>2. CASE Has(Here, name) /\ IsInitCreatedInstrumentation(Here[name])
    <3>1. ~ Has(Without(Here, names), name)
      BY Gone
    <3>2. QED
      BY <2>2, <3>1 DEF NoImport
  <2>3. CASE Has(Here, name) /\ ~ IsInitCreatedInstrumentation(Here[name])
    <3>1. With(Here, name, RemoveRegisterGlasstrace(Here[name]))[name] = Here[name] \ {"call", "import"}
      BY WithHas DEF RemoveRegisterGlasstrace
    <3>2. QED
      BY <2>3, <3>1 DEF NoImport
  <2>4. QED
    BY <2>1, <2>2, <2>3
<1>4. \A n : n \notin names => SameAt(Here, new, n)
  BY <1>1 DEF GivesBack
<1> HIDE DEF new, names
<1>5. QED
  BY <1>2, <1>3, <1>4, UninitPcs, CleanClears

LEMMA DirectoryClears ==
  ASSUME Cleanable, Cleared, UninitDirectory
  PROVE  Cleared'
<1> DEFINE new == Without(Here, GlasstraceFiles)
<1>1. GivesBack(original[cmd.root], Here, new, GlasstraceFiles)
  BY OursBack DEF OursAlone
<1>2. /\ cmd.name = "uninit" /\ cmd.pc = "directory"
      /\ Clean([fs EXCEPT ![cmd.root] = new], "discovery")
  BY DEF UninitDirectory, Cleaned, At
<1>3. NoneOfOurs(new)
  BY Gone DEF NoneOfOurs
<1>4. \A n : n \notin GlasstraceFiles => SameAt(Here, new, n)
  BY <1>1 DEF GivesBack
<1> HIDE DEF new
<1>5. QED
  BY <1>2, <1>3, <1>4, NamesApart, UninitPcs, CleanClears

LEMMA DiscoveryClears ==
  ASSUME Cleanable, Cleared, UninitDiscovery
  PROVE  Cleared'
<1> DEFINE names == {"public", "static"}
           new == Without(Here, names)
<1>1. GivesBack(original[cmd.root], Here, new, names)
  BY OursBack DEF OursAlone
<1>2. /\ cmd.name = "uninit" /\ cmd.pc = "discovery"
      /\ fs' = [fs EXCEPT ![cmd.root] = new] /\ Continue("env-local")
  BY CleanableIs DEF UninitDiscovery, Cleaned, At
<1>3. "instrumentation.ts" \notin names /\ names \cap GlasstraceFiles = {}
  BY DEF GlasstraceFiles
<1>4. \A n : n \notin names => SameAt(Here, new, n)
  BY <1>1 DEF GivesBack
<1> HIDE DEF new, names
<1>5. cmd'.pc = "env-local" /\ cmd'.root = cmd.root
  BY <1>2, CleanableIs DEF Continue, TypeOK, Command
<1>6. fs'[cmd.root] = new
  BY <1>2, CleanableIs, CleanedSites
<1>7. Here' = new
  BY <1>5, <1>6 DEF Here
<1>8. QED
  BY <1>2, <1>3, <1>4, <1>5, <1>7, UninitPcs, ClearedStep

LEMMA IgnoreClears ==
  ASSUME Cleanable, Cleared, UninitGitignore
  PROVE  Cleared'
<1> DEFINE name == ".gitignore"
           kept == Here[name] \ GitignoreEntries
           new == IF Has(Here, name) THEN WithOrWithout(Here, name, kept, kept = {}) ELSE Here
           files == IF Has(Here, name) THEN Cleaned(WithOrWithout(Here, name, kept, kept = {})) ELSE fs
           names == {name}
<1>1. GivesBack(original[cmd.root], Here, new, names)
  BY CleanableIs, IgnoreBack
<1>2. cmd.name = "uninit" /\ cmd.pc = "gitignore" /\ Clean(files, "mcp")
  BY DEF UninitGitignore, At
<1>3. files = [fs EXCEPT ![cmd.root] = new] \/ (files = fs /\ new = Here)
  BY DEF Cleaned
<1>4. "instrumentation.ts" \notin names /\ names \cap GlasstraceFiles = {}
  BY DEF GlasstraceFiles
<1>5. \A n : n \notin names => SameAt(Here, new, n)
  BY <1>1 DEF GivesBack
<1> HIDE DEF new, files, names
<1>6. QED
  BY <1>2, <1>3, <1>4, <1>5, UninitPcs, CleanClears

LEMMA InfoClears ==
  ASSUME Cleanable, Cleared, UninitInfo
  PROVE  Cleared'
<1> DEFINE new == WithoutSections(Here, InfoFiles)
<1>1. GivesBack(original[cmd.root], Here, new, InfoFiles)
  BY CleanableIs, InfoBack
<1>2. /\ cmd.name = "uninit" /\ cmd.pc = "info"
      /\ \E parts : CleanInPart([fs EXCEPT ![cmd.root] = new], parts, "exit")
  BY InfoOrderIs DEF UninitInfo, At, Cleaned
<1>3. \A n : n \notin InfoFiles => SameAt(Here, new, n)
  BY <1>1 DEF GivesBack
<1> HIDE DEF new
<1>4. QED
  BY <1>2, <1>3, NamesApart, UninitPcs, PartClears

\* Of the files that count none is .env.local.
LEMMA EnvStepClears ==
  ASSUME Cleanable, Cleared, cmd.name = "uninit", cmd.pc \in {"env-local", "env-confirm"},
         cmd'.pc \in {"env-confirm", "gitignore"}, cmd'.root = cmd.root,
         UNCHANGED fs \/ \E env : fs' = EnvWithUserLines(env)
  PROVE  Cleared'
<1> DEFINE name == ".env.local"
           names == {name}
           kept(env) == WithoutGlasstraceLines(env)
           new(env) == WithOrWithout(Here, name, kept(env), kept(env) = <<>>)
<1>1. \A n : n \notin names => SameAt(Here, Here', n)
  <2>1. CASE UNCHANGED fs
    <3>1. Here' = Here
      BY <2>1 DEF Here
    <3>2. QED
      BY <3>1, SameReflexive
  <2>2. ASSUME NEW env, fs' = EnvWithUserLines(env) PROVE Here' = new(env)
    <3>1. fs' = [fs EXCEPT ![cmd.root] = new(env)]
      BY <2>2 DEF EnvWithUserLines, Cleaned
    <3> HIDE DEF new
    <3>2. fs'[cmd.root] = new(env)
      BY <3>1, CleanableIs, CleanedSites
    <3>3. QED
      BY <3>2 DEF Here
  <2>3. ASSUME NEW env PROVE \A n : n \notin names => SameAt(Here, new(env), n)
    BY WithSame, WithoutSame DEF WithOrWithout
  <2> HIDE DEF new
  <2>4. QED
    BY <2>1, <2>2, <2>3
<1>2. "instrumentation.ts" \notin names /\ names \cap GlasstraceFiles = {}
  BY DEF GlasstraceFiles
<1> HIDE DEF names
<1>3. QED
  BY <1>1, <1>2, UninitPcs, ClearedStep

LEMMA EnvClears ==
  ASSUME Cleanable, Cleared, UninitEnvLocal \/ UninitConfirmed
  PROVE  Cleared'
<1>1. cmd \in Command
  BY CleanableIs DEF TypeOK
<1>2. CASE UninitEnvLocal
  <2> DEFINE files == IF Has(Here, ".env.local") THEN EnvWithUserLines(Here[".env.local"]) ELSE fs
  <2>1. /\ cmd.name = "uninit" /\ cmd.pc = "env-local"
        /\ \/ CleanInPart(files, {fs}, "gitignore")
           \/ UNCHANGED fs /\ cmd' = [cmd EXCEPT !.pc = "env-confirm", !.env = Here[".env.local"]]
    BY <1>2 DEF UninitEnvLocal, Clean, At
  <2>2. UNCHANGED fs \/ fs' = files
    BY <2>1 DEF CleanInPart
  <2>3. cmd'.pc \in {"env-confirm", "gitignore"} /\ cmd'.root = cmd.root
    <3> HIDE DEF files
    <3>1. CASE CleanInPart(files, {fs}, "gitignore")
      BY <3>1, CleanableIs, PartIs
    <3>2. CASE cmd' = [cmd EXCEPT !.pc = "env-confirm", !.env = Here[".env.local"]]
      BY <1>1, <3>2 DEF Command
    <3>3. QED
      BY <2>1, <3>1, <3>2
  <2>4. QED
    BY <2>1, <2>2, <2>3, EnvStepClears
<1>3. CASE UninitConfirmed
  <2>1. /\ cmd.name = "uninit" /\ cmd.pc = "env-confirm"
        /\ cmd'.pc = "gitignore" /\ cmd'.root = cmd.root
    BY <1>1, <1>3, CleanableIs, UninitConfirmedIs DEF Command
  <2>2. UNCHANGED fs \/ fs' = EnvWithUserLines(cmd.env)
    BY <1>3 DEF UninitConfirmed
  <2>3. QED
    BY <2>1, <2>2, EnvStepClears
<1>4. QED
  BY <1>2, <1>3

LEMMA WithoutEntriesIs ==
  ASSUME NEW dir, DirSound(dir)
  PROVE  NoEntries(WithoutMcpEntries(dir, AgentConfigs))
<1> DEFINE having == {n \in AgentConfigs : Has(dir, n) /\ HasEntry(dir[n])}
           new == WithoutMcpEntries(dir, AgentConfigs)
<1>1. /\ DOMAIN new = DOMAIN dir \ {n \in having : ~ dir[n].other}
      /\ \A n \in DOMAIN new : new[n] = IF n \in having THEN WithoutEntry(dir[n]) ELSE dir[n]
  BY EntriesLeft
<1> HIDE DEF new
<1>2. ASSUME NEW n \in AgentConfigs, Has(new, n) PROVE ~ HasEntry(new[n])
  <2>1. n \in DOMAIN dir /\ new[n] = IF n \in having THEN WithoutEntry(dir[n]) ELSE dir[n]
    BY <1>1, <1>2 DEF Has
  <2>2. dir[n] \in McpText
    BY <2>1 DEF DirSound, FileSound, AgentConfigs, McpFiles
  <2>3. ~ HasEntry(WithoutEntry(dir[n]))
    BY <2>2 DEF HasEntry, WithoutEntry, McpText
  <2>4. QED
    BY <2>1, <2>3 DEF Has
<1>3. QED
  BY <1>2 DEF NoEntries, new

LEMMA McpClears ==
  ASSUME Cleanable, Cleared, UninitMcp
  PROVE  Cleared'
<1> DEFINE new == WithoutMcpEntries(Here, AgentConfigs)
           here == [fs EXCEPT ![cmd.root] = new]
           files == IF cmd.root \in site.at["windsurf"]
                    THEN [here EXCEPT !["home"] = WithoutMcpEntries(@, {"mcp_config.json"})]
                    ELSE here
<1>1. \A n : n \notin AgentConfigs => SameAt(Here, new, n)
  <2>1. GivesBack(original[cmd.root], Here, new, AgentConfigs)
    BY CleanableIs, EntriesBack
  <2>2. QED
    BY <2>1 DEF GivesBack
<1>2. /\ cmd.name = "uninit" /\ cmd.pc = "mcp"
      /\ \E parts : CleanInPart(files, parts, "info")
  BY McpOrderIs DEF UninitMcp, At, Cleaned
<1>3. cmd.root \in Sites /\ Sites \subseteq Dir /\ "home" \notin Sites
  BY CleanableIs, ReversibleIs
<1>4. NoEntries(new)
  BY CleanableIs, WithoutEntriesIs
<1> HIDE DEF new
<1>5. here = [fs EXCEPT ![cmd.root] = new]
  OBVIOUS
<1> HIDE DEF here
<1>6. here[cmd.root] = new
  BY <1>5, CleanableIs, CleanedSites
<1>7. files[cmd.root] = here[cmd.root]
  BY <1>3
<1> HIDE DEF files
<1>8. fs' = files /\ cmd'.pc = "info" /\ cmd'.root = cmd.root
  BY <1>2, CleanableIs, PartIs
<1>9. Here' = new
  BY <1>6, <1>7, <1>8 DEF Here
<1>10. QED
  BY <1>1, <1>2, <1>4, <1>8, <1>9, NamesApart, UninitPcs, ClearedStep

LEMMA UninitClears ==
  ASSUME Cleanable, cmd.name = "uninit" => Cleared, UninitStep
  PROVE  Cleared'
<1>1. CASE StartUninit
  <2>1. cmd'.name = "uninit" /\ cmd'.pc = "marker"
    BY <1>1, StartsTyped, ZenonT(60) DEF StartUninit, Start, Cleanable, TypeOK, Idle
  <2>2. QED
    BY <2>1, NothingCleared, UninitPcs
<1>2. CASE ~ StartUninit
  <2>1. cmd.name = "uninit"
    BY <1>2 DEF UninitStep, UninitMarker, UninitNextConfig, UninitInstrumentation, UninitDirectory,
       UninitDiscovery, UninitEnvLocal, UninitConfirmed, UninitGitignore, UninitMcp, UninitInfo,
       UninitExit, At
  <2>2. QED
    BY <1>2, <2>1, EarlyClears, InstrumentationClears, DirectoryClears, DiscoveryClears, EnvClears,
       IgnoreClears, McpClears, InfoClears DEF UninitStep
<1>3. QED
  BY <1>1, <1>2

SameRun(command) == command.name = cmd.name /\ command.yes = cmd.yes /\ command.root = cmd.root

LEMMA ChangedRun ==
  ASSUME TypeOK
  PROVE  /\ \A pc : Continue(pc) => SameRun(cmd')
         /\ \A exit : Finish(exit) => SameRun(cmd')
         /\ \A pc : Cleans(pc) => SameRun(cmd')
         /\ \A agent, d, pc, caught : WriteMcpConfig(agent, d, pc, caught) => SameRun(cmd')
         /\ \A agent, d : RegisterViaCli(agent, d) => SameRun(cmd')
         /\ \A agent, ready : SkipAgent(agent, ready) => SameRun(cmd')
<1>1. cmd \in Command
  BY DEF TypeOK
<1>2. \A pc : Continue(pc) => SameRun(cmd')
  BY <1>1 DEF Continue, SameRun, Command
<1>3. \A exit : Finish(exit) => SameRun(cmd')
  BY <1>1 DEF Finish, SameRun, Command
<1>4. \A pc : Cleans(pc) => SameRun(cmd')
  BY <1>1, <1>2 DEF Cleans, SameRun, Command
<1>5. ASSUME NEW agent, NEW d, NEW pc, NEW caught, WriteMcpConfig(agent, d, pc, caught)
      PROVE  SameRun(cmd')
  <2> DEFINE done == [cmd EXCEPT !.pc = pc, !.todo = @ \ {agent}]
             wrote == [done EXCEPT !.wrote = TRUE, !.ready = @ \cup {agent}]
  <2>1. cmd' = wrote \/ cmd' = done \/ cmd' = [done EXCEPT !.pc = caught, !.errors = TRUE]
    BY <1>5 DEF WriteMcpConfig
  <2>2. CASE cmd' = wrote
    BY <1>1, <2>2 DEF SameRun, Command
  <2>3. CASE cmd' = done
    BY <1>1, <2>3 DEF SameRun, Command
  <2>4. CASE cmd' = [done EXCEPT !.pc = caught, !.errors = TRUE]
    BY <1>1, <2>4 DEF SameRun, Command
  <2>5. QED
    BY <2>1, <2>2, <2>3, <2>4
<1>6. \A agent, d : RegisterViaCli(agent, d) => SameRun(cmd')
  BY <1>1, ZenonT(60) DEF RegisterViaCli, SameRun, Command
<1>7. \A agent, ready : SkipAgent(agent, ready) => SameRun(cmd')
  BY <1>1 DEF SkipAgent, SameRun, Command
<1>8. QED
  BY <1>2, <1>3, <1>4, <1>5, <1>6, <1>7

\* A command stays the same to its end.
LEMMA StepRun ==
  ASSUME TypeOK, Next, ~ Starts
  PROVE  SameRun(cmd')
<1>1. cmd \in Command
  BY DEF TypeOK
<1>2. CASE InitInstrumentation
  <2>1. \/ \E exit : Finish(exit)
        \/ \E pc : Continue(pc)
        \/ \E name, existed :
             cmd' = [cmd EXCEPT !.pc = "next-config", !.undo = {"instrumentation"},
                                !.target = name, !.saved = existed]
    BY <1>2 DEF InitInstrumentation, FailAndRollBack, SkipTo
  <2>2. ASSUME NEW name, NEW existed,
               cmd' = [cmd EXCEPT !.pc = "next-config", !.undo = {"instrumentation"},
                                  !.target = name, !.saved = existed]
        PROVE  SameRun(cmd')
    BY <1>1, <2>2 DEF SameRun, Command
  <2>3. QED
    BY <2>1, <2>2, ChangedRun
<1>3. CASE InitNextConfig \/ InitEnvLocal \/ InitGitignore
  <2>1. \/ \E exit : Finish(exit)
        \/ \E pc : Continue(pc)
        \/ \E pc, step : cmd' = [cmd EXCEPT !.pc = pc, !.undo = @ \cup {step}]
    BY <1>3 DEF InitNextConfig, InitEnvLocal, InitGitignore, Scaffold, FailAndRollBack, SkipTo
  <2>2. ASSUME NEW pc, NEW step, cmd' = [cmd EXCEPT !.pc = pc, !.undo = @ \cup {step}]
        PROVE  SameRun(cmd')
    BY <1>1, <2>2 DEF SameRun, Command
  <2>3. QED
    BY <2>1, <2>2, ChangedRun
<1>4. CASE InitAnonKey
  <2>1. \E key : cmd' = [cmd EXCEPT !.pc = "discovery", !.credential.key = key]
    BY <1>4 DEF InitAnonKey
  <2>2. QED
    BY <1>1, <2>1 DEF SameRun, Command
<1>5. CASE InitDiscovery
  <2> DEFINE next(credential) == [cmd EXCEPT !.pc = IF cmd.ci THEN "ci" ELSE "agents",
                             !.todo = DetectedAgents(site, cmd.root) \cup {"generic"},
                             !.credential = credential]
  <2>1. \E credential : cmd' = next(credential) \/
                        cmd' = [next(credential) EXCEPT !.discoveryFailed = TRUE]
    BY <1>5 DEF InitDiscovery
  <2>2. ASSUME NEW credential PROVE SameRun(next(credential))
    BY <1>1 DEF SameRun, Command
  <2>3. ASSUME NEW credential PROVE SameRun([next(credential) EXCEPT !.discoveryFailed = TRUE])
    BY <1>1 DEF SameRun, Command
  <2> HIDE DEF next
  <2>4. QED
    BY <2>1, <2>2, <2>3
<1>6. CASE InitCi \/ \E a \in Dispatched : InitAgent(a) \/ McpAddAgent(a)
  BY <1>6, ChangedRun DEF InitCi, InitAgent, McpAddAgent
<1>7. CASE WindsurfStage \/ WindsurfReplace
  <2>1. \/ WindsurfThrows \/ WindsurfReady \/ SkipAgent("windsurf", FALSE)
        \/ cmd' = [cmd EXCEPT !.pc = "windsurf", !.held = WindsurfFile]
    BY <1>7 DEF WindsurfStage, WindsurfReplace
  <2>2. CASE WindsurfThrows
    BY <1>1, <2>2 DEF WindsurfThrows, SameRun, Command
  <2>3. CASE WindsurfReady
    BY <1>1, <2>3 DEF WindsurfReady, SameRun, Command
  <2>4. CASE cmd' = [cmd EXCEPT !.pc = "windsurf", !.held = WindsurfFile]
    BY <1>1, <2>4 DEF SameRun, Command
  <2>5. QED
    BY <2>1, <2>2, <2>3, <2>4, ChangedRun
<1>8. CASE AgentsDone \/ Inject \/ UpdateGitignore \/ InitCoverage \/ UpgradeAll \/ Killed
  BY <1>8, ChangedRun DEF AgentsDone, Inject, UpdateGitignore, McpThrows, InitCoverage, UpgradeAll,
     Killed
<1>9. CASE WriteMcpMarker \/ InitVerify
  BY <1>9, ChangedRun DEF WriteMcpMarker, McpThrows, InitVerify
<1>10. CASE McpAddResolve
  <2>1. \/ \E exit : Finish(exit)
        \/ \E credential, todo :
             cmd' = [cmd EXCEPT !.pc = "agents", !.credential = credential, !.todo = todo]
    BY <1>10 DEF McpAddResolve
  <2>2. QED
    BY <1>1, <2>1, ChangedRun DEF SameRun, Command
<1>11. CASE UninitStep
  <2>1. Cleanings \/ UninitMarker \/ UninitEnvLocal \/ UninitConfirmed \/ UninitExit
    BY <1>11 DEF UninitStep, Starts, Cleanings
  <2>2. CASE Cleanings
    BY <2>2, CleaningsAre, ChangedRun
  <2>3. CASE UninitMarker \/ UninitExit
    BY <2>3, ChangedRun DEF UninitMarker, UninitExit
  <2>4. CASE UninitEnvLocal
    BY <1>1, <2>4, UninitEnvIs, ChangedRun DEF Asks, SameRun, Command
  <2>5. CASE UninitConfirmed
    <3>1. PICK consent, errors \in BOOLEAN :
            cmd' = [cmd EXCEPT !.pc = "gitignore", !.env = <<>>, !.consent = consent,
                               !.errors = errors]
      BY <2>5, UninitConfirmedIs
    <3>2. QED
      BY <1>1, <3>1 DEF SameRun, Command
  <2>6. QED
    BY <2>1, <2>2, <2>3, <2>4, <2>5
<1>12. CASE SdkStep \/ UserEditsWindsurf
  BY <1>12 DEF SdkStep, SdkStarts, SdkSeesMarker, SdkReadsEnv, SdkWritesKey, SdkRefreshes,
     UserEditsWindsurf, SameRun
<1>13. CASE InitStep
  BY <1>2, <1>3, <1>4, <1>5, <1>6, <1>8, <1>9, <1>13 DEF InitStep, Starts, Dispatched
<1>14. CASE McpStep
  BY <1>6, <1>7, <1>8, <1>9, <1>10, <1>14 DEF McpStep, Starts, Dispatched
<1>15. QED
  BY <1>8, <1>11, <1>12, <1>13, <1>14 DEF Next, Starts

-----------------------------------------------------------------------------
\* What keeps what init has set up

LEMMA CallStays ==
  ASSUME NEW dir, NEW new, \A n \in Instrumentation : SameAt(dir, new, n), HasCall(dir)
  PROVE  HasCall(new)
BY DEF HasCall, SameAt

LEMMA CredentialStays ==
  ASSUME NEW dir, NEW new, EnvKey(new) = EnvKey(dir),
         SameAt(dir, new, "claimed-key"), SameAt(dir, new, "anon_key")
  PROVE  EffectiveCredential(new) = EffectiveCredential(dir)
BY DEF EffectiveCredential, SameAt

LEMMA ConfigStays ==
  ASSUME NEW dir, NEW new, SameAt(dir, new, "mcp.json"), HasConfig(dir)
  PROVE  HasConfig(new)
BY DEF HasConfig, SameAt

LEMMA StampStays ==
  ASSUME NEW dir, NEW new, NEW key, SameAt(dir, new, "mcp-connected"), HasStamp(dir, key)
  PROVE  HasStamp(new, key)
BY DEF HasStamp, SameAt

LEMMA InitPcs ==
  /\ StampedPcs \subseteq ConfiguredPcs /\ ConfiguredPcs \subseteq ResolvedPcs
  /\ ResolvedPcs \subseteq KeyPcs /\ KeyPcs \subseteq CallPcs
  /\ {"agents", "windsurf"} \subseteq ResolvedPcs
  /\ {"agents", "windsurf", "ci"} \cap ConfiguredPcs = {}
  /\ {"inject", "ignore", "marker"} \cap StampedPcs = {}
  /\ "discovery" \in KeyPcs \ ResolvedPcs
  /\ {"next-config", "env-local", "gitignore", "anon-key"} \subseteq CallPcs
  /\ {"next-config", "env-local", "gitignore", "anon-key"} \cap KeyPcs = {}
  /\ {"idle", "instrumentation"} \cap CallPcs = {}
BY DEF StampedPcs, ConfiguredPcs, ResolvedPcs, KeyPcs, CallPcs

\* The step that changes these files of the directory.
LEMMA SetUpStep ==
  ASSUME SetUp, cmd'.root = cmd.root, NEW names,
         \A n : n \notin names => SameAt(Here, Here', n), EnvKey(Here') = EnvKey(Here),
         cmd'.pc \in CallPcs => HasCall(Here') \/ (names \cap Instrumentation = {} /\ cmd.pc \in CallPcs),
         cmd'.pc \in KeyPcs => Has(Here', "anon_key") \/ ("anon_key" \notin names /\ cmd.pc \in KeyPcs),
         cmd'.pc \in ResolvedPcs =>
           \/ cmd'.credential = EffectiveCredential(Here')
           \/ names \cap {"claimed-key", "anon_key"} = {} /\ cmd'.credential = cmd.credential
              /\ cmd.pc \in ResolvedPcs,
         cmd'.pc \in {"agents", "windsurf"} => "generic" \in cmd'.todo \/ Configured',
         cmd'.pc \in ConfiguredPcs => Configured',
         cmd'.pc \in StampedPcs =>
           \/ HasStamp(Here', cmd'.credential.key)
           \/ "mcp-connected" \notin names /\ cmd'.credential = cmd.credential /\ cmd.pc \in StampedPcs
  PROVE  SetUp'
<1>1. cmd'.pc \in CallPcs => HasCall(Here')
  BY CallStays DEF SetUp
<1>2. cmd'.pc \in KeyPcs => Has(Here', "anon_key")
  BY DEF SetUp, SameAt
<1>3. cmd'.pc \in ResolvedPcs => cmd'.credential = EffectiveCredential(Here')
  BY CredentialStays DEF SetUp
<1>4. cmd'.pc \in StampedPcs => HasStamp(Here', cmd'.credential.key)
  BY StampStays DEF SetUp
<1> DEFINE here == Here'
           configured == Configured'
<1>5. /\ cmd'.pc \in CallPcs => HasCall(here)
      /\ cmd'.pc \in KeyPcs => Has(here, "anon_key")
      /\ cmd'.pc \in ResolvedPcs => cmd'.credential = EffectiveCredential(here)
      /\ cmd'.pc \in {"agents", "windsurf"} => "generic" \in cmd'.todo \/ configured
      /\ cmd'.pc \in ConfiguredPcs => configured
      /\ cmd'.pc \in StampedPcs => HasStamp(here, cmd'.credential.key)
  BY <1>1, <1>2, <1>3, <1>4
<1>6. QED
  BY <1>5 DEF SetUp, HasCall, HasStamp, EffectiveCredential, EnvKey, Has, StampedPcs, ConfiguredPcs, ResolvedPcs, KeyPcs, CallPcs

LEMMA ConfiguredStays ==
  ASSUME Configured, cmd'.wrote, SameAt(Here, Here', "mcp.json")
  PROVE  Configured'
<1>1. HasConfig(Here')
  BY ConfigStays DEF Configured
<1>2. QED
  BY <1>1 DEF Configured, HasConfig, Has

\* A step of an init that has been told yes.
Setting ==
  /\ TypeOK /\ AllKept /\ SetUp /\ ~ Fails /\ budget'.faults = budget.faults
  /\ cmd.name = "init" /\ cmd.yes /\ SameRun(cmd')
  /\ EnvKey(Here') = EnvKey(Here)

Watched == Instrumentation \cup {"anon_key", "claimed-key", "mcp.json", "mcp-connected"}

LEMMA UnwatchedFiles ==
  Watched \cap (Configs \cup {".env.local", ".gitignore", "public", "static"}
                  \cup InfoFiles \cup AgentConfigs) = {}
BY DEF Watched, Instrumentation, Configs, InfoFiles, AgentConfigs

LEMMA SettingIs ==
  ASSUME Setting
  PROVE  /\ cmd \in Command /\ cmd'.root = cmd.root /\ Here' = fs'[cmd.root]
         /\ cmd.root \in Sites /\ Sites \subseteq Dir /\ "home" \notin Sites /\ DOMAIN fs = Dir
         /\ DirSound(Here) /\ EnvKey(Here') = EnvKey(Here) /\ SetUp
<1>1. cmd'.root = cmd.root
  BY DEF Setting, SameRun
<1>2. cmd \in Command /\ DOMAIN fs = Dir
  BY DEF Setting, TypeOK
<1>3. cmd.root \in Sites /\ Sites \subseteq Dir /\ "home" \notin Sites
  BY <1>2 DEF Command, Sites, Dir
<1>4. DirSound(Here)
  BY HereIs DEF Setting
<1>5. QED
  BY <1>1, <1>2, <1>3, <1>4 DEF Setting, Here

LEMMA HerePut ==
  ASSUME Setting, NEW name, NEW text, fs' = Put(name, text)
  PROVE  /\ Here' = With(Here, name, text)
         /\ Has(Here', name) /\ Here'[name] = text
         /\ \A n : n # name => SameAt(Here, Here', n)
<1>1. Here' = With(Here, name, text)
  BY SettingIs DEF Put, Here
<1>2. QED
  BY <1>1, WithHas, WithSame

LEMMA HereSame ==
  ASSUME Setting, UNCHANGED fs
  PROVE  Here' = Here /\ \A n : SameAt(Here, Here', n)
BY SettingIs, SameReflexive DEF Here

\* The step changes none of the files that count.
LEMMA LeavesSetUp ==
  ASSUME Setting, NEW names, names \cap Watched = {}, \A n : n \notin names => SameAt(Here, Here', n),
         cmd'.credential = cmd.credential, cmd.wrote => cmd'.wrote,
         \A pcs \in {CallPcs, KeyPcs, ResolvedPcs, ConfiguredPcs, StampedPcs} :
           cmd'.pc \in pcs => cmd.pc \in pcs,
         cmd'.pc \in {"agents", "windsurf"} =>
           cmd.pc \in {"agents", "windsurf"} /\ ("generic" \in cmd.todo => "generic" \in cmd'.todo)
  PROVE  SetUp'
<1>1. Configured => Configured'
  BY ConfiguredStays DEF Watched, Configured
<1>2. names \cap Instrumentation = {} /\ "anon_key" \notin names /\ "claimed-key" \notin names
      /\ "mcp-connected" \notin names
  BY DEF Watched
<1>3. cmd'.pc \in {"agents", "windsurf"} => "generic" \in cmd'.todo \/ Configured'
  BY <1>1, SettingIs DEF SetUp
<1>4. cmd'.pc \in ConfiguredPcs => Configured'
  BY <1>1, SettingIs DEF SetUp
<1>5. QED
  BY <1>2, <1>3, <1>4, SettingIs, SetUpStep

LEMMA NothingSetUp ==
  ASSUME cmd'.pc \notin CallPcs
  PROVE  SetUp'
<1>1. cmd'.pc \notin KeyPcs \cup ResolvedPcs \cup ConfiguredPcs \cup StampedPcs \cup {"agents", "windsurf"}
  BY InitPcs
<1>2. QED
  BY <1>1 DEF SetUp, CallPcs, KeyPcs, ResolvedPcs, ConfiguredPcs, StampedPcs

LEMMA MergedCalls ==
  ASSUME NEW text
  PROVE  {"import", "call"} \subseteq MergedInstrumentation(text)
BY DEF MergedInstrumentation, InjectRegisterGlasstrace, AppendRegisterFunction

LEMMA InstrumentationSetUp ==
  ASSUME Setting, InitInstrumentation
  PROVE  SetUp'
<1>0. cmd.pc = "instrumentation"
  BY DEF InitInstrumentation, At
<1>1. CASE Finish("conflict")
  BY <1>1, SettingIs, FinishGoes, NothingSetUp, InitPcs
<1>2. ASSUME NEW name \in Instrumentation, NEW text, {"import", "call"} \subseteq text,
             fs' = Put(name, text), cmd'.pc = "next-config"
      PROVE  SetUp'
  <2>1. Has(Here', name) /\ Here'[name] = text
    BY <1>2, HerePut
  <2>2. HasCall(Here')
    BY <1>2, <2>1 DEF HasCall
  <2>3. \A n : n \notin {name} => SameAt(Here, Here', n)
    BY <1>2, HerePut
  <2>4. QED
    BY <1>2, <2>2, <2>3, SettingIs, InitPcs, SetUpStep
<1>3. ASSUME NEW name \in Instrumentation, Has(Here, name), HasRegisterGlasstraceCall(Here[name]),
             SkipTo("next-config")
      PROVE  SetUp'
  <2>1. UNCHANGED fs /\ cmd'.pc = "next-config"
    BY <1>3, SettingIs DEF SkipTo, Continue, Command
  <2>2. HasCall(Here)
    BY <1>3 DEF HasCall, HasRegisterGlasstraceCall
  <2>3. Here' = Here /\ \A n : n \notin {} => SameAt(Here, Here', n)
    BY <2>1, HereSame
  <2>4. HasCall(Here')
    BY <2>2, <2>3
  <2>5. QED
    BY <2>1, <2>3, <2>4, SettingIs, InitPcs, SetUpStep
<1>4. ~ FailAndRollBack /\ cmd.yes
  BY DEF Setting, FailAndRollBack
<1> DEFINE target == InstrumentationTarget(site, Here)
           did(name, text, existed) ==
             /\ fs' = Put(name, text)
             /\ cmd' = [cmd EXCEPT !.pc = "next-config", !.undo = {"instrumentation"},
                                   !.target = name, !.saved = existed]
<1>5. \/ Finish("conflict")
      \/ \E name \in ToSet(target) :
           \/ did(name, {"import", "register", "call"}, FALSE)
           \/ did(name, MergedInstrumentation(Here[name]), TRUE)
           \/ Has(Here, name) /\ HasRegisterGlasstraceCall(Here[name]) /\ SkipTo("next-config")
  BY <1>4 DEF InitInstrumentation
<1>6. \A name \in ToSet(target) : name \in Instrumentation
  BY TargetIs
<1>7. ASSUME NEW name, NEW text, NEW existed, did(name, text, existed)
      PROVE  fs' = Put(name, text) /\ cmd'.pc = "next-config"
  BY <1>7, SettingIs DEF Command
<1> HIDE DEF did, target
<1>8. ASSUME NEW name \in ToSet(target),
             \/ did(name, {"import", "register", "call"}, FALSE)
             \/ did(name, MergedInstrumentation(Here[name]), TRUE)
      PROVE  SetUp'
  <2>1. {"import", "call"} \subseteq {"import", "register", "call"}
    OBVIOUS
  <2>2. QED
    BY <1>2, <1>6, <1>7, <1>8, <2>1, MergedCalls
<1>9. QED
  BY <1>1, <1>3, <1>5, <1>6, <1>8

LEMMA ScaffoldSetUp ==
  ASSUME Setting, InitNextConfig \/ InitEnvLocal \/ InitGitignore
  PROVE  SetUp'
<1> DEFINE names == Configs \cup {".env.local", ".gitignore"}
<1>1. ASSUME NEW step, NEW name \in names, NEW text, NEW pc, Scaffold(step, name, text, pc) \/ SkipTo(pc)
      PROVE  /\ \A n : n \notin names => SameAt(Here, Here', n)
             /\ cmd'.pc = pc /\ cmd'.credential = cmd.credential /\ cmd'.wrote = cmd.wrote
  <2>1. ~ FailAndRollBack
    BY DEF Setting, FailAndRollBack
  <2>2. /\ fs' = Put(name, text) \/ UNCHANGED fs
        /\ cmd'.pc = pc /\ cmd'.credential = cmd.credential /\ cmd'.wrote = cmd.wrote
    BY <1>1, <2>1, SettingIs DEF Scaffold, SkipTo, Continue, Command
  <2>3. QED
    BY <2>2, HerePut, HereSame
<1>2. names \cap Watched = {}
  BY UnwatchedFiles
<1>3. \E step, text : \E name \in names : \E pc \in {"env-local", "gitignore", "anon-key"} :
        Scaffold(step, name, text, pc) \/ SkipTo(pc)
  <2>1. CASE InitNextConfig
    <3> DEFINE at == FirstOf(Here, NextConfigs)
               name == NextConfigs[at]
    <3>1. SkipTo("env-local") \/ (at # 0 /\ Scaffold("next-config", name, WrapExport(Here[name]), "env-local"))
      BY <2>1 DEF InitNextConfig
    <3>2. at # 0 => name \in Configs
      <4>1. at \in {0, 1, 2}
        BY FirstOfIs DEF NextConfigs
      <4> HIDE DEF at
      <4>2. QED
        BY <4>1 DEF NextConfigs, Configs
    <3>3. ".env.local" \in names
      OBVIOUS
    <3> HIDE DEF at, name
    <3>4. QED
      BY <3>1, <3>2, <3>3
  <2>2. CASE InitEnvLocal
    BY <2>2 DEF InitEnvLocal
  <2>3. CASE InitGitignore
    BY <2>3 DEF InitGitignore
  <2>4. QED
    BY <2>1, <2>2, <2>3
<1>4. cmd.pc \in {"next-config", "env-local", "gitignore"}
  BY DEF InitNextConfig, InitEnvLocal, InitGitignore, At
<1> HIDE DEF names
<1>5. /\ \A n : n \notin names => SameAt(Here, Here', n)
      /\ cmd'.pc \in {"env-local", "gitignore", "anon-key"}
      /\ cmd'.credential = cmd.credential /\ cmd'.wrote = cmd.wrote
  BY <1>1, <1>3
<1>6. \A pcs \in {CallPcs, KeyPcs, ResolvedPcs, ConfiguredPcs, StampedPcs} :
        cmd'.pc \in pcs => cmd.pc \in pcs
  BY <1>4, <1>5, InitPcs
<1>7. cmd'.pc \notin {"agents", "windsurf"}
  BY <1>5
<1>8. QED
  BY <1>2, <1>5, <1>6, <1>7, LeavesSetUp

LEMMA KeySetUp ==
  ASSUME Setting, InitAnonKey
  PROVE  SetUp'
<1> DEFINE names == {"anon_key"}
<1>1. cmd.pc = "anon-key" /\ cmd'.pc = "discovery"
  <2>1. cmd.pc = "anon-key" /\ \E key : cmd' = [cmd EXCEPT !.pc = "discovery", !.credential.key = key]
    BY DEF InitAnonKey, At
  <2>2. QED
    BY <2>1, SettingIs DEF Command
<1>2. \/ Has(Here, "anon_key") /\ UNCHANGED fs
      \/ \E key : fs' = Put("anon_key", key)
  <2>1. budget'.faults = budget.faults /\ TypeOK
    BY DEF Setting
  <2>2. \A key : budget' # [budget EXCEPT !.minted = @ \cup {key}, !.faults = @ + 1]
    <3> SUFFICES ASSUME NEW key, budget' = [budget EXCEPT !.minted = @ \cup {key}, !.faults = @ + 1]
                 PROVE  FALSE
      OBVIOUS
    <3>1. budget.faults \in Nat /\ DOMAIN budget = {"commands", "faults", "claims", "edits", "minted"}
      BY <2>1 DEF TypeOK
    <3>2. budget'.faults = budget.faults + 1
      BY <3>1
    <3>3. QED
      BY <2>1, <3>1, <3>2
  <2>3. QED
    BY <2>2 DEF InitAnonKey
<1>3. Has(Here', "anon_key") /\ \A n : n \notin names => SameAt(Here, Here', n)
  BY <1>2, HerePut, HereSame
<1>4. names \cap Instrumentation = {}
  BY DEF Instrumentation
<1> HIDE DEF names
<1>5. QED
  BY <1>1, <1>3, <1>4, SettingIs, InitPcs, SetUpStep

LEMMA DiscoverySetUp ==
  ASSUME Setting, InitDiscovery
  PROVE  SetUp'
<1> DEFINE names == {site.staticRoot}
           resolved == EffectiveCredential(Here)
           next(credential) == [cmd EXCEPT !.pc = IF cmd.ci THEN "ci" ELSE "agents",
                                  !.todo = DetectedAgents(site, cmd.root) \cup {"generic"},
                                  !.credential = credential]
<1>0. cmd.pc = "discovery"
  BY DEF InitDiscovery, At
<1>1. Has(Here, "anon_key")
  BY <1>0, SettingIs, InitPcs DEF SetUp
<1>2. resolved # NoCredential
  BY <1>1 DEF EffectiveCredential, NoCredential
<1>3. /\ \E fields : fs' = Put(site.staticRoot, fields)
      /\ cmd' = next(resolved)
  BY <1>2 DEF InitDiscovery, Setting
<1>4. cmd'.pc \in {"ci", "agents"} /\ cmd'.credential = resolved /\ "generic" \in cmd'.todo
  BY <1>3, SettingIs DEF Command
<1>5. site.staticRoot \in {"public", "static"}
  BY DEF Setting, TypeOK, Layout
<1>6. \A n : n \notin names => SameAt(Here, Here', n)
  BY <1>3, HerePut
<1>7. names \cap Instrumentation = {} /\ "anon_key" \notin names /\ "claimed-key" \notin names
  BY <1>5 DEF Instrumentation
<1>8. EffectiveCredential(Here') = resolved
  BY <1>6, <1>7, SettingIs, CredentialStays
<1> HIDE DEF names, resolved, next
<1>9. cmd'.pc \in ResolvedPcs => cmd'.credential = EffectiveCredential(Here')
  BY <1>4, <1>8
<1>10. cmd'.pc \notin ConfiguredPcs /\ cmd'.pc \notin StampedPcs
  BY <1>4, InitPcs
<1>11. cmd.pc \in CallPcs /\ cmd.pc \in KeyPcs
  BY <1>0, InitPcs
<1>12. QED
  BY <1>4, <1>6, <1>7, <1>9, <1>10, <1>11, SettingIs, SetUpStep

\* The generic configuration is the directory's own, and has an entry.
LEMMA GenericWritten ==
  ASSUME Setting, cmd.pc \in ResolvedPcs, cmd'.wrote,
         fs' = Put("mcp.json", GenerateMcpConfig("generic", cmd.credential.key))
  PROVE  Configured'
<1>1. Here'["mcp.json"] = McpConfig(cmd.credential.key) /\ Has(Here', "mcp.json")
  BY HerePut DEF GenerateMcpConfig
<1>2. cmd.credential = EffectiveCredential(Here) /\ Has(Here, "anon_key")
  BY SettingIs, InitPcs DEF SetUp
<1>3. (Has(Here, "anon_key") => Here["anon_key"] \in AnonKey)
      /\ (Has(Here, "claimed-key") => Here["claimed-key"] \in DevKey)
  BY SettingIs DEF DirSound, FileSound, Has
<1>4. cmd.credential.key \in DevKey \cup AnonKey
  BY <1>2, <1>3 DEF EffectiveCredential
<1>5. cmd.credential.key # "none"
  BY <1>4, KeysAssumption
<1>6. HasConfig(Here')
  BY <1>1, <1>5 DEF HasConfig, HasEntry, McpConfig
<1>7. QED
  BY <1>6 DEF Configured, HasConfig, Has

LEMMA AgentNames ==
  ASSUME NEW agent \in Dispatched, agent # "windsurf"
  PROVE  /\ McpFileOf("generic") = "mcp.json"
         /\ agent # "generic" => McpFileOf(agent) \in AgentConfigs
<1>1. agent \in {"claude", "codex", "gemini", "cursor", "generic"}
  BY AgentAssumption DEF Dispatched
<1>2. QED
  BY <1>1 DEF McpFileOf, AgentConfigs

\* Where nothing fails, the configuration is written.
LEMMA McpWritten ==
  ASSUME Setting, NEW agent, NEW d, NEW pc, NEW caught, WriteMcpConfig(agent, d, pc, caught)
  PROVE  /\ fs' = [fs EXCEPT ![d] = With(fs[d], McpFileOf(agent), GenerateMcpConfig(agent, cmd.credential.key))]
         /\ cmd'.wrote /\ cmd'.pc = pc /\ cmd'.todo = cmd.todo \ {agent}
         /\ cmd'.credential = cmd.credential
<1>1. /\ fs' = [fs EXCEPT ![d] = With(fs[d], McpFileOf(agent), GenerateMcpConfig(agent, cmd.credential.key))]
      /\ cmd' = [cmd EXCEPT !.pc = pc, !.todo = @ \ {agent}, !.wrote = TRUE, !.ready = @ \cup {agent}]
  BY SettingIs DEF WriteMcpConfig, Setting, Command
<1>2. QED
  BY <1>1, SettingIs DEF Command

LEMMA GenericSetUp ==
  ASSUME Setting, NEW pc, cmd.pc \in {"ci", "agents"}, pc \in {"ignore", "agents"},
         NEW caught, WriteMcpConfig("generic", cmd.root, pc, caught)
  PROVE  SetUp'
<1>1. /\ fs' = Put("mcp.json", GenerateMcpConfig("generic", cmd.credential.key))
      /\ cmd'.wrote /\ cmd'.pc = pc /\ cmd'.credential = cmd.credential
  BY McpWritten DEF Put, McpFileOf
<1>2. cmd.pc \in ResolvedPcs
  BY DEF ResolvedPcs
<1>3. Configured'
  BY <1>1, <1>2, GenericWritten
<1> DEFINE names == {"mcp.json"}
<1>4. \A n : n \notin names => SameAt(Here, Here', n)
  BY <1>1, HerePut
<1>5. /\ names \cap Instrumentation = {} /\ "anon_key" \notin names
      /\ names \cap {"claimed-key", "anon_key"} = {}
  BY DEF Instrumentation
<1>6. cmd'.pc \notin StampedPcs /\ cmd.pc \in KeyPcs /\ cmd.pc \in CallPcs
  BY <1>1, <1>2, InitPcs DEF StampedPcs
<1> HIDE DEF names
<1>7. QED
  BY <1>1, <1>2, <1>3, <1>4, <1>5, <1>6, SettingIs, SetUpStep

LEMMA AgentSetUp ==
  ASSUME Setting, NEW agent \in Dispatched, InitAgent(agent)
  PROVE  SetUp'
<1> DEFINE d == McpDir(site, cmd.root, agent)
<1>1. cmd.pc = "agents" /\ agent # "windsurf" /\ WriteMcpConfig(agent, d, "agents", "agents")
  BY DEF InitAgent, At, Setting
<1>2. CASE agent = "generic"
  <2>1. d = cmd.root
    BY <1>2, SettingIs, FoundIs DEF McpDir
  <2>2. QED
    BY <1>1, <1>2, <2>1, GenericSetUp
<1>3. CASE agent # "generic"
  <2> DEFINE text == GenerateMcpConfig(agent, cmd.credential.key)
             name == McpFileOf(agent)
  <2>1. fs' = [fs EXCEPT ![d] = With(fs[d], name, text)]
    BY <1>1, McpWritten
  <2>2. /\ cmd'.wrote /\ cmd'.pc = "agents" /\ cmd'.todo = cmd.todo \ {agent}
        /\ cmd'.credential = cmd.credential
    BY <1>1, McpWritten
  <2>3. name \in AgentConfigs
    BY <1>1, <1>3, AgentNames
  <2> HIDE DEF d, text, name
  <2>4. Here' = Here \/ Here' = With(Here, name, text)
    BY <2>1, SettingIs DEF Here
  <2>5. \A n : n \notin AgentConfigs => SameAt(Here, Here', n)
    BY <2>3, <2>4, SameReflexive, WithSame
  <2>6. AgentConfigs \cap Watched = {}
    BY UnwatchedFiles
  <2>7. QED
    BY <1>1, <1>3, <2>2, <2>5, <2>6, LeavesSetUp
<1>4. QED
  BY <1>2, <1>3

LEMMA CiSetUp ==
  ASSUME Setting, InitCi
  PROVE  SetUp'
BY GenericSetUp DEF InitCi, At

LEMMA AgentsDoneSetUp ==
  ASSUME Setting, AgentsDone
  PROVE  SetUp'
<1>1. cmd.pc = "agents" /\ cmd.todo = {} /\ UNCHANGED fs /\ Continue("inject")
  BY DEF AgentsDone, At
<1>2. cmd'.pc = "inject" /\ cmd'.credential = cmd.credential /\ cmd'.wrote = cmd.wrote
  BY <1>1, SettingIs DEF Continue, Command
<1>3. Here' = Here /\ \A n : n \notin {} => SameAt(Here, Here', n)
  BY <1>1, HereSame
<1>4. Configured
  BY <1>1, SettingIs DEF SetUp
<1>5. Configured'
  BY <1>2, <1>3, <1>4, ConfiguredStays DEF Configured
<1>6. cmd'.pc \notin StampedPcs /\ cmd.pc \in ResolvedPcs /\ cmd.pc \in KeyPcs /\ cmd.pc \in CallPcs
  BY <1>1, <1>2, InitPcs DEF StampedPcs
<1>7. {} \cap Instrumentation = {} /\ "anon_key" \notin {} /\ {} \cap {"claimed-key", "anon_key"} = {}
  OBVIOUS
<1>8. cmd'.pc \notin {"agents", "windsurf"}
  BY <1>2
<1>9. QED
  BY <1>2, <1>3, <1>5, <1>6, <1>7, <1>8, SettingIs, SetUpStep

LEMMA WindsurfSetUp ==
  ASSUME Setting, WindsurfStage \/ WindsurfReplace \/ UserEditsWindsurf
  PROVE  SetUp'
<1>1. UNCHANGED fs \/ \E home : fs' = [fs EXCEPT !["home"] = home]
  BY DEF WindsurfStage, WindsurfReplace, UserEditsWindsurf, HomeWith, SkipAgent
<1>2. Here' = Here
  BY <1>1, SettingIs DEF Here
<1>3. \A n : n \notin {} => SameAt(Here, Here', n)
  BY <1>2, SameReflexive
<1>4. cmd.pc \in {"agents", "windsurf"}
  BY DEF WindsurfStage, WindsurfReplace, UserEditsWindsurf
<1>5. \/ WindsurfThrows \/ WindsurfReady \/ SkipAgent("windsurf", FALSE) \/ cmd' = cmd
      \/ cmd' = [cmd EXCEPT !.pc = "windsurf", !.held = WindsurfFile]
  BY DEF WindsurfStage, WindsurfReplace, UserEditsWindsurf
<1>6. /\ cmd'.credential = cmd.credential /\ (cmd.wrote => cmd'.wrote)
      /\ cmd'.pc \in {"agents", "windsurf"} /\ ("generic" \in cmd.todo => "generic" \in cmd'.todo)
  <2>1. CASE WindsurfThrows
    BY <2>1, SettingIs DEF WindsurfThrows, Command
  <2>2. CASE WindsurfReady
    BY <2>2, SettingIs DEF WindsurfReady, Command
  <2>3. CASE SkipAgent("windsurf", FALSE)
    BY <1>4, <2>3, SettingIs DEF SkipAgent, Command
  <2>4. CASE cmd' = cmd
    BY <1>4, <2>4
  <2>5. CASE cmd' = [cmd EXCEPT !.pc = "windsurf", !.held = WindsurfFile]
    BY <2>5, SettingIs DEF Command
  <2>6. QED
    BY <1>5, <2>1, <2>2, <2>3, <2>4, <2>5
<1>7. \A pcs \in {CallPcs, KeyPcs, ResolvedPcs, ConfiguredPcs, StampedPcs} :
        cmd'.pc \in pcs => cmd.pc \in pcs
  BY <1>4, <1>6, InitPcs
<1>8. {} \cap Watched = {}
  OBVIOUS
<1>9. QED
  BY <1>3, <1>4, <1>6, <1>7, <1>8, LeavesSetUp

LEMMA InjectSetUp ==
  ASSUME Setting, Inject
  PROVE  SetUp'
<1>1. PICK written : fs' = InjectAllTargets(fs, written)
  BY DEF Inject, InjectInto
<1> DEFINE names == Targeted(written, cmd.root)
<1>2. /\ names \subseteq InfoFiles
      /\ DOMAIN Here' = DOMAIN Here \cup names
      /\ \A n \in DOMAIN Here \ names : Here'[n] = Here[n]
  BY <1>1, SettingIs, InjectedIs DEF Here
<1> HIDE DEF names
<1>3. \A n : n \notin InfoFiles => SameAt(Here, Here', n)
  BY <1>2 DEF SameAt, Has
<1>4. cmd.pc = "inject" /\ cmd'.pc = "ignore" /\ cmd'.credential = cmd.credential /\ cmd'.wrote = cmd.wrote
  BY SettingIs DEF Inject, Continue, Command
<1>5. \A pcs \in {CallPcs, KeyPcs, ResolvedPcs, ConfiguredPcs, StampedPcs} :
        cmd'.pc \in pcs => cmd.pc \in pcs
  BY <1>4 DEF CallPcs, KeyPcs, ResolvedPcs, ConfiguredPcs, StampedPcs
<1>6. InfoFiles \cap Watched = {} /\ cmd'.pc \notin {"agents", "windsurf"}
  BY <1>4, UnwatchedFiles
<1>7. QED
  BY <1>3, <1>4, <1>5, <1>6, LeavesSetUp

LEMMA LateSetUp ==
  ASSUME Setting, UpdateGitignore \/ InitCoverage
  PROVE  SetUp'
<1> DEFINE names == {".gitignore", ".env.local"}
<1>1. \/ UNCHANGED fs \/ \E name \in names : \E text : fs' = Put(name, text)
  BY DEF UpdateGitignore, InitCoverage
<1>2. \A n : n \notin names => SameAt(Here, Here', n)
  BY <1>1, HerePut, HereSame
<1>3. /\ (cmd.pc = "ignore" /\ cmd'.pc = "marker") \/ (cmd.pc = "coverage" /\ cmd'.pc = "verify")
      /\ cmd'.credential = cmd.credential /\ cmd'.wrote = cmd.wrote
  BY SettingIs DEF Setting, UpdateGitignore, InitCoverage, At, Continue, Command
<1>4. \A pcs \in {CallPcs, KeyPcs, ResolvedPcs, ConfiguredPcs, StampedPcs} :
        cmd'.pc \in pcs => cmd.pc \in pcs
  BY <1>3 DEF CallPcs, KeyPcs, ResolvedPcs, ConfiguredPcs, StampedPcs
<1>5. names \cap Watched = {} /\ cmd'.pc \notin {"agents", "windsurf"}
  BY <1>3, UnwatchedFiles
<1> HIDE DEF names
<1>6. QED
  BY <1>2, <1>3, <1>4, <1>5, LeavesSetUp

LEMMA MarkerSetUp ==
  ASSUME Setting, WriteMcpMarker
  PROVE  SetUp'
<1> DEFINE names == {"mcp-connected"}
<1>1. cmd.pc = "marker" /\ Continue("coverage")
  BY DEF WriteMcpMarker, Setting
<1>2. cmd'.pc = "coverage" /\ cmd'.credential = cmd.credential /\ cmd'.wrote = cmd.wrote
  BY <1>1, SettingIs DEF Continue, Command
<1>3. Configured
  BY <1>1, SettingIs DEF SetUp, ConfiguredPcs
<1>4. fs' = Put("mcp-connected", cmd.credential)
  BY <1>3 DEF WriteMcpMarker, Configured, Setting
<1>5. /\ Has(Here', "mcp-connected") /\ Here'["mcp-connected"] = cmd.credential
      /\ \A n : n \notin names => SameAt(Here, Here', n)
  BY <1>4, HerePut
<1>6. HasStamp(Here', cmd'.credential.key)
  BY <1>2, <1>5 DEF HasStamp
<1>7. /\ names \cap Instrumentation = {} /\ "anon_key" \notin names
      /\ names \cap {"claimed-key", "anon_key"} = {} /\ "mcp.json" \notin names
  BY DEF Instrumentation
<1> HIDE DEF names
<1>8. Configured'
  BY <1>2, <1>3, <1>5, <1>7, ConfiguredStays DEF Configured
<1>9. cmd.pc \in ResolvedPcs /\ cmd.pc \in KeyPcs /\ cmd.pc \in CallPcs
  BY <1>1 DEF CallPcs, KeyPcs, ResolvedPcs, ConfiguredPcs
<1>10. QED
  BY <1>2, <1>5, <1>6, <1>7, <1>8, <1>9, SettingIs, SetUpStep

\* Every step of init but the last goes on from there.
LEMMA InitSetsUp ==
  ASSUME Setting, Next, ~ Starts, ~ SdkStep
  PROVE  SetUp'
<1>1. CASE InitVerify
  <2>1. cmd'.pc = "idle"
    BY <1>1, SettingIs, FinishGoes DEF InitVerify
  <2>2. QED
    BY <2>1, NothingSetUp, InitPcs
<1>2. CASE InitStep
  BY <1>1, <1>2, InstrumentationSetUp, ScaffoldSetUp, KeySetUp, DiscoverySetUp, CiSetUp, LateSetUp,
     AgentSetUp DEF InitStep, Starts, Dispatched
<1>3. CASE McpStep
  <2>1. ~ McpAddResolve /\ \A a : ~ McpAddAgent(a)
    BY DEF Setting, McpAddResolve, McpAddAgent, At
  <2>2. QED
    BY <1>3, <2>1, AgentsDoneSetUp, WindsurfSetUp, InjectSetUp, LateSetUp, MarkerSetUp
       DEF McpStep, Starts
<1>4. ~ UninitStep
  BY DEF Setting, Starts, UninitStep, UninitMarker, UninitNextConfig, UninitInstrumentation,
     UninitDirectory, UninitDiscovery, UninitEnvLocal, UninitConfirmed, UninitGitignore, UninitMcp,
     UninitInfo, UninitExit, At
<1>5. ~ UpgradeAll /\ ~ Killed
  BY DEF Setting, UpgradeAll, Killed, At
<1>6. QED
  BY <1>2, <1>3, <1>4, <1>5, WindsurfSetUp DEF Next, Starts

LEMMA EnvKeyStays ==
  ASSUME TypeOK, AllKept, Next, ~ Fails, ~ SdkStep, cmd.name = "init"
  PROVE  EnvKey(fs'[cmd.root]) = EnvKey(Here)
<1>1. ~ RollsBack /\ ~ SdkWritesKey
  BY DEF RollsBack, FailAndRollBack, SdkStep
<1>2. ~ UninitDirectory /\ ~ UninitEnvLocal /\ ~ UninitConfirmed
  BY DEF UninitDirectory, UninitEnvLocal, UninitConfirmed, At
<1>3. DirsTame
  BY <1>1, <1>2, StepsAreTame
<1>4. cmd.root \in Dir
  BY DEF TypeOK, Command, Sites, Dir
<1>5. QED
  BY <1>3, <1>4 DEF DirsTame, Tame, Here

LEMMA OthersClear ==
  ASSUME TypeOK, Next, ~ Starts, ~ Fails, ~ SdkStep, ~ UninitStep, cmd.name = "uninit"
  PROVE  Cleared'
<1>1. ~ InitStep
  BY DEF InitStep, Starts, InitInstrumentation, InitNextConfig, InitEnvLocal,
     InitGitignore, InitAnonKey, InitDiscovery, InitCi, InitCoverage, InitVerify, InitAgent, At
<1>2. WindsurfReplace \/ ~ McpStep
  BY DEF McpStep, Starts, McpAddResolve, McpAddAgent, AgentsDone, WindsurfStage, Inject,
     UpdateGitignore, WriteMcpMarker, At
<1>3. ~ UpgradeAll /\ ~ Killed
  BY DEF UpgradeAll, Killed, At
<1>4. WindsurfReplace \/ UserEditsWindsurf
  BY <1>1, <1>2, <1>3 DEF Next, Starts
<1>5. cmd'.pc \in {"agents", "windsurf"}
  BY <1>4, ZenonT(60)
     DEF WindsurfReplace, UserEditsWindsurf, WindsurfThrows, WindsurfReady, TypeOK, Command
<1>6. cmd'.pc \notin ImportGonePcs
  BY <1>5 DEF ImportGonePcs, OursGonePcs, EntriesGonePcs
<1>7. QED
  BY <1>6, NothingCleared

LEMMA StepSettled ==
  ASSUME CliInv, QuietlyReversible, QuietlySettled, Next
  PROVE  QuietlySettled'
<1> SUFFICES ASSUME Quiet' PROVE Settled'
  BY DEF QuietlySettled
<1>1. Quiet /\ ~ Fails /\ ~ SdkStep /\ TypeOK /\ AllKept
  BY WasQuiet DEF CliInv
<1>2. Settled /\ Cleanable /\ budget'.faults = budget.faults
  BY <1>1 DEF QuietlySettled, QuietlyReversible, Cleanable, Quiet
<1>3. ASSUME cmd'.name = "init", cmd'.yes PROVE SetUp'
  <2>1. CASE Starts
    <3>1. cmd'.pc = "instrumentation"
      BY <1>1, <1>3, <2>1, StartsTyped DEF Starts
    <3>2. QED
      BY <3>1, NothingSetUp, InitPcs
  <2>2. CASE ~ Starts
    <3>1. SameRun(cmd') /\ cmd.name = "init" /\ cmd.yes
      BY <1>1, <1>3, <2>2, StepRun DEF SameRun
    <3>2. EnvKey(Here') = EnvKey(Here)
      BY <1>1, <3>1, EnvKeyStays DEF SameRun, Here
    <3>3. Setting
      BY <1>1, <1>2, <3>1, <3>2 DEF Setting, Settled
    <3>4. QED
      BY <1>1, <2>2, <3>3, InitSetsUp
  <2>3. QED
    BY <2>1, <2>2
<1>4. ASSUME cmd'.name = "uninit" PROVE Cleared'
  <2>1. CASE UninitStep
    BY <1>2, <2>1, UninitClears DEF Settled
  <2>2. CASE Starts
    <3>1. cmd'.pc = "marker"
      BY <1>1, <1>4, <2>2, StartsTyped DEF Starts
    <3>2. QED
      BY <3>1, NothingCleared, UninitPcs
  <2>3. CASE ~ Starts /\ ~ UninitStep
    <3>1. cmd.name = "uninit"
      BY <1>1, <1>4, <2>3, StepRun DEF SameRun
    <3>2. QED
      BY <1>1, <2>3, <3>1, OthersClear
  <2>4. QED
    BY <2>1, <2>2, <2>3
<1>5. QED
  BY <1>3, <1>4 DEF Settled

LEMMA StartSettled == Init => QuietlySettled
<1> SUFFICES ASSUME Init PROVE cmd.name = "none"
  BY DEF QuietlySettled, Settled
<1>1. QED
  BY DEF Init, Idle

LEMMA StutterSettled == QuietlySettled /\ UNCHANGED vars => QuietlySettled'
<1> SUFFICES ASSUME QuietlySettled, UNCHANGED vars, Quiet' PROVE Settled'
  BY DEF QuietlySettled
<1>1. cmd' = cmd /\ fs' = fs /\ Settled
  BY DEF vars, Quiet, QuietlySettled
<1>2. SetUp => SetUp'
  BY <1>1 DEF SetUp, Configured, HasConfig, HasStamp, HasCall, EffectiveCredential, EnvKey, Has, Here
<1>3. Cleared => Cleared'
  BY <1>1 DEF Cleared, NoImport, NoneOfOurs, NoEntries, Has, Here
<1>4. QED
  BY <1>1, <1>2, <1>3 DEF Settled

-----------------------------------------------------------------------------
\* The end of a command

LEMMA ScaffoldNotDone ==
  ASSUME cmd \in Command, cmd.exit = "none", Scaffolds
  PROVE  cmd'.exit # "done"
<1>1. \/ Finish("conflict") \/ Finish("rolled back") \/ \E pc : Continue(pc)
      \/ \E name, existed :
           cmd' = [cmd EXCEPT !.pc = "next-config", !.undo = {"instrumentation"},
                              !.target = name, !.saved = existed]
      \/ \E pc, step : cmd' = [cmd EXCEPT !.pc = pc, !.undo = @ \cup {step}]
  <2>1. CASE InitInstrumentation
    BY <2>1 DEF InitInstrumentation, SkipTo, FailAndRollBack
  <2>2. CASE InitNextConfig \/ InitEnvLocal \/ InitGitignore
    BY <2>2 DEF InitNextConfig, InitEnvLocal, InitGitignore, Scaffold, SkipTo, FailAndRollBack
  <2>3. QED
    BY <2>1, <2>2 DEF Scaffolds
<1>2. QED
  BY <1>1 DEF Finish, Continue, Command

LEMMA UninitNotDone ==
  ASSUME TypeOK, UninitStep, ~ StartUninit, ~ UninitExit
  PROVE  cmd'.exit = cmd.exit
<1>1. cmd \in Command
  BY DEF TypeOK
<1>2. Cleanings \/ UninitMarker \/ UninitEnvLocal \/ UninitConfirmed
  BY DEF UninitStep, Cleanings
<1>3. \A pc : Continue(pc) \/ Cleans(pc) => cmd'.exit = cmd.exit
  BY <1>1 DEF Continue, Cleans, Command
<1>4. CASE Cleanings \/ UninitMarker
  BY <1>3, <1>4, CleaningsAre DEF UninitMarker
<1>5. CASE UninitEnvLocal
  BY <1>1, <1>3, <1>5, UninitEnvIs DEF Asks, Command
<1>6. CASE UninitConfirmed
  <2>1. PICK consent, errors \in BOOLEAN :
          cmd' = [cmd EXCEPT !.pc = "gitignore", !.env = <<>>, !.consent = consent,
                             !.errors = errors]
    BY <1>6, UninitConfirmedIs
  <2>2. QED
    BY <1>1, <2>1 DEF Command
<1>7. QED
  BY <1>2, <1>4, <1>5, <1>6

LEMMA OnlyLastStep ==
  ASSUME CliInv, Next, cmd.pc # "idle", cmd'.exit = "done", cmd.name \in {"init", "uninit"}
  PROVE  IF cmd.name = "init" THEN InitVerify ELSE UninitExit
<1>1. cmd.exit = "none" /\ cmd \in Command /\ TypeOK /\ Staged
  BY DEF CliInv, Scaffolding, TypeOK
<1>2. ~ Starts
  BY StartsAre
<1>3. ~ Scaffolds
  BY <1>1, ScaffoldNotDone
<1>4. cmd'.exit # cmd.exit
  BY <1>1
<1>5. \A pc : ~ Continue(pc)
  BY <1>1, <1>4 DEF Continue, Command
<1>6. InitStep => InitVerify
  <2>1. ~ InitCoverage
    BY <1>5 DEF InitCoverage
  <2>2. QED
    BY <1>1, <1>2, <1>3, <1>4, <2>1, KeyGoes, McpGoes DEF InitStep, Starts, Scaffolds, GoesOn
<1>7. ~ McpStep
  <2>1. ~ AgentsDone /\ ~ Inject
    BY <1>5 DEF AgentsDone, Inject
  <2>2. ~ UpdateGitignore /\ ~ WriteMcpMarker
    BY <1>5 DEF UpdateGitignore, WriteMcpMarker, McpThrows
  <2>3. ~ WindsurfStage /\ ~ WindsurfReplace
    BY <1>1, <1>4, WindsurfGoes DEF GoesOn
  <2>4. ~ McpAddResolve
    BY DEF McpAddResolve, At
  <2>5. QED
    BY <1>1, <1>2, <1>4, <2>1, <2>2, <2>3, <2>4, McpGoes DEF McpStep, Starts, GoesOn
<1>8. UninitStep => UninitExit
  BY <1>1, <1>2, <1>4, UninitNotDone DEF Starts
<1>9. ~ SdkStep /\ ~ UserEditsWindsurf
  BY <1>4 DEF SdkStep, SdkStarts, SdkSeesMarker, SdkReadsEnv, SdkWritesKey, SdkRefreshes,
     UserEditsWindsurf
<1>10. ~ UpgradeAll /\ ~ Killed
  BY <1>1, FinishGoes DEF UpgradeAll, Killed, At
<1>11. InitVerify \/ UninitExit
  BY <1>2, <1>6, <1>7, <1>8, <1>9, <1>10 DEF Next, Starts
<1>12. QED
  BY <1>11 DEF InitVerify, UninitExit, At

LEMMA FieldHolds ==
  ASSUME NEW a \in BOOLEAN, NEW b \in BOOLEAN, NEW c \in BOOLEAN, NEW d \in BOOLEAN, NEW e \in BOOLEAN,
         NEW issue,
         LET holds == [dirWithoutImport |-> a, importWithoutDir |-> b, markerWithoutConfigs |-> c,
                       configsWithoutMarker |-> d, staleCredential |-> e]
         IN issue \in {i \in DOMAIN holds : holds[i]}
  PROVE  \/ issue = "dirWithoutImport" /\ a
         \/ issue = "importWithoutDir" /\ b
         \/ issue = "markerWithoutConfigs" /\ c
         \/ issue = "configsWithoutMarker" /\ d
         \/ issue = "staleCredential" /\ e
<1> DEFINE holds == [dirWithoutImport |-> a, importWithoutDir |-> b, markerWithoutConfigs |-> c,
                     configsWithoutMarker |-> d, staleCredential |-> e]
<1>1. /\ holds["dirWithoutImport"] = a /\ holds["importWithoutDir"] = b
      /\ holds["markerWithoutConfigs"] = c /\ holds["configsWithoutMarker"] = d
      /\ holds["staleCredential"] = e
      /\ DOMAIN holds = {"dirWithoutImport", "importWithoutDir", "markerWithoutConfigs",
                         "configsWithoutMarker", "staleCredential"}
  OBVIOUS
<1>2. issue \in DOMAIN holds /\ holds[issue]
  OBVIOUS
<1> HIDE DEF holds
<1>3. issue = "dirWithoutImport" => a
  BY <1>1, <1>2
<1>4. issue = "importWithoutDir" => b
  BY <1>1, <1>2
<1>5. issue = "markerWithoutConfigs" => c
  BY <1>1, <1>2
<1>6. issue = "configsWithoutMarker" => d
  BY <1>1, <1>2
<1>7. issue = "staleCredential" => e
  BY <1>1, <1>2
<1>8. QED
  BY <1>1, <1>2, <1>3, <1>4, <1>5, <1>6, <1>7

LEMMA IssuesAre ==
  ASSUME NEW dir, NEW issue \in ValidationIssues(dir)
  PROVE  LET text == IF Has(dir, "instrumentation.ts") THEN dir["instrumentation.ts"] ELSE {}
             marker == Has(dir, "mcp-connected")
             configs == DOMAIN dir \cap StatusMcpFiles # {}
             effective == EffectiveCredential(dir)
         IN \/ /\ issue = "dirWithoutImport"
               /\ GlasstraceDirExists(dir) /\ ~ HasRegisterGlasstraceImport(text)
            \/ issue = "importWithoutDir" /\ ~ GlasstraceDirExists(dir) /\ HasGlasstraceImport(text)
            \/ issue = "markerWithoutConfigs" /\ marker /\ ~ configs
            \/ issue = "configsWithoutMarker" /\ ~ marker /\ configs
            \/ issue = "staleCredential" /\ marker /\ ~ MarkerMatches(dir, effective)
<1> DEFINE text == IF Has(dir, "instrumentation.ts") THEN dir["instrumentation.ts"] ELSE {}
           marker == Has(dir, "mcp-connected")
           configs == DOMAIN dir \cap StatusMcpFiles # {}
           effective == EffectiveCredential(dir)
           a == GlasstraceDirExists(dir) /\ ~ HasRegisterGlasstraceImport(text)
           b == ~ GlasstraceDirExists(dir) /\ HasGlasstraceImport(text)
           c == marker /\ ~ configs
           d == ~ marker /\ configs
           e == marker /\ effective # NoCredential /\ ~ MarkerMatches(dir, effective)
<1>1. LET holds == [dirWithoutImport |-> a, importWithoutDir |-> b, markerWithoutConfigs |-> c,
                    configsWithoutMarker |-> d, staleCredential |-> e]
      IN issue \in {i \in DOMAIN holds : holds[i]}
  BY Zenon DEF ValidationIssues
<1>2. a \in BOOLEAN /\ b \in BOOLEAN /\ c \in BOOLEAN /\ d \in BOOLEAN /\ e \in BOOLEAN
  OBVIOUS
<1> HIDE DEF a, b, c, d, e
<1>3. \/ issue = "dirWithoutImport" /\ a
      \/ issue = "importWithoutDir" /\ b
      \/ issue = "markerWithoutConfigs" /\ c
      \/ issue = "configsWithoutMarker" /\ d
      \/ issue = "staleCredential" /\ e
  BY <1>1, <1>2, FieldHolds
<1>4. QED
  BY <1>3 DEF a, b, c, d, e

\* What `validate` and `status` make of it.
LEMMA InitReports ==
  ASSUME CliInv, SetUp, At("init", "verify"), NEW issue
  PROVE  /\ issue \in ValidationIssues(Here) => MayBeReported(issue, Here)
         /\ LET status == RunStatus(Here)
            IN status.initialized /\ status.anonKey /\ status.mcpConfigured /\ status.instrumentation
<1>1. "verify" \in StampedPcs /\ cmd.pc = "verify"
  BY DEF StampedPcs, At
<1>2. /\ HasCall(Here) /\ Has(Here, "anon_key") /\ cmd.credential = EffectiveCredential(Here)
      /\ HasConfig(Here) /\ HasStamp(Here, cmd.credential.key)
  BY <1>1, InitPcs DEF SetUp, Configured
<1> DEFINE dir == Here
<1> HIDE DEF dir
<1>3. /\ HasCall(dir) /\ Has(dir, "anon_key") /\ HasConfig(dir)
      /\ Has(dir, "mcp-connected") /\ MarkerMatches(dir, EffectiveCredential(dir))
  BY <1>2 DEF dir, HasStamp, MarkerMatches
<1>4. GlasstraceDirExists(dir)
  BY <1>3 DEF GlasstraceDirExists, GlasstraceFiles, Has
<1>5. "mcp.json" \in DOMAIN dir \cap StatusMcpFiles /\ HasEntry(dir["mcp.json"])
  BY <1>3 DEF HasConfig, Has, StatusMcpFiles
<1>6. PICK n \in Instrumentation :
        /\ Has(dir, n) /\ dir[n] \cap {"import", "call", "callOpts"} # {}
        /\ n = "instrumentation.ts" => "import" \in dir[n] \/ HasRegisterGlasstraceCall(dir[n])
  BY <1>3 DEF HasCall
<1>7. ASSUME issue = "dirWithoutImport",
             ~ HasRegisterGlasstraceImport(IF Has(dir, "instrumentation.ts")
                                           THEN dir["instrumentation.ts"] ELSE {})
      PROVE  MayBeReported(issue, dir)
  <2>1. CASE n = "instrumentation.ts"
    BY <1>6, <1>7, <2>1 DEF HasRegisterGlasstraceImport, MayBeReported
  <2>2. CASE n # "instrumentation.ts"
    BY <1>6, <1>7, <2>2 DEF MayBeReported, Has
  <2>3. QED
    BY <2>1, <2>2
<1>8. issue \in ValidationIssues(dir) => MayBeReported(issue, dir)
  BY <1>3, <1>4, <1>5, <1>7, IssuesAre
<1>9. LET status == RunStatus(dir)
      IN status.initialized /\ status.anonKey /\ status.mcpConfigured /\ status.instrumentation
  <2>1. \E m \in DOMAIN dir \cap Instrumentation : dir[m] \cap {"import", "call", "callOpts"} # {}
    BY <1>6 DEF Has
  <2>2. \E m \in DOMAIN dir \cap StatusMcpFiles : HasEntry(dir[m])
    BY <1>5
  <2>3. QED
    BY <1>3, <1>4, <2>1, <2>2 DEF RunStatus
<1>10. QED
  BY <1>8, <1>9 DEF dir

LEMMA UninitReports ==
  ASSUME CliInv, Cleared, At("uninit", "exit"), NEW issue
  PROVE  /\ issue \in ValidationIssues(Here) => MayBeReported(issue, Here)
         /\ LET status == RunStatus(Here)
            IN ~ status.initialized /\ ~ status.anonKey /\ ~ status.mcpConfigured
<1>1. NoImport(Here) /\ NoneOfOurs(Here) /\ NoEntries(Here) /\ cmd.name = "uninit"
  BY UninitPcs DEF Cleared, At
<1> DEFINE dir == Here
<1> HIDE DEF dir
<1>2. NoImport(dir) /\ NoneOfOurs(dir) /\ NoEntries(dir)
  BY <1>1 DEF dir
<1>3. ~ GlasstraceDirExists(dir)
  BY <1>2 DEF GlasstraceDirExists, NoneOfOurs, Has
<1>4. ~ Has(dir, "mcp-connected") /\ ~ Has(dir, "anon_key") /\ ~ Has(dir, "mcp.json")
  BY <1>2 DEF NoneOfOurs, GlasstraceFiles
<1>5. \A n \in DOMAIN dir \cap StatusMcpFiles : ~ HasEntry(dir[n])
  BY <1>2, <1>4 DEF NoEntries, StatusMcpFiles, AgentConfigs, Has
<1>6. ASSUME issue = "importWithoutDir",
             HasGlasstraceImport(IF Has(dir, "instrumentation.ts") THEN dir["instrumentation.ts"] ELSE {})
      PROVE  MayBeReported(issue, dir)
  <2>1. Has(dir, "instrumentation.ts")
    BY <1>6 DEF HasGlasstraceImport
  <2>2. "sdkOther" \in dir["instrumentation.ts"]
    BY <1>2, <1>6, <2>1 DEF HasGlasstraceImport, NoImport
  <2>3. QED
    BY <1>6, <2>2 DEF MayBeReported
<1>7. ASSUME issue = "configsWithoutMarker", DOMAIN dir \cap StatusMcpFiles # {}
      PROVE  MayBeReported(issue, dir)
  BY <1>1, <1>5, <1>7 DEF MayBeReported
<1>8. issue \in ValidationIssues(dir) => MayBeReported(issue, dir)
  BY <1>3, <1>4, <1>6, <1>7, IssuesAre
<1>9. LET status == RunStatus(dir)
      IN ~ status.initialized /\ ~ status.anonKey /\ ~ status.mcpConfigured
  BY <1>3, <1>4, <1>5 DEF RunStatus
<1>10. QED
  BY <1>8, <1>9 DEF dir

Ends ==
  /\ cmd.pc # "idle" /\ cmd'.exit = "done"
  /\ cmd.name = "uninit" \/ (cmd.name = "init" /\ cmd.yes)
  /\ budget'.faults = 0 /\ sdk.claim = "no" /\ sdk.state = "absent"

LEMMA EndConsistent ==
  ASSUME CliInv, QuietlySettled, Next, Ends
  PROVE  LET after == fs'[cmd.root]
             status == RunStatus(after)
         IN /\ \A issue \in ValidationIssues(after) : MayBeReported(issue, after)
            /\ {status.initialized, status.anonKey, status.mcpConfigured} = {cmd.name = "init"}
            /\ cmd.name = "init" => status.instrumentation
<1>1. IF cmd.name = "init" THEN InitVerify ELSE UninitExit
  BY OnlyLastStep DEF Ends
<1>2. UNCHANGED <<fs, sdk>>
  BY <1>1 DEF InitVerify, UninitExit
<1>3. Settled
  <2>1. Quiet'
    BY <1>2 DEF Ends, Quiet
  <2>2. Quiet
    BY <2>1, WasQuiet DEF CliInv
  <2>3. QED
    BY <2>2 DEF QuietlySettled
<1>4. fs'[cmd.root] = Here
  BY <1>2 DEF Here
<1> DEFINE status == RunStatus(Here)
<1>5. CASE cmd.name = "init"
  <2>1. At("init", "verify") /\ SetUp
    BY <1>1, <1>3, <1>5 DEF InitVerify, Settled, Ends
  <2>2. \A issue \in ValidationIssues(Here) : MayBeReported(issue, Here)
    BY <2>1, InitReports
  <2>3. status.initialized /\ status.anonKey /\ status.mcpConfigured /\ status.instrumentation
    BY <2>1, InitReports
  <2>4. {status.initialized, status.anonKey, status.mcpConfigured} = {cmd.name = "init"}
    BY <1>5, <2>3
  <2>5. QED
    BY <1>4, <2>2, <2>3, <2>4
<1>6. CASE cmd.name # "init"
  <2>1. At("uninit", "exit") /\ Cleared
    BY <1>1, <1>3, <1>6 DEF UninitExit, Settled, At
  <2>2. \A issue \in ValidationIssues(Here) : MayBeReported(issue, Here)
    BY <2>1, UninitReports
  <2>3. ~ status.initialized /\ ~ status.anonKey /\ ~ status.mcpConfigured
    BY <2>1, UninitReports
  <2>4. status.initialized \in BOOLEAN /\ status.anonKey \in BOOLEAN /\ status.mcpConfigured \in BOOLEAN
    BY DEF RunStatus, GlasstraceDirExists, Has
  <2> HIDE DEF status
  <2>5. {status.initialized, status.anonKey, status.mcpConfigured} = {cmd.name = "init"}
    BY <1>6, <2>3, <2>4
  <2>6. QED
    BY <1>4, <1>6, <2>2, <2>5 DEF status
<1>7. QED
  BY <1>5, <1>6

\* After an init in which nothing is declined, and after an uninit, `validate`
\* finds nothing to complain of but what MayBeReported names, and `status`
\* reports the project as set up, or as not set up.
THEOREM EndsConsistently == Spec => ConsistentAfterCommand
<1>1. Init => CliInv /\ QuietlyReversible /\ QuietlySettled
  BY InitSound, StartReversible, StartSettled
<1>2. CliInv /\ QuietlyReversible /\ QuietlySettled /\ [Next]_vars =>
        CliInv' /\ QuietlyReversible' /\ QuietlySettled'
  BY NextSound, StutterSound, StepReversible, StutterReversible, StepSettled, StutterSettled
<1>3. CliInv /\ QuietlySettled /\ [Next]_vars =>
        [/\ cmd.pc # "idle" /\ cmd'.exit = "done"
         /\ cmd.name = "uninit" \/ (cmd.name = "init" /\ cmd.yes)
         /\ budget'.faults = 0 /\ sdk.claim = "no" /\ sdk.state = "absent"
         => LET after == fs'[cmd.root]
                status == RunStatus(after)
            IN /\ \A issue \in ValidationIssues(after) : MayBeReported(issue, after)
               /\ {status.initialized, status.anonKey, status.mcpConfigured} = {cmd.name = "init"}
               /\ cmd.name = "init" => status.instrumentation]_vars
  BY EndConsistent DEF Ends
<1>4. QED
  BY <1>1, <1>2, <1>3, PTL DEF Spec, ConsistentAfterCommand

\* Each command ends in the state it promises: init and uninit in one that
\* `validate` and `status` describe, upgrade-instructions in one it would not
\* change again.
THEOREM CommandsAreSettled == Spec => CommandsSettle
BY EndsConsistently, UpgradeIsIdempotent, PTL DEF CommandsSettle
=============================================================================
