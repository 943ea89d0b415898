---------------------------- MODULE DriverProofs ----------------------------
(***************************************************************************)
(* The compiler's main function, for every command line and every file:    *)
(* the two passes over the options agree with each other and with the      *)
(* usage text, and what is written is the whole program.                   *)
(***************************************************************************)
EXTENDS Driver, SequenceTheorems, Induction, TLAPS

-----------------------------------------------------------------------------
(* The table of options.                                                   *)

Indexes == {UNKNOWN, PACKAGE, OUTPUT, DEBUG}

(* The entries of usage[], as they are and by what they are read for.      *)
LEMMA Entries ==
  /\ \A d \in Usage : d.index \in Indexes /\ d.required \in BOOLEAN
  /\ \A i \in Indexes : \E d \in Usage : d.index = i
<1> DEFINE u == [index |-> UNKNOWN, shortopt |-> "", longopt |-> "", required |-> FALSE]
           p == [index |-> PACKAGE, shortopt |-> "p", longopt |-> "package", required |-> TRUE]
           o == [index |-> OUTPUT, shortopt |-> "o", longopt |-> "output", required |-> TRUE]
           g == [index |-> DEBUG, shortopt |-> "g", longopt |-> "debug", required |-> FALSE]
<1>1. Usage = {u, p, o, g}
  BY DEF Usage
<1>2. /\ u.index = UNKNOWN /\ p.index = PACKAGE /\ o.index = OUTPUT /\ g.index = DEBUG
      /\ u.required \in BOOLEAN /\ p.required \in BOOLEAN
      /\ o.required \in BOOLEAN /\ g.required \in BOOLEAN
  OBVIOUS
<1> HIDE DEF u, p, o, g
<1> QED
  BY <1>1, <1>2 DEF Indexes

(* The largest index of usage[] is that of --debug.                        *)
LEMMA OptionsMax == options_max = 6
<1>1. {d.index : d \in Usage} = {0, 1, 2, 4}
  BY Entries DEF Indexes, UNKNOWN, PACKAGE, OUTPUT, DEBUG
<1>2. Max({0, 1, 2, 4}) = 4
  <2>1. 4 \in {0, 1, 2, 4} /\ \A y \in {0, 1, 2, 4} : 4 >= y
    OBVIOUS
  <2>2. \A x \in {0, 1, 2, 4} : (\A y \in {0, 1, 2, 4} : x >= y) => x = 4
    OBVIOUS
  <2> DEFINE S == {0, 1, 2, 4}
  <2>3. Max(S) = CHOOSE x \in S : \A y \in S : x >= y
    BY DEF Max
  <2> QED
    BY <2>1, <2>2, <2>3
<1>3. Max({d.index : d \in Usage}) = 4
  BY <1>1, <1>2, Zenon
<1> QED
  BY <1>3 DEF options_max

(* Whatever its name, an option is taken for an entry of the table.        *)
LEMMA Described ==
  /\ \A name : LongOption(name) \in Usage
  /\ \A letr : ShortOption(letr) \in Usage
  /\ \A d \in Usage : d.index \in Indexes /\ d.required \in BOOLEAN
<1>1. UnknownOption \in Usage
  <2>1. \E d \in Usage : d.index = UNKNOWN
    BY Entries DEF Indexes
  <2> QED
    BY <2>1 DEF UnknownOption
<1>2. \A found \in SUBSET Usage : OrUnknown(found) \in Usage
  BY <1>1 DEF OrUnknown
<1>3. \A d \in Usage : d.index \in Indexes /\ d.required \in BOOLEAN
  BY Entries
<1> QED
  BY <1>2, <1>3 DEF LongOption, ShortOption

-----------------------------------------------------------------------------
(* The workhorse.  Where it is and what it does next depends on nothing    *)
(* but the command line c, the argument a and the letters l of it that are *)
(* done: the two passes take the same steps.                               *)

Following(c, a) == IF a < Len(c) THEN Whole(a + 1) ELSE None
More(c, a, l) == c[a].kind = "group" /\ l + 1 < Len(c[a].letters)
Entry(c, a, l) ==
  IF c[a].kind = "long" THEN LongOption(c[a].name) ELSE ShortOption(c[a].letters[l + 1])
Optarg(c, a, l) ==
  IF c[a].kind = "long" THEN IF c[a].attached THEN <<a, 1>> ELSE Following(c, a)
  ELSE IF More(c, a, l) THEN <<a, l + 2>> ELSE Following(c, a)

IsOption(c, a) == a <= Len(c) /\ c[a].kind \in {"long", "group"}
Lacks(c, a, l) == Entry(c, a, l).required /\ Optarg(c, a, l) = None
Takes(c, a, l) == IsOption(c, a) /\ ~Lacks(c, a, l)

AfterAt(c, a, l) ==
  IF Entry(c, a, l).required THEN IF Optarg(c, a, l) = Whole(a + 1) THEN a + 2 ELSE a + 1
  ELSE IF More(c, a, l) THEN a ELSE a + 1
AfterLetter(c, a, l) == IF ~Entry(c, a, l).required /\ More(c, a, l) THEN l + 1 ELSE 0

Texts == (Nat \X Nat) \cup {None}
Stored == [index : Indexes, arg : Texts]

ParserTyped ==
  /\ args \in Seq(Arguments) /\ Len(args) <= MaxArguments
  /\ pass \in {"count", "store", "parsed", "error"}
  /\ at \in Nat /\ 1 <= at /\ at <= Len(args) + 1
  /\ letter \in Nat
  /\ letter > 0 =>
       at <= Len(args) /\ args[at].kind = "group" /\ letter < Len(args[at].letters)
  /\ buffer_max \in Nat
  /\ options \in [0 .. 5 -> Stored \cup {None}]
  /\ buffer \in Seq(Stored)
  /\ pass = "count" => buffer = <<>>
  /\ pass = "store" => Len(buffer) <= 2 * (at - 1) + letter
  /\ next_ \in [Option -> [to : Option, tag : BOOLEAN]]
  /\ prev_ \in [Option -> [to : Option, tag : BOOLEAN]]

(* What an argument is.                                                    *)
LEMMA ArgumentTyped ==
  ASSUME NEW x \in Arguments
  PROVE  /\ x.kind \in {"word", "end", "long", "group"}
         /\ x.kind = "long" => x.attached \in BOOLEAN
         /\ x.kind = "group" => Len(x.letters) \in 1 .. 2 /\ DOMAIN x.letters = 1 .. Len(x.letters)
<1>1. \/ x \in [kind : {"word", "end"}]
      \/ x \in [kind : {"long"}, name : STRING, attached : BOOLEAN]
      \/ x \in [kind : {"group"}, letters : [1 .. 1 -> STRING] \cup [1 .. 2 -> STRING]]
  BY ArgumentsTyped
<1>2. ASSUME NEW s \in [1 .. 1 -> STRING] \cup [1 .. 2 -> STRING]
      PROVE  Len(s) \in 1 .. 2 /\ DOMAIN s = 1 .. Len(s)
  <2>1. PICK n \in {1, 2} : s \in [1 .. n -> STRING]
    OBVIOUS
  <2>2. s \in Seq(STRING) /\ DOMAIN s = 1 .. n
    BY <2>1, SeqDef
  <2>3. Len(s) \in Nat /\ DOMAIN s = 1 .. Len(s)
    BY <2>2, LenProperties
  <2>4. n = Len(s)
    BY <2>2, <2>3
  <2> QED
    BY <2>3, <2>4
<1> QED
  BY <1>1, <1>2

(* The text that an option has as its argument.                            *)
LEMMA OptargTyped ==
  ASSUME NEW c \in Seq(Arguments), NEW a \in Nat, NEW l \in Nat
  PROVE  Optarg(c, a, l) \in Texts
  BY DEF Optarg, Following, Whole, Texts

(* Each step of the workhorse ends a pass or takes an option.              *)
Ends(from) ==
  /\ \/ letter = 0 /\ from = at /\ (at <= Len(args) => args[at].kind = "word")
     \/ letter = 0 /\ at <= Len(args) /\ args[at].kind = "end" /\ from = at + 1
  /\ Finish(from)
Refuses == IsOption(args, at) /\ Lacks(args, at, letter) /\ Fail
TakesOption ==
  /\ Takes(args, at, letter)
  /\ \E optarg \in Texts : Perform(Entry(args, at, letter), optarg)
  /\ at' = AfterAt(args, at, letter) /\ letter' = AfterLetter(args, at, letter)
  /\ UNCHANGED <<pass, nonop>>

LEMMA Workhorse ==
  ASSUME ParserTyped, ParseArguments
  PROVE  /\ Passing /\ args' = args
         /\ (\E from \in {at, at + 1} : Ends(from)) \/ Refuses \/ TakesOption
<1>1. args \in Seq(Arguments) /\ at \in Nat /\ letter \in Nat
  BY DEF ParserTyped
<1>2. Passing /\ args' = args
  BY DEF ParseArguments, StopAtNonOption, StopAtDashes, TakeLong, TakeLetter
<1>3. CASE StopAtNonOption
  BY <1>1, <1>3 DEF StopAtNonOption, Ends, Argument
<1>4. CASE StopAtDashes
  BY <1>1, <1>4 DEF StopAtDashes, Ends, Argument
<1> DEFINE d == Entry(args, at, letter)
           o == Optarg(args, at, letter)
           m == More(args, at, letter)
<1>5. ASSUME IsOption(args, at), Handle(d, o, m) PROVE Refuses \/ TakesOption
  <2>1. CASE d.required /\ o = None
    BY <1>5, <2>1 DEF Handle, Refuses, Lacks
  <2>2. CASE d.required /\ o # None
    <3>1. /\ Perform(d, o) /\ UNCHANGED <<pass, nonop>>
          /\ at' = IF o = Whole(at + 1) THEN at + 2 ELSE at + 1
          /\ letter' = 0
      BY <1>5, <2>2 DEF Handle
    <3>2. o \in Texts
      BY <1>1, OptargTyped
    <3> QED
      BY <1>5, <2>2, <3>1, <3>2 DEF TakesOption, Takes, Lacks, AfterAt, AfterLetter
  <2>3. CASE ~d.required
    <3>1. /\ Perform(d, None) /\ UNCHANGED <<pass, nonop>>
          /\ at' = IF m THEN at ELSE at + 1
          /\ letter' = IF m THEN letter + 1 ELSE 0
      BY <1>5, <2>3 DEF Handle
    <3>2. None \in Texts
      BY DEF Texts
    <3> QED
      BY <1>5, <2>3, <3>1, <3>2 DEF TakesOption, Takes, Lacks, AfterAt, AfterLetter
  <2> QED
    BY <2>1, <2>2, <2>3
<1>6. CASE TakeLong
  <2>1. letter = 0 /\ at <= Len(args) /\ args[at].kind = "long"
    BY <1>6 DEF TakeLong, Argument
  <2>2. IsOption(args, at) /\ d = LongOption(args[at].name) /\ ~m
    BY <2>1 DEF IsOption, Entry, More
  <2>3. o = IF args[at].attached THEN <<at, 1>> ELSE NextArgument
    BY <2>1 DEF Optarg, Following, NextArgument, HasMore
  <2>4. Handle(d, o, FALSE)
    BY <1>6, <2>2, <2>3 DEF TakeLong, Argument
  <2>5. Handle(d, o, m)
    BY <2>2, <2>4 DEF Handle
  <2> QED
    BY <1>2, <1>5, <2>2, <2>5
<1>7. CASE TakeLetter
  <2>1. at <= Len(args) /\ args[at].kind = "group"
    BY <1>7 DEF TakeLetter, Argument
  <2>2. /\ IsOption(args, at) /\ d = ShortOption(args[at].letters[letter + 1])
        /\ m <=> letter + 1 < Len(args[at].letters)
    BY <2>1 DEF IsOption, Entry, More
  <2>3. o = IF m THEN <<at, letter + 2>> ELSE NextArgument
    BY <2>1 DEF Optarg, Following, NextArgument, HasMore
  <2>4. Handle(d, o, m)
    BY <1>7, <2>2, <2>3 DEF TakeLetter, Argument, Handle
  <2> QED
    BY <1>2, <1>5, <2>2, <2>4
<1> QED
  BY <1>2, <1>3, <1>4, <1>6, <1>7 DEF ParseArguments

-----------------------------------------------------------------------------
(* The lists of options.                                                   *)

ListHead(i) == <<"options", i>>
ListItem(n) == <<"buffer", n>>

(* Only elements that are not the first of their kind have an untagged     *)
(* pointer back, and it stays within the kind; a kind without options is a *)
(* head that points to itself.                                             *)
Behind(k) == \E n \in DOMAIN buffer : k = ListItem(n) /\ ~IsFirst(n)

Threaded ==
  /\ \A k \in Option : prev_[k].tag <=> ~Behind(k)
  /\ \A n \in DOMAIN buffer : ~IsFirst(n) =>
       \E m \in DOMAIN buffer : Alike(m, n) /\ prev_[ListItem(n)].to = Place(m)
  /\ \A i \in 0 .. 5 :
       IF options[i] = None
       THEN /\ \A n \in DOMAIN buffer : buffer[n].index # i
            /\ next_[ListHead(i)] = [to |-> ListHead(i), tag |-> TRUE]
            /\ prev_[ListHead(i)] = [to |-> ListHead(i), tag |-> TRUE]
       ELSE \E n, m \in DOMAIN buffer :
              buffer[n].index = i /\ buffer[m].index = i /\ IsLast(n) /\ IsFirst(m)
  /\ ListsKeepOrder

LEMMA Options6 ==
  /\ Option = {ListHead(i) : i \in 0 .. 5} \cup {ListItem(n) : n \in 1 .. MaxArguments * 2}
  /\ \A i, j : ListHead(i) = ListHead(j) <=> i = j
  /\ \A n, m : ListItem(n) = ListItem(m) <=> n = m
  /\ \A i, n : ListHead(i) # ListItem(n)
  /\ Indexes \subseteq 0 .. 5
<1>1. \A i, j : ListHead(i) = ListHead(j) <=> i = j
  BY DEF ListHead
<1>2. \A n, m : ListItem(n) = ListItem(m) <=> n = m
  BY DEF ListItem
<1>3. \A i, n : ListHead(i) # ListItem(n)
  BY DEF ListHead, ListItem
<1>4. Indexes \subseteq 0 .. 5
  BY DEF Indexes, UNKNOWN, PACKAGE, OUTPUT, DEBUG
<1>5. options_max - 1 = 5
  BY OptionsMax
<1>6. Option = {ListHead(i) : i \in 0 .. 5} \cup {ListItem(n) : n \in 1 .. MaxArguments * 2}
  BY <1>5, Zenon DEF Option, ListHead, ListItem
<1> QED
  BY <1>1, <1>2, <1>3, <1>4, <1>6

(* From the head, going back finds the head itself, although what is gone  *)
(* back through is defined by recursion: there is such a function.         *)
LEMMA FirstIsHead ==
  ASSUME ParserTyped, Threaded, NEW i \in 0 .. 5, Len(buffer) <= MaxArguments * 2
  PROVE  first(ListHead(i)) = ListHead(i) /\ last(ListHead(i)) = prev_[ListHead(i)].to
<1> USE Options6
<1> DEFINE Back(b) == b = [k \in Option |-> IF prev_[k].tag THEN k ELSE b[prev_[k].to]]
           kind(k) == ListHead(buffer[CHOOSE n \in DOMAIN buffer : k = ListItem(n)].index)
           f == [k \in Option |-> IF prev_[k].tag THEN k ELSE kind(k)]
<1>1. ListHead(i) \in Option /\ prev_[ListHead(i)].tag
  BY DEF Threaded, Behind
<1>2. DOMAIN buffer = 1 .. Len(buffer) /\ \A n \in DOMAIN buffer : buffer[n].index \in 0 .. 5
  <2>1. buffer \in Seq(Stored)
    BY DEF ParserTyped
  <2>2. \A x \in Stored : x.index \in 0 .. 5
    BY DEF Stored
  <2> QED
    BY <2>1, <2>2
<1>3. ASSUME NEW n \in DOMAIN buffer
      PROVE  ListItem(n) \in Option /\ kind(ListItem(n)) = ListHead(buffer[n].index)
  BY <1>2, LengthNatural
<1>4. ASSUME NEW k \in Option, ~prev_[k].tag PROVE f[prev_[k].to] = kind(k)
  <2>1. PICK n \in DOMAIN buffer : k = ListItem(n) /\ ~IsFirst(n)
    BY <1>4 DEF Threaded, Behind
  <2>2. PICK m \in DOMAIN buffer : Alike(m, n) /\ prev_[k].to = Place(m)
    BY <2>1 DEF Threaded
  <2>3. kind(k) = ListHead(buffer[m].index) /\ ListHead(buffer[m].index) \in Option
    BY <1>2, <1>3, <2>1, <2>2 DEF Alike
  <2>4. CASE IsFirst(m)
    <3>1. prev_[k].to = ListHead(buffer[m].index)
      BY <2>2, <2>4 DEF Place, ListHead
    <3>2. prev_[ListHead(buffer[m].index)].tag
      BY <1>2, <2>3 DEF Threaded, Behind
    <3> QED
      BY <2>3, <3>1, <3>2
  <2>5. CASE ~IsFirst(m)
    <3>1. prev_[k].to = ListItem(m)
      BY <2>2, <2>5 DEF Place, ListItem
    <3>2. ListItem(m) \in Option /\ ~prev_[ListItem(m)].tag
      BY <1>3, <2>5 DEF Threaded, Behind
    <3> QED
      BY <1>3, <2>3, <3>1, <3>2
  <2> QED
    BY <2>4, <2>5
<1>5. Back(f)
  <2> HIDE DEF kind
  <2>1. \A k \in Option : f[k] = IF prev_[k].tag THEN k ELSE f[prev_[k].to]
    BY <1>4
  <2> QED
    BY <2>1
<1>6. Back(CHOOSE b : Back(b))
  <2> HIDE DEF Back, f
  <2> QED
    BY <1>5
<1>7. first(ListHead(i)) = (CHOOSE b : Back(b))[ListHead(i)]
  BY DEF first
<1>8. first(ListHead(i)) = ListHead(i)
  <2> DEFINE b == CHOOSE b : Back(b)
  <2> HIDE DEF b
  <2>1. b = [k \in Option |-> IF prev_[k].tag THEN k ELSE b[prev_[k].to]]
    BY <1>6 DEF b
  <2>2. b[ListHead(i)] = ListHead(i)
    BY <1>1, <2>1
  <2> QED
    BY <1>7, <2>2 DEF b
<1> QED
  BY <1>8 DEF last

(* A null pointer is no option.                                            *)
LEMMA NoneStored == None \notin Stored
<1>1. Indexes \subseteq Nat
  BY DEF Indexes, UNKNOWN, PACKAGE, OUTPUT, DEBUG
<1>2. Stored \subseteq [index : Nat, arg : (Nat \X Nat) \cup {None}]
  BY <1>1 DEF Stored, Texts
<1> QED
  BY <1>2, NoneDistinct

(* No two options have the same place.                                     *)
LEMMA PlacesDiffer ==
  ASSUME ParserTyped, NEW n \in DOMAIN buffer, NEW m \in DOMAIN buffer, Place(n) = Place(m)
  PROVE  n = m
<1>1. n \in Nat /\ m \in Nat
  BY DEF ParserTyped
<1>2. CASE IsFirst(n) /\ IsFirst(m)
  <2>1. buffer[n].index = buffer[m].index
    BY <1>2 DEF Place
  <2> QED
    BY <1>1, <1>2, <2>1 DEF IsFirst, Alike
<1>3. CASE ~(IsFirst(n) /\ IsFirst(m))
  BY <1>3 DEF Place
<1> QED
  BY <1>2, <1>3

(* What another option, the N-th, changes of the ones before it: nothing   *)
(* but that it is the last of its kind.                                    *)
Grown(option, N) ==
  /\ N \in Nat /\ buffer' \in Seq(Stored) /\ Len(buffer') = N /\ buffer'[N] = option
  /\ \A n \in DOMAIN buffer' : n \in DOMAIN buffer \/ n = N
  /\ N \in DOMAIN buffer' /\ \A n \in DOMAIN buffer : n \in DOMAIN buffer'
  /\ \A n \in DOMAIN buffer : buffer'[n] = buffer[n] /\ n \in Nat /\ n < N
  /\ \A n, m \in DOMAIN buffer :
       (Alike(n, m)' <=> Alike(n, m)) /\ (Adjacent(n, m)' => Adjacent(n, m))
  /\ \A n \in DOMAIN buffer :
       (Alike(n, N)' <=> buffer[n].index = option.index)
         /\ (Alike(N, n)' <=> buffer[n].index = option.index)
  /\ \A n \in DOMAIN buffer :
       /\ IsFirst(n)' <=> IsFirst(n)
       /\ Place(n)' = Place(n)
       /\ IsLast(n)' <=> IsLast(n) /\ buffer[n].index # option.index
  /\ IsLast(N)'
  /\ IsFirst(N)' <=> \A n \in DOMAIN buffer : buffer[n].index # option.index
  /\ \A n \in DOMAIN buffer :
       Adjacent(n, N)' => IsLast(n) /\ buffer[n].index = option.index
  /\ \A n \in DOMAIN buffer' : ~Adjacent(N, n)'

LEMMA Appended ==
  ASSUME ParserTyped, NEW option \in Stored, buffer' = Append(buffer, option),
         NEW N, N = Len(buffer) + 1
  PROVE  Grown(option, N)
<1>1. buffer \in Seq(Stored)
  BY DEF ParserTyped
<1>2. /\ N \in Nat /\ DOMAIN buffer = 1 .. N - 1 /\ DOMAIN buffer' = 1 .. N
      /\ buffer' \in Seq(Stored) /\ Len(buffer') = N /\ buffer'[N] = option
      /\ \A n \in DOMAIN buffer : buffer'[n] = buffer[n] /\ n # N
  BY <1>1
<1>3. /\ \A n \in DOMAIN buffer : n \in Nat /\ n < N
      /\ \A n \in DOMAIN buffer' : n \in DOMAIN buffer \/ n = N
      /\ N \in DOMAIN buffer' /\ \A n \in DOMAIN buffer : n \in DOMAIN buffer'
  BY <1>2
<1>4. \A n, m \in DOMAIN buffer : Alike(n, m)' <=> Alike(n, m)
  BY <1>2 DEF Alike
<1>5. \A n \in DOMAIN buffer :
        (Alike(n, N)' <=> buffer[n].index = option.index)
          /\ (Alike(N, n)' <=> buffer[n].index = option.index)
  BY <1>2 DEF Alike
<1>6. \A n \in DOMAIN buffer :
        /\ IsFirst(n)' <=> IsFirst(n)
        /\ IsLast(n)' <=> IsLast(n) /\ buffer[n].index # option.index
  BY <1>2, <1>3, <1>4, <1>5 DEF IsFirst, IsLast
<1>7. \A n \in DOMAIN buffer : Place(n)' = Place(n)
  BY <1>2, <1>6 DEF Place
<1>8. IsLast(N)' /\ (IsFirst(N)' <=> \A n \in DOMAIN buffer : buffer[n].index # option.index)
  BY <1>2, <1>3, <1>5 DEF IsFirst, IsLast
<1>9. \A n, m \in DOMAIN buffer : Adjacent(n, m)' => Adjacent(n, m)
  BY <1>2, <1>3, <1>4 DEF Adjacent
<1>10. ASSUME NEW n \in DOMAIN buffer, Adjacent(n, N)'
       PROVE  IsLast(n) /\ buffer[n].index = option.index
  <2>1. buffer[n].index = option.index
    BY <1>5, <1>10 DEF Adjacent
  <2>2. ASSUME NEW k \in DOMAIN buffer, Alike(k, n) PROVE k <= n
    <3>1. k <= n \/ N <= k
      BY <1>3, <1>4, <1>10, <2>2 DEF Adjacent
    <3> QED
      BY <1>2, <1>3, <3>1
  <2> QED
    BY <2>1, <2>2 DEF IsLast
<1>11. \A n \in DOMAIN buffer' : ~Adjacent(N, n)'
  BY <1>2, <1>3 DEF Adjacent
<1> QED
  BY <1>2, <1>3, <1>4, <1>5, <1>6, <1>7, <1>8, <1>9, <1>10, <1>11 DEF Grown

(* The first option of a kind becomes the head.                            *)
LEMMA StoreFirst ==
  ASSUME ParserTyped, Threaded, NEW option \in Stored,
         Store(option), options[option.index] = None
  PROVE  Threaded'
<1> DEFINE j == option.index
<1>0. PICK N : N = Len(buffer) + 1
  OBVIOUS
<1>1. /\ buffer' = Append(buffer, option) /\ next_' = next_ /\ prev_' = prev_
      /\ options' = [options EXCEPT ![j] = option]
  BY DEF Store
<1>2. j \in 0 .. 5 /\ options \in [0 .. 5 -> Stored \cup {None}]
  BY Options6 DEF Stored, ParserTyped
<1>3. /\ \A n \in DOMAIN buffer : buffer[n].index # j
      /\ next_[ListHead(j)] = [to |-> ListHead(j), tag |-> TRUE]
      /\ prev_[ListHead(j)] = [to |-> ListHead(j), tag |-> TRUE]
  BY <1>2 DEF Threaded
<1>4. Grown(option, N)
  BY <1>0, <1>1, Appended
<1>5. /\ \A n \in DOMAIN buffer' : n \in DOMAIN buffer \/ n = N
      /\ N \in DOMAIN buffer' /\ \A n \in DOMAIN buffer : n \in DOMAIN buffer'
      /\ buffer'[N].index = j /\ options'[j] = buffer'[N]
  BY <1>1, <1>2, <1>4 DEF Grown
<1>6. IsFirst(N)' /\ IsLast(N)' /\ Place(N)' = ListHead(j)
  BY <1>3, <1>4 DEF Place, ListHead, Grown
<1>7. ASSUME NEW n \in DOMAIN buffer
      PROVE  /\ n # N /\ buffer[n].index # j /\ options'[buffer[n].index] = options[buffer[n].index]
             /\ buffer'[n] = buffer[n]
             /\ (IsFirst(n)' <=> IsFirst(n)) /\ (IsLast(n)' <=> IsLast(n)) /\ Place(n)' = Place(n)
             /\ ~Alike(n, N)' /\ ~Alike(N, n)'
  BY <1>1, <1>2, <1>3, <1>4 DEF Grown
<1>8. \A n, m \in DOMAIN buffer :
        (Alike(n, m)' <=> Alike(n, m)) /\ (Adjacent(n, m)' => Adjacent(n, m))
  BY <1>4 DEF Grown
<1> HIDE DEF j
<1>9. ASSUME NEW k \in Option PROVE prev_'[k].tag <=> ~Behind(k)'
  <2>1. Behind(k)' <=> Behind(k)
    BY <1>5, <1>6, <1>7 DEF Behind
  <2> QED
    BY <1>1, <2>1 DEF Threaded
<1>10. ASSUME NEW n \in DOMAIN buffer', ~IsFirst(n)'
       PROVE  \E m \in DOMAIN buffer' : Alike(m, n)' /\ prev_'[ListItem(n)].to = Place(m)'
  <2>1. n \in DOMAIN buffer /\ ~IsFirst(n)
    BY <1>5, <1>6, <1>7, <1>10
  <2>2. PICK m \in DOMAIN buffer : Alike(m, n) /\ prev_[ListItem(n)].to = Place(m)
    BY <2>1 DEF Threaded
  <2> QED
    BY <1>1, <1>5, <1>7, <1>8, <2>1, <2>2
<1>11. ASSUME NEW i \in 0 .. 5
       PROVE  IF options'[i] = None
              THEN /\ \A n \in DOMAIN buffer' : buffer'[n].index # i
                   /\ next_'[ListHead(i)] = [to |-> ListHead(i), tag |-> TRUE]
                   /\ prev_'[ListHead(i)] = [to |-> ListHead(i), tag |-> TRUE]
              ELSE \E n, m \in DOMAIN buffer' :
                     /\ buffer'[n].index = i /\ buffer'[m].index = i
                     /\ IsLast(n)' /\ IsFirst(m)'
  <2>1. CASE i = j
    <3>1. options'[i] # None
      BY <1>1, <1>2, <2>1, NoneStored
    <3> QED
      BY <1>5, <1>6, <2>1, <3>1
  <2>2. CASE i # j
    <3>1. options'[i] = options[i]
      BY <1>1, <1>2, <2>2
    <3>2. CASE options[i] = None
      <4>1. /\ \A n \in DOMAIN buffer : buffer[n].index # i
            /\ next_[ListHead(i)] = [to |-> ListHead(i), tag |-> TRUE]
            /\ prev_[ListHead(i)] = [to |-> ListHead(i), tag |-> TRUE]
        BY <3>2 DEF Threaded
      <4>2. \A n \in DOMAIN buffer' : buffer'[n].index # i
        BY <1>5, <1>7, <2>2, <4>1
      <4> QED
        BY <1>1, <3>1, <3>2, <4>1, <4>2
    <3>3. CASE options[i] # None
      <4>1. PICK n \in DOMAIN buffer, m \in DOMAIN buffer :
              buffer[n].index = i /\ buffer[m].index = i /\ IsLast(n) /\ IsFirst(m)
        BY <3>3 DEF Threaded
      <4> QED
        BY <1>5, <1>7, <3>1, <3>3, <4>1
    <3> QED
      BY <3>2, <3>3
  <2> QED
    BY <2>1, <2>2
<1>12. ListsKeepOrder'
  <2>1. ASSUME NEW i \in DOMAIN options', options'[i] # None
        PROVE  \E n \in DOMAIN buffer' : buffer'[n].index = i
    <3>1. i \in 0 .. 5
      BY <1>1, <1>2, <2>1
    <3> QED
      BY <1>11, <2>1, <3>1
  <2>2. ASSUME NEW n \in DOMAIN buffer', IsFirst(n)' PROVE options'[buffer'[n].index] = buffer'[n]
    <3>1. CASE n = N
      BY <1>5, <3>1
    <3>2. CASE n # N
      BY <1>5, <1>7, <2>2, <3>2 DEF Threaded, ListsKeepOrder
    <3> QED
      BY <3>1, <3>2
  <2>3. ASSUME NEW n \in DOMAIN buffer', NEW m \in DOMAIN buffer', Adjacent(n, m)'
        PROVE  Linked(n, m, FALSE)'
    <3>1. n \in DOMAIN buffer /\ m \in DOMAIN buffer
      <4>1. Alike(n, m)' /\ n < m
        BY <2>3 DEF Adjacent
      <4>2. N \in Nat
        BY <1>4 DEF Grown
      <4> QED
        BY <1>5, <1>7, <4>1, <4>2
    <3>2. Linked(n, m, FALSE)
      BY <1>8, <2>3, <3>1 DEF Threaded, ListsKeepOrder
    <3> QED
      BY <1>1, <1>7, <3>1, <3>2 DEF Linked
  <2>4. ASSUME NEW n \in DOMAIN buffer', NEW m \in DOMAIN buffer',
               Alike(n, m)', IsLast(n)', IsFirst(m)'
        PROVE  Linked(n, m, TRUE)'
    <3>1. CASE n = N
      <4>1. m = N
        BY <1>5, <1>7, <2>4, <3>1
      <4> QED
        BY <1>1, <1>3, <1>6, <3>1, <4>1 DEF Linked
    <3>2. CASE n # N
      <4>1. n \in DOMAIN buffer /\ m \in DOMAIN buffer
        BY <1>5, <1>7, <2>4, <3>2
      <4>2. Linked(n, m, TRUE)
        BY <1>7, <1>8, <2>4, <4>1 DEF Threaded, ListsKeepOrder
      <4> QED
        BY <1>1, <1>7, <4>1, <4>2 DEF Linked
    <3> QED
      BY <3>1, <3>2
  <2> QED
    BY <2>1, <2>2, <2>3, <2>4 DEF ListsKeepOrder
<1> QED
  BY <1>9, <1>10, <1>11, <1>12 DEF Threaded

(* Another one is appended behind the last of its kind.                    *)
LEMMA StoreNext ==
  ASSUME ParserTyped, Threaded, NEW option \in Stored, Len(buffer) < MaxArguments * 2,
         Store(option), options[option.index] # None
  PROVE  /\ Threaded'
         /\ next_' \in [Option -> [to : Option, tag : BOOLEAN]]
         /\ prev_' \in [Option -> [to : Option, tag : BOOLEAN]]
<1> USE Options6
<1> DEFINE j == option.index
           h == ListHead(j)
<1>0. PICK N : N = Len(buffer) + 1
  OBVIOUS
<1>1. buffer' = Append(buffer, option) /\ options' = options
  BY DEF Store
<1>2. j \in 0 .. 5 /\ options \in [0 .. 5 -> Stored \cup {None}]
  BY DEF Stored, ParserTyped
<1>3. Grown(option, N)
  BY <1>0, <1>1, Appended
<1>4. /\ \A n \in DOMAIN buffer' : n \in DOMAIN buffer \/ n = N
      /\ N \in DOMAIN buffer' /\ \A n \in DOMAIN buffer : n \in DOMAIN buffer'
      /\ buffer'[N] = option /\ Len(buffer') = N /\ N \in Nat
  BY <1>3 DEF Grown
<1>5. ASSUME NEW n \in DOMAIN buffer
      PROVE  /\ n \in Nat /\ n < N /\ n # N /\ buffer'[n] = buffer[n]
             /\ (IsFirst(n)' <=> IsFirst(n)) /\ Place(n)' = Place(n)
             /\ IsLast(n)' <=> IsLast(n) /\ buffer[n].index # j
             /\ (Alike(n, N)' <=> buffer[n].index = j) /\ (Alike(N, n)' <=> buffer[n].index = j)
             /\ Adjacent(n, N)' => IsLast(n) /\ buffer[n].index = j
  BY <1>3 DEF Grown
<1>6. \A n, m \in DOMAIN buffer :
        (Alike(n, m)' <=> Alike(n, m)) /\ (Adjacent(n, m)' => Adjacent(n, m))
  BY <1>3 DEF Grown
<1>7. PICK nl \in DOMAIN buffer, nf \in DOMAIN buffer :
        buffer[nl].index = j /\ buffer[nf].index = j /\ IsLast(nl) /\ IsFirst(nf)
  BY <1>2 DEF Threaded
<1>8. IsLast(N)' /\ ~IsFirst(N)' /\ Place(N)' = ListItem(N) /\ \A n \in DOMAIN buffer' : ~Adjacent(N, n)'
  BY <1>3, <1>7 DEF Grown, Place, ListItem
<1> DEFINE p == Place(nl)
<1>9. Place(nf) = h
  BY <1>7 DEF Place, ListHead
<1>10. Linked(nl, nf, TRUE)
  BY <1>7 DEF Threaded, ListsKeepOrder, Alike
<1>11. first(h) = h /\ last(h) = p
  <2>1. Len(buffer) <= MaxArguments * 2
    BY <1>0, <1>4, LengthNatural
  <2>2. first(h) = h /\ last(h) = prev_[h].to
    BY <1>2, <2>1, FirstIsHead
  <2>3. prev_[h] = [to |-> p, tag |-> TRUE]
    BY <1>9, <1>10 DEF Linked
  <2> HIDE DEF h, p
  <2> QED
    BY <2>2, <2>3
<1>12. /\ next_' = [next_ EXCEPT ![p] = [to |-> ListItem(N), tag |-> FALSE],
                                 ![ListItem(N)] = [to |-> h, tag |-> TRUE]]
       /\ prev_' = [prev_ EXCEPT ![ListItem(N)] = [to |-> p, tag |-> FALSE],
                                 ![h] = [to |-> ListItem(N), tag |-> TRUE]]
  <2>1. append(h, ListItem(N))
    BY <1>4 DEF Store, ListHead, ListItem
  <2> QED
    BY <1>11, <2>1 DEF append
<1>13. ASSUME NEW n \in DOMAIN buffer
       PROVE  /\ Place(n) \in Option /\ Place(n) # ListItem(N)
              /\ Place(n) = h => IsFirst(n) /\ buffer[n].index = j
  <2>1. n \in 1 .. MaxArguments * 2 /\ buffer[n].index \in 0 .. 5
    <3>1. buffer \in Seq(Stored)
      BY DEF ParserTyped
    <3>2. buffer[n] \in Stored /\ n \in 1 .. Len(buffer)
      BY <3>1
    <3>3. buffer[n].index \in 0 .. 5
      BY <3>2 DEF Stored
    <3>4. 1 .. Len(buffer) \subseteq 1 .. MaxArguments * 2
      BY <3>1, LengthNatural
    <3> QED
      BY <3>2, <3>3, <3>4
  <2>2. Place(n) = IF IsFirst(n) THEN ListHead(buffer[n].index) ELSE ListItem(n)
    BY DEF Place, ListHead, ListItem
  <2> QED
    BY <1>5, <2>1, <2>2
<1>14. h \in Option /\ ListItem(N) \in Option /\ h # ListItem(N) /\ p \in Option /\ p # ListItem(N)
  <2>1. N \in 1 .. MaxArguments * 2
    BY <1>0, <1>4, LengthNatural
  <2> QED
    BY <1>2, <1>13, <2>1
<1>15. /\ next_ \in [Option -> [to : Option, tag : BOOLEAN]]
       /\ prev_ \in [Option -> [to : Option, tag : BOOLEAN]]
  BY DEF ParserTyped
<1> HIDE DEF j, h, p
<1>16. /\ next_' \in [Option -> [to : Option, tag : BOOLEAN]]
       /\ prev_' \in [Option -> [to : Option, tag : BOOLEAN]]
  BY <1>12, <1>14, <1>15
<1>17. /\ next_'[p] = [to |-> ListItem(N), tag |-> FALSE]
       /\ next_'[ListItem(N)] = [to |-> h, tag |-> TRUE]
       /\ prev_'[ListItem(N)] = [to |-> p, tag |-> FALSE]
       /\ prev_'[h] = [to |-> ListItem(N), tag |-> TRUE]
       /\ \A k \in Option :
            /\ k \notin {p, ListItem(N)} => next_'[k] = next_[k]
            /\ k \notin {h, ListItem(N)} => prev_'[k] = prev_[k]
  BY <1>12, <1>14, <1>15
<1>18. ASSUME NEW k \in Option PROVE prev_'[k].tag <=> ~Behind(k)'
  <2>1. Behind(k)' <=> Behind(k) \/ k = ListItem(N)
    BY <1>4, <1>5, <1>8 DEF Behind
  <2>2. CASE k = ListItem(N)
    BY <1>17, <2>1, <2>2
  <2>3. CASE k = h
    <3>1. ~Behind(h)
      BY DEF Behind, h
    <3> QED
      BY <1>14, <1>17, <2>1, <2>3, <3>1
  <2>4. CASE k # h /\ k # ListItem(N)
    BY <1>17, <2>1, <2>4 DEF Threaded
  <2> QED
    BY <2>2, <2>3, <2>4
<1>19. ASSUME NEW n \in DOMAIN buffer', ~IsFirst(n)'
       PROVE  \E m \in DOMAIN buffer' : Alike(m, n)' /\ prev_'[ListItem(n)].to = Place(m)'
  <2>1. CASE n = N
    BY <1>4, <1>5, <1>7, <1>17, <2>1 DEF p
  <2>2. CASE n # N
    <3>1. n \in DOMAIN buffer /\ ~IsFirst(n)
      BY <1>4, <1>5, <1>19, <2>2
    <3>2. PICK m \in DOMAIN buffer : Alike(m, n) /\ prev_[ListItem(n)].to = Place(m)
      BY <3>1 DEF Threaded
    <3>3. ListItem(n) \in Option /\ ListItem(n) # h
      BY <1>13, <3>1 DEF Place, ListItem, h
    <3>4. prev_'[ListItem(n)] = prev_[ListItem(n)]
      BY <1>17, <2>2, <3>3
    <3> QED
      BY <1>4, <1>5, <1>6, <3>1, <3>2, <3>4
  <2> QED
    BY <2>1, <2>2
<1>20. ASSUME NEW i \in 0 .. 5
       PROVE  IF options'[i] = None
              THEN /\ \A n \in DOMAIN buffer' : buffer'[n].index # i
                   /\ next_'[ListHead(i)] = [to |-> ListHead(i), tag |-> TRUE]
                   /\ prev_'[ListHead(i)] = [to |-> ListHead(i), tag |-> TRUE]
              ELSE \E n, m \in DOMAIN buffer' :
                     /\ buffer'[n].index = i /\ buffer'[m].index = i
                     /\ IsLast(n)' /\ IsFirst(m)'
  <2>1. CASE i = j
    BY <1>1, <1>4, <1>5, <1>7, <1>8, <2>1 DEF j
  <2>2. CASE i # j /\ options[i] = None
    <3>1. /\ \A n \in DOMAIN buffer : buffer[n].index # i
          /\ next_[ListHead(i)] = [to |-> ListHead(i), tag |-> TRUE]
          /\ prev_[ListHead(i)] = [to |-> ListHead(i), tag |-> TRUE]
      BY <2>2 DEF Threaded
    <3>2. \A n \in DOMAIN buffer' : buffer'[n].index # i
      BY <1>4, <1>5, <2>2, <3>1 DEF j
    <3>3. ListHead(i) \in Option /\ ListHead(i) # h /\ ListHead(i) # ListItem(N)
      BY <2>2 DEF h
    <3>4. ListHead(i) # p
      BY <1>7, <2>2 DEF p, Place, ListHead
    <3> QED
      BY <1>1, <1>17, <2>2, <3>1, <3>2, <3>3, <3>4
  <2>3. CASE i # j /\ options[i] # None
    <3>1. PICK n \in DOMAIN buffer, m \in DOMAIN buffer :
            buffer[n].index = i /\ buffer[m].index = i /\ IsLast(n) /\ IsFirst(m)
      BY <2>3 DEF Threaded
    <3> QED
      BY <1>1, <1>4, <1>5, <2>3, <3>1
  <2> QED
    BY <2>1, <2>2, <2>3
<1>21. ListsKeepOrder'
  <2>1. ASSUME NEW i \in DOMAIN options', options'[i] # None
        PROVE  \E n \in DOMAIN buffer' : buffer'[n].index = i
    BY <1>1, <1>2, <1>20, <2>1
  <2>2. ASSUME NEW n \in DOMAIN buffer', IsFirst(n)' PROVE options'[buffer'[n].index] = buffer'[n]
    BY <1>1, <1>4, <1>5, <1>8, <2>2 DEF Threaded, ListsKeepOrder
  <2>3. ASSUME NEW n \in DOMAIN buffer', NEW m \in DOMAIN buffer', Adjacent(n, m)'
        PROVE  Linked(n, m, FALSE)'
    <3>1. n \in DOMAIN buffer /\ n < m
      BY <1>4, <1>8, <2>3 DEF Adjacent
    <3>2. CASE m = N
      <4>1. IsLast(n) /\ buffer[n].index = j
        BY <1>5, <2>3, <3>1, <3>2
      <4>2. n = nl
        BY <1>5, <1>7, <3>1, <4>1 DEF IsLast, Alike
      <4>3. Place(n)' = p /\ Place(m)' = ListItem(N)
        BY <1>5, <1>8, <3>1, <3>2, <4>2 DEF p
      <4> QED
        BY <1>17, <4>3 DEF Linked
    <3>3. CASE m # N
      <4>1. m \in DOMAIN buffer /\ Adjacent(n, m)
        BY <1>4, <1>6, <2>3, <3>1, <3>3
      <4>2. Linked(n, m, FALSE)
        BY <3>1, <4>1 DEF Threaded, ListsKeepOrder
      <4>3. n < m /\ Alike(n, m) /\ Alike(m, n)
        BY <4>1 DEF Adjacent, Alike
      <4>4. ~IsLast(n) /\ ~IsFirst(m)
        BY <1>5, <3>1, <4>1, <4>3 DEF IsLast, IsFirst
      <4>5. Place(n) # p
        BY <1>7, <3>1, <4>4, PlacesDiffer DEF p
      <4>6. Place(m) # h
        BY <1>13, <4>1, <4>4
      <4>7. next_'[Place(n)] = next_[Place(n)] /\ prev_'[Place(m)] = prev_[Place(m)]
        BY <1>13, <1>17, <3>1, <4>1, <4>5, <4>6
      <4> QED
        BY <1>5, <3>1, <4>1, <4>2, <4>7 DEF Linked
    <3> QED
      BY <3>2, <3>3
  <2>4. ASSUME NEW n \in DOMAIN buffer', NEW m \in DOMAIN buffer',
               Alike(n, m)', IsLast(n)', IsFirst(m)'
        PROVE  Linked(n, m, TRUE)'
    <3>1. m \in DOMAIN buffer /\ IsFirst(m)
      BY <1>4, <1>5, <1>8, <2>4
    <3>2. CASE n = N
      <4>1. buffer[m].index = j
        BY <1>5, <2>4, <3>1, <3>2
      <4>2. Place(m)' = h /\ Place(n)' = ListItem(N)
        BY <1>5, <1>8, <3>1, <3>2, <4>1 DEF Place, ListHead, h
      <4> QED
        BY <1>17, <4>2 DEF Linked
    <3>3. CASE n # N
      <4>1. n \in DOMAIN buffer /\ IsLast(n) /\ buffer[n].index # j
        BY <1>4, <1>5, <2>4, <3>3
      <4>2. Alike(n, m)
        BY <1>6, <2>4, <3>1, <4>1
      <4>3. Linked(n, m, TRUE)
        BY <3>1, <4>1, <4>2 DEF Threaded, ListsKeepOrder
      <4>4. Place(n) # p
        BY <1>7, <4>1, PlacesDiffer DEF p
      <4>5. Place(m) # h
        BY <1>13, <3>1, <4>1, <4>2 DEF Alike
      <4>6. next_'[Place(n)] = next_[Place(n)] /\ prev_'[Place(m)] = prev_[Place(m)]
        BY <1>13, <1>17, <3>1, <4>1, <4>4, <4>5
      <4> QED
        BY <1>5, <3>1, <4>1, <4>3, <4>6 DEF Linked
    <3> QED
      BY <3>2, <3>3
  <2> QED
    BY <2>1, <2>2, <2>3, <2>4 DEF ListsKeepOrder
<1> QED
  BY <1>16, <1>18, <1>19, <1>20, <1>21 DEF Threaded

-----------------------------------------------------------------------------
(* Types.                                                                  *)

(* Taking an option stays within the command line, and there are at most   *)
(* two of them in an argument.                                             *)
LEMMA Advance ==
  ASSUME ParserTyped, TakesOption
  PROVE  /\ at \in Nat /\ letter \in Nat /\ at' \in Nat /\ letter' \in Nat
         /\ 1 <= at /\ at <= Len(args) /\ 1 <= at' /\ at' <= Len(args) + 1
         /\ letter' > 0 =>
              at' <= Len(args) /\ args[at'].kind = "group" /\ letter' < Len(args[at'].letters)
         /\ 2 * (at - 1) + letter + 1 <= 2 * (at' - 1) + letter'
         /\ letter <= 1
<1>1. /\ args \in Seq(Arguments) /\ at \in Nat /\ letter \in Nat /\ 1 <= at
      /\ letter > 0 => args[at].kind = "group" /\ letter < Len(args[at].letters)
  BY DEF ParserTyped
<1>2. at <= Len(args) /\ ~Lacks(args, at, letter)
  BY DEF TakesOption, Takes, IsOption
<1>3. args[at] \in Arguments /\ Len(args) \in Nat
  BY <1>1, <1>2
<1>4. letter <= 1
  <2>1. args[at].kind = "group" => Len(args[at].letters) \in 1 .. 2
    BY <1>3, ArgumentTyped
  <2>2. CASE letter > 0
    <3> DEFINE k == Len(args[at].letters)
    <3>1. letter < k /\ k \in 1 .. 2 /\ letter \in Nat
      BY <1>1, <2>1, <2>2
    <3> HIDE DEF k
    <3> QED
      BY <3>1
  <2> QED
    BY <1>1, <2>2
<1>5. at' = AfterAt(args, at, letter) /\ letter' = AfterLetter(args, at, letter)
  BY DEF TakesOption
<1>6. ASSUME Optarg(args, at, letter) = Whole(at + 1) PROVE at < Len(args)
  <2>1. None # Whole(at + 1)
    BY <1>1, NoneDistinct DEF Whole
  <2>2. <<at, 1>> # Whole(at + 1) /\ <<at, letter + 2>> # Whole(at + 1)
    BY <1>1 DEF Whole
  <2> QED
    BY <1>6, <2>1, <2>2 DEF Optarg, Following
<1>7. CASE at' = at + 1 /\ letter' = 0
  BY <1>1, <1>2, <1>3, <1>4, <1>7
<1>8. CASE at' = at + 2 /\ letter' = 0 /\ at < Len(args)
  BY <1>1, <1>2, <1>3, <1>4, <1>8
<1>9. CASE at' = at /\ letter' = letter + 1 /\ More(args, at, letter)
  BY <1>1, <1>2, <1>3, <1>4, <1>9 DEF More
<1> QED
  BY <1>5, <1>6, <1>7, <1>8, <1>9 DEF AfterAt, AfterLetter

(* The lists depend on the two arrays only.                                *)
LEMMA ListsUnchanged ==
  ASSUME Threaded, UNCHANGED <<options, buffer, next_, prev_>>
  PROVE  Threaded'
<1>1. /\ options' = options /\ buffer' = buffer /\ next_' = next_ /\ prev_' = prev_
      /\ \A n, m : Alike(n, m)' <=> Alike(n, m)
  BY DEF Alike
<1>2. \A n, m : /\ IsFirst(n)' <=> IsFirst(n)
                /\ IsLast(n)' <=> IsLast(n)
                /\ Adjacent(n, m)' <=> Adjacent(n, m)
  BY <1>1 DEF IsFirst, IsLast, Adjacent
<1>3. \A n : Place(n)' = Place(n)
  BY <1>1, <1>2 DEF Place
<1>4. \A n, m : /\ Linked(n, m, TRUE)' <=> Linked(n, m, TRUE)
                /\ Linked(n, m, FALSE)' <=> Linked(n, m, FALSE)
  <2>1. ASSUME NEW n, NEW m
        PROVE  /\ next_'[Place(n)'] = next_[Place(n)]
               /\ prev_'[Place(m)'] = prev_[Place(m)]
               /\ Place(n)' = Place(n) /\ Place(m)' = Place(m)
    BY <1>1, <1>3, Zenon
  <2>2. ASSUME NEW n, NEW m PROVE Linked(n, m, TRUE)' <=> Linked(n, m, TRUE)
    BY <2>1 DEF Linked
  <2>3. ASSUME NEW n, NEW m PROVE Linked(n, m, FALSE)' <=> Linked(n, m, FALSE)
    BY <2>1 DEF Linked
  <2> QED
    BY <2>2, <2>3
<1>5. ListsKeepOrder'
  <2>0. ListsKeepOrder
    BY DEF Threaded
  <2>1. \A i \in DOMAIN options' :
          options'[i] # None => \E n \in DOMAIN buffer' : buffer'[n].index = i
    BY <1>1, <2>0, Zenon DEF ListsKeepOrder
  <2>2. ASSUME NEW n \in DOMAIN buffer', IsFirst(n)'
        PROVE  options'[buffer'[n].index] = buffer'[n]
    BY <1>1, <1>2, <2>0, <2>2, Zenon DEF ListsKeepOrder
  <2>3. ASSUME NEW n \in DOMAIN buffer', NEW m \in DOMAIN buffer', Adjacent(n, m)'
        PROVE  Linked(n, m, FALSE)'
    BY <1>1, <1>2, <1>4, <2>0, <2>3, Zenon DEF ListsKeepOrder
  <2>4. ASSUME NEW n \in DOMAIN buffer', NEW m \in DOMAIN buffer',
               Alike(n, m)', IsLast(n)', IsFirst(m)'
        PROVE  Linked(n, m, TRUE)'
    BY <1>1, <1>2, <1>4, <2>0, <2>4, Zenon DEF ListsKeepOrder
  <2> QED
    BY <2>1, <2>2, <2>3, <2>4, Zenon DEF ListsKeepOrder
<1>6. \A k : Behind(k)' <=> Behind(k)
  BY <1>1, <1>2 DEF Behind
<1>7. \A k \in Option : prev_'[k].tag <=> ~Behind(k)'
  BY <1>1, <1>6, Zenon DEF Threaded
<1>8. \A n \in DOMAIN buffer' : ~IsFirst(n)' =>
         \E m \in DOMAIN buffer' : Alike(m, n)' /\ prev_'[ListItem(n)].to = Place(m)'
  <2>1. ASSUME NEW n \in DOMAIN buffer', ~IsFirst(n)'
        PROVE  \E m \in DOMAIN buffer' : Alike(m, n)' /\ prev_'[ListItem(n)].to = Place(m)'
    <3>1. PICK m \in DOMAIN buffer : Alike(m, n) /\ prev_[ListItem(n)].to = Place(m)
      BY <1>1, <1>2, <2>1, Zenon DEF Threaded
    <3> QED
      BY <1>1, <1>3, <3>1, Zenon
  <2> QED
    BY <2>1, Zenon
<1>9. \A i \in 0 .. 5 :
         IF options'[i] = None
         THEN /\ \A n \in DOMAIN buffer' : buffer'[n].index # i
              /\ next_'[ListHead(i)] = [to |-> ListHead(i), tag |-> TRUE]
              /\ prev_'[ListHead(i)] = [to |-> ListHead(i), tag |-> TRUE]
         ELSE \E n, m \in DOMAIN buffer' :
                buffer'[n].index = i /\ buffer'[m].index = i /\ IsLast(n)' /\ IsFirst(m)'
  <2>1. ASSUME NEW i \in 0 .. 5, options'[i] = None
        PROVE  /\ \A n \in DOMAIN buffer' : buffer'[n].index # i
               /\ next_'[ListHead(i)] = [to |-> ListHead(i), tag |-> TRUE]
               /\ prev_'[ListHead(i)] = [to |-> ListHead(i), tag |-> TRUE]
    BY <1>1, <2>1 DEF Threaded
  <2>2. ASSUME NEW i \in 0 .. 5, options'[i] # None
        PROVE  \E n, m \in DOMAIN buffer' :
                 buffer'[n].index = i /\ buffer'[m].index = i /\ IsLast(n)' /\ IsFirst(m)'
    <3>1. PICK n, m \in DOMAIN buffer :
            buffer[n].index = i /\ buffer[m].index = i /\ IsLast(n) /\ IsFirst(m)
      BY <1>1, <2>2 DEF Threaded
    <3> QED
      BY <1>1, <1>2, <3>1, Zenon
  <2> QED
    BY <2>1, <2>2, Zenon
<1> QED
  BY <1>5, <1>7, <1>8, <1>9, Zenon DEF Threaded

(* Every step of the parser keeps the types and the lists.                 *)
LEMMA ParserStep ==
  ASSUME ParserTyped, Threaded, ParseArguments
  PROVE  ParserTyped' /\ Threaded'
<1>1. /\ Passing /\ args' = args
      /\ (\E from \in {at, at + 1} : Ends(from)) \/ Refuses \/ TakesOption
  BY Workhorse
<1> DEFINE fixed == UNCHANGED <<buffer_max, options, buffer, next_, prev_>>
<1>2. ASSUME fixed PROVE Threaded'
  BY <1>2, ListsUnchanged
<1>3. CASE (\E from \in {at, at + 1} : Ends(from)) \/ Refuses
  <2>1. /\ fixed /\ at' = 1 /\ letter' = 0
        /\ pass' \in {"store", "parsed", "error"} /\ (pass' = "store" => pass = "count")
    BY <1>1, <1>3 DEF Ends, Refuses, Finish, Fail, Passing
  <2>2. Len(<<>>) = 0 /\ (pass = "count" => buffer = <<>>)
    BY DEF ParserTyped
  <2>3. Len(args) \in Nat
    BY DEF ParserTyped
  <2>4. ParserTyped'
    BY <1>1, <2>1, <2>2, <2>3 DEF ParserTyped
  <2> QED
    BY <1>2, <2>1, <2>4
<1>4. CASE TakesOption
  <2>1. /\ at \in Nat /\ letter \in Nat /\ at' \in Nat /\ letter' \in Nat
        /\ 1 <= at /\ at <= Len(args) /\ 1 <= at' /\ at' <= Len(args) + 1
        /\ letter' > 0 =>
             at' <= Len(args) /\ args[at'].kind = "group" /\ letter' < Len(args[at'].letters)
        /\ 2 * (at - 1) + letter + 1 <= 2 * (at' - 1) + letter'
        /\ letter <= 1
    BY <1>4, Advance
  <2>2. pass' = pass
    BY <1>4 DEF TakesOption
  <2>3. PICK optarg \in Texts : Perform(Entry(args, at, letter), optarg)
    BY <1>4 DEF TakesOption
  <2>4. CASE pass = "count"
    <3>1. buffer_max' = buffer_max + 1 /\ UNCHANGED <<options, buffer, next_, prev_>>
      BY <2>3, <2>4 DEF Perform, Count
    <3>2. ParserTyped'
      <4>1. /\ args' \in Seq(Arguments) /\ Len(args') <= MaxArguments
            /\ at' \in Nat /\ 1 <= at' /\ at' <= Len(args') + 1 /\ letter' \in Nat
            /\ letter' > 0 =>
                 at' <= Len(args') /\ args'[at'].kind = "group"
                 /\ letter' < Len(args'[at'].letters)
        BY <1>1, <2>1 DEF ParserTyped
      <4>2. /\ pass' = "count" /\ buffer_max' \in Nat
            /\ options' \in [0 .. 5 -> Stored \cup {None}]
            /\ buffer' \in Seq(Stored) /\ buffer' = <<>>
            /\ next_' \in [Option -> [to : Option, tag : BOOLEAN]]
            /\ prev_' \in [Option -> [to : Option, tag : BOOLEAN]]
        BY <2>2, <2>4, <3>1 DEF ParserTyped
      <4> QED
        BY <4>1, <4>2 DEF ParserTyped
    <3>3. options' = options /\ buffer' = buffer /\ next_' = next_ /\ prev_' = prev_
      BY <3>1
    <3>4. Threaded'
      BY <1>1, <3>3, ListsUnchanged, Zenon
    <3> QED
      BY <3>2, <3>4
  <2>5. CASE pass = "store"
    <3> DEFINE option == [index |-> Entry(args, at, letter).index, arg |-> optarg]
    <3>1. Store(option)
      BY <2>3, <2>5 DEF Perform
    <3>2. option \in Stored
      BY Described DEF Entry, Stored
    <3> HIDE DEF option
    <3>3. buffer \in Seq(Stored) /\ Len(buffer) \in Nat /\ Len(buffer) <= 2 * (at - 1) + letter
      BY <2>5 DEF ParserTyped
    <3>4. Len(args) <= MaxArguments /\ Len(args) \in Nat /\ MaxArguments \in Nat
      BY LengthNatural DEF ParserTyped
    <3>5. Len(buffer) < MaxArguments * 2
      BY <2>1, <3>3, <3>4
    <3>6. buffer' = Append(buffer, option) /\ buffer_max' = buffer_max
      BY <3>1 DEF Store
    <3>7. buffer' \in Seq(Stored) /\ Len(buffer') = Len(buffer) + 1
      BY <3>2, <3>3, <3>6
    <3>8. Len(buffer') <= 2 * (at' - 1) + letter'
      <4>1. ASSUME NEW x \in Int, NEW y \in Int, NEW k \in Nat, NEW l \in Nat, NEW j \in Nat,
                   j <= x + k, x + k + 1 <= y + l
            PROVE  j + 1 <= y + l
        BY <4>1
      <4>2. at \in Nat /\ at' \in Nat /\ letter \in Nat /\ letter' \in Nat
        BY <2>1
      <4>3. 2 * (at - 1) \in Int /\ 2 * (at' - 1) \in Int
        BY <4>2
      <4>4. 2 * (at - 1) + letter + 1 <= 2 * (at' - 1) + letter'
        BY <2>1, Zenon
      <4> QED
        BY <3>3, <3>7, <4>1, <4>2, <4>3, <4>4, Zenon
    <3>9. /\ options' \in [0 .. 5 -> Stored \cup {None}]
          /\ next_' \in [Option -> [to : Option, tag : BOOLEAN]]
          /\ prev_' \in [Option -> [to : Option, tag : BOOLEAN]]
          /\ Threaded'
      <4>1. /\ options \in [0 .. 5 -> Stored \cup {None}]
            /\ next_ \in [Option -> [to : Option, tag : BOOLEAN]]
            /\ prev_ \in [Option -> [to : Option, tag : BOOLEAN]]
        BY DEF ParserTyped
      <4>2. CASE options[option.index] = None
        <5>1. Threaded'
          BY <3>1, <3>2, <4>2, StoreFirst
        <5> QED
          BY <3>1, <3>2, <4>1, <4>2, <5>1 DEF Store
      <4>3. CASE options[option.index] # None
        <5>1. options' = options
          BY <3>1, <4>3 DEF Store
        <5> QED
          BY <3>1, <3>2, <3>5, <4>1, <4>3, <5>1, StoreNext
      <4> QED
        BY <4>2, <4>3
    <3>10. ParserTyped'
      BY <1>1, <2>1, <2>2, <2>5, <3>6, <3>7, <3>8, <3>9 DEF ParserTyped
    <3> QED
      BY <3>9, <3>10
  <2> QED
    BY <1>1, <2>4, <2>5 DEF Passing
<1> QED
  BY <1>1, <1>3, <1>4

LEMMA BoundedSequence ==
  ASSUME NEW S, NEW max \in Nat, NEW c \in BoundedSeq(S, max)
  PROVE  c \in Seq(S) /\ Len(c) <= max
<1>1. PICK n \in 0 .. max : c \in [1 .. n -> S]
  BY DEF BoundedSeq, SeqOf
<1>2. n \in Nat
  BY <1>1
<1>3. c \in Seq(S) /\ DOMAIN c = 1 .. n
  BY <1>1, <1>2, SeqDef
<1>4. Len(c) \in Nat /\ DOMAIN c = 1 .. Len(c)
  BY <1>3, LenProperties
<1>5. Len(c) = n
  BY <1>2, <1>3, <1>4
<1> QED
  BY <1>1, <1>3, <1>5

LEMMA ParserInitially ==
  ASSUME InitParser
  PROVE  ParserTyped /\ Threaded
<1>1. args \in Seq(Arguments) /\ Len(args) <= MaxArguments
  BY BoundedSequence, LengthNatural DEF InitParser
<1>2. options = [i \in 0 .. 5 |-> None]
  <2>1. options_max - 1 = 5
    BY OptionsMax
  <2> QED
    BY <2>1 DEF InitParser
<1>3. /\ pass = "count" /\ at = 1 /\ letter = 0 /\ buffer_max = 1 /\ buffer = <<>>
      /\ next_ = Self /\ prev_ = Self
  BY DEF InitParser
<1>4. Self \in [Option -> [to : Option, tag : BOOLEAN]]
  BY DEF Self
<1>5. /\ buffer \in Seq(Stored) /\ Len(buffer) = 0 /\ DOMAIN buffer = {}
      /\ Len(args) \in Nat
  BY <1>1, <1>3
<1>6. ParserTyped
  BY <1>1, <1>2, <1>3, <1>4, <1>5 DEF ParserTyped
<1>7. Threaded
  <2>1. \A i \in 0 .. 5 : ListHead(i) \in Option
    BY Options6
  <2>2. /\ \A k \in Option : prev_[k].tag /\ ~Behind(k)
        /\ \A i \in 0 .. 5 :
             /\ options[i] = None
             /\ next_[ListHead(i)] = [to |-> ListHead(i), tag |-> TRUE]
             /\ prev_[ListHead(i)] = [to |-> ListHead(i), tag |-> TRUE]
    BY <1>2, <1>3, <1>5, <2>1 DEF Self, Behind
  <2>3. ListsKeepOrder
    BY <1>2, <1>5 DEF ListsKeepOrder
  <2> QED
    BY <1>5, <2>2, <2>3 DEF Threaded
<1> QED
  BY <1>6, <1>7


-----------------------------------------------------------------------------
(* The sizes of the arrays.                                                *)

(* Where the workhorse is after each option that it takes: it has taken    *)
(* n - 1 of them.                                                          *)
Trail(c, A, L, n) ==
  /\ A \in [1 .. n -> Nat] /\ L \in [1 .. n -> Nat]
  /\ A[1] = 1 /\ L[1] = 0
  /\ \A j \in 1 .. n - 1 :
       /\ Takes(c, A[j], L[j])
       /\ A[j + 1] = AfterAt(c, A[j], L[j]) /\ L[j + 1] = AfterLetter(c, A[j], L[j])

(* Stats has counted one more than it has taken; Parser goes the way that  *)
(* Stats went, and finds no more options than Stats at the end of it.      *)
Sized ==
  /\ buffer_max \in Nat \ {0}
  /\ pass = "count" => \E A, L :
       Trail(args, A, L, buffer_max) /\ A[buffer_max] = at /\ L[buffer_max] = letter
  /\ pass = "store" => \E A, L :
       /\ Trail(args, A, L, buffer_max) /\ ~Takes(args, A[buffer_max], L[buffer_max])
       /\ Len(buffer) < buffer_max
       /\ A[Len(buffer) + 1] = at /\ L[Len(buffer) + 1] = letter
  /\ pass \in {"parsed", "error"} => Len(buffer) < buffer_max

(* A pass ends where no option can be taken.                               *)
LEMMA NothingTaken ==
  ASSUME ParserTyped, (\E from \in {at, at + 1} : Ends(from)) \/ Refuses
  PROVE  /\ ~Takes(args, at, letter)
         /\ at' = 1 /\ letter' = 0 /\ UNCHANGED <<buffer_max, buffer>>
         /\ pass = "count" => pass' = "store"
         /\ pass # "count" => pass' \in {"parsed", "error"}
<1>1. CASE \E from \in {at, at + 1} : Ends(from)
  <2>1. at <= Len(args) => args[at].kind \in {"word", "end"}
    BY <1>1 DEF Ends
  <2>2. ~IsOption(args, at)
    BY <2>1 DEF IsOption
  <2> QED
    BY <1>1, <2>2 DEF Ends, Finish, Takes
<1>2. CASE Refuses
  BY <1>2 DEF Refuses, Fail, Takes
<1> QED
  BY <1>1, <1>2

LEMMA TrailGrows ==
  ASSUME NEW c, NEW A, NEW L, NEW n \in Nat \ {0}, NEW a \in Nat, NEW l \in Nat,
         Trail(c, A, L, n), Takes(c, A[n], L[n]),
         a = AfterAt(c, A[n], L[n]), l = AfterLetter(c, A[n], L[n])
  PROVE  \E B, M : Trail(c, B, M, n + 1) /\ B[n + 1] = a /\ M[n + 1] = l
<1> DEFINE B == [j \in 1 .. n + 1 |-> IF j = n + 1 THEN a ELSE A[j]]
           M == [j \in 1 .. n + 1 |-> IF j = n + 1 THEN l ELSE L[j]]
<1>1. A \in [1 .. n -> Nat] /\ L \in [1 .. n -> Nat]
  BY DEF Trail
<1>2. B \in [1 .. n + 1 -> Nat] /\ M \in [1 .. n + 1 -> Nat]
  BY <1>1
<1>3. B[n + 1] = a /\ M[n + 1] = l /\ \A j \in 1 .. n : B[j] = A[j] /\ M[j] = L[j]
  OBVIOUS
<1> HIDE DEF B, M
<1>4. B[1] = 1 /\ M[1] = 0
  BY <1>3 DEF Trail
<1>5. ASSUME NEW j \in 1 .. (n + 1) - 1
      PROVE  /\ Takes(c, B[j], M[j])
             /\ B[j + 1] = AfterAt(c, B[j], M[j]) /\ M[j + 1] = AfterLetter(c, B[j], M[j])
  <2>1. j \in 1 .. n /\ B[j] = A[j] /\ M[j] = L[j]
    BY <1>3
  <2>2. CASE j = n
    BY <1>3, <2>1, <2>2
  <2>3. CASE j # n
    <3>1. j \in 1 .. n - 1 /\ j + 1 \in 1 .. n
      BY <2>1, <2>3
    <3>2. B[j + 1] = A[j + 1] /\ M[j + 1] = L[j + 1]
      BY <1>3, <3>1
    <3>3. /\ Takes(c, A[j], L[j])
          /\ A[j + 1] = AfterAt(c, A[j], L[j]) /\ L[j + 1] = AfterLetter(c, A[j], L[j])
      BY <3>1, Zenon DEF Trail
    <3> QED
      BY <2>1, <3>2, <3>3, Zenon
  <2> QED
    BY <2>2, <2>3
<1>6. Trail(c, B, M, n + 1)
  BY <1>2, <1>4, <1>5 DEF Trail
<1> QED
  BY <1>3, <1>6

LEMMA SizedStep ==
  ASSUME ParserTyped, Sized, ParseArguments, ParserTyped'
  PROVE  Sized'
<1>1. /\ Passing /\ args' = args
      /\ (\E from \in {at, at + 1} : Ends(from)) \/ Refuses \/ TakesOption
  BY Workhorse
<1>2. CASE (\E from \in {at, at + 1} : Ends(from)) \/ Refuses
  <2>1. /\ ~Takes(args, at, letter)
        /\ at' = 1 /\ letter' = 0 /\ buffer_max' = buffer_max /\ buffer' = buffer
        /\ pass = "count" => pass' = "store"
        /\ pass # "count" => pass' \in {"parsed", "error"}
    BY <1>2, NothingTaken
  <2>2. CASE pass = "count"
    <3>1. PICK A, L : Trail(args, A, L, buffer_max) /\ A[buffer_max] = at /\ L[buffer_max] = letter
      BY <2>2 DEF Sized
    <3>2. Len(buffer') = 0 /\ buffer_max' \in Nat \ {0}
      <4>1. buffer = <<>>
        BY <2>2 DEF ParserTyped
      <4> QED
        BY <2>1, <4>1 DEF Sized
    <3>3. A[1] = 1 /\ L[1] = 0
      BY <3>1 DEF Trail
    <3>4. /\ Trail(args', A, L, buffer_max') /\ ~Takes(args', A[buffer_max'], L[buffer_max'])
          /\ Len(buffer') < buffer_max'
          /\ A[Len(buffer') + 1] = at' /\ L[Len(buffer') + 1] = letter'
      BY <1>1, <2>1, <3>1, <3>2, <3>3
    <3> QED
      BY <2>1, <2>2, <3>2, <3>4 DEF Sized
  <2>3. CASE pass = "store"
    BY <2>1, <2>3 DEF Sized
  <2> QED
    BY <1>1, <2>2, <2>3 DEF Passing
<1>3. CASE TakesOption
  <2>1. /\ Takes(args, at, letter) /\ pass' = pass
        /\ at' = AfterAt(args, at, letter) /\ letter' = AfterLetter(args, at, letter)
    BY <1>3 DEF TakesOption
  <2>2. PICK optarg \in Texts : Perform(Entry(args, at, letter), optarg)
    BY <1>3 DEF TakesOption
  <2>3. at' \in Nat /\ letter' \in Nat
    BY DEF ParserTyped
  <2>4. CASE pass = "count"
    <3>1. buffer_max' = buffer_max + 1
      BY <2>2, <2>4 DEF Perform, Count
    <3>2. PICK A, L : Trail(args, A, L, buffer_max) /\ A[buffer_max] = at /\ L[buffer_max] = letter
      BY <2>4 DEF Sized
    <3>3. buffer_max \in Nat \ {0}
      BY DEF Sized
    <3>4. Takes(args, A[buffer_max], L[buffer_max])
      BY <2>1, <3>2, Zenon
    <3>5. at' = AfterAt(args, A[buffer_max], L[buffer_max]) /\ letter' = AfterLetter(args, A[buffer_max], L[buffer_max])
      BY <2>1, <3>2, Zenon
    <3>6. PICK B, M : Trail(args, B, M, buffer_max + 1) /\ B[buffer_max + 1] = at' /\ M[buffer_max + 1] = letter'
      BY <2>3, <3>2, <3>3, <3>4, <3>5, TrailGrows
    <3>7. Trail(args', B, M, buffer_max') /\ B[buffer_max'] = at' /\ M[buffer_max'] = letter'
      BY <1>1, <3>1, <3>6, Zenon
    <3>8. buffer_max' \in Nat \ {0} /\ pass' = "count"
      BY <2>1, <2>4, <3>1, <3>3
    <3> QED
      BY <3>7, <3>8 DEF Sized
  <2>5. CASE pass = "store"
    <3> DEFINE option == [index |-> Entry(args, at, letter).index, arg |-> optarg]
    <3>1. Store(option)
      BY <2>2, <2>5 DEF Perform
    <3> HIDE DEF option
    <3>2. buffer' = Append(buffer, option) /\ buffer_max' = buffer_max
      BY <3>1 DEF Store
    <3>3. PICK n \in Nat : n = Len(buffer)
      BY DEF ParserTyped
    <3>4. Len(buffer') = n + 1
      <4>1. Len(buffer') \in Nat /\ DOMAIN buffer' = 1 .. n + 1
        BY <3>2, <3>3 DEF ParserTyped
      <4> QED
        BY <3>2, <3>3 DEF ParserTyped
    <3>5. PICK A, L :
            /\ Trail(args, A, L, buffer_max) /\ ~Takes(args, A[buffer_max], L[buffer_max])
            /\ n < buffer_max /\ A[n + 1] = at /\ L[n + 1] = letter
      BY <2>5, <3>3, Zenon DEF Sized
    <3>6. buffer_max \in Nat \ {0}
      BY DEF Sized
    <3>7. n + 1 # buffer_max
      BY <2>1, <3>5, Zenon
    <3>8. n + 1 \in 1 .. buffer_max - 1 /\ n + 1 < buffer_max
      BY <3>5, <3>6, <3>7
    <3>9. /\ A[(n + 1) + 1] = AfterAt(args, A[n + 1], L[n + 1])
          /\ L[(n + 1) + 1] = AfterLetter(args, A[n + 1], L[n + 1])
      BY <3>5, <3>8, Zenon DEF Trail
    <3>10. /\ Trail(args', A, L, buffer_max') /\ ~Takes(args', A[buffer_max'], L[buffer_max'])
           /\ Len(buffer') < buffer_max'
           /\ A[Len(buffer') + 1] = at' /\ L[Len(buffer') + 1] = letter'
      BY <1>1, <2>1, <3>2, <3>4, <3>5, <3>8, <3>9, Zenon
    <3>11. buffer_max' \in Nat \ {0} /\ pass' = "store"
      BY <2>1, <2>5, <3>2, <3>6
    <3> QED
      BY <3>10, <3>11 DEF Sized
  <2> QED
    BY <1>1, <2>4, <2>5 DEF Passing
<1> QED
  BY <1>1, <1>2, <1>3

LEMMA SizedInitially ==
  ASSUME InitParser
  PROVE  Sized
<1>1. pass = "count" /\ at = 1 /\ letter = 0 /\ buffer_max = 1
  BY DEF InitParser
<1> DEFINE A == [j \in 1 .. 1 |-> 1]
           L == [j \in 1 .. 1 |-> 0]
<1>2. Trail(args, A, L, 1) /\ A[1] = 1 /\ L[1] = 0
  BY DEF Trail
<1> QED
  BY <1>1, <1>2 DEF Sized

LEMMA SizedIsLargeEnough ==
  ASSUME ParserTyped, Sized
  PROVE  ArraysLargeEnough
<1>1. pass # "count" => Len(buffer) < buffer_max
  BY DEF ParserTyped, Sized
<1>2. options_max - 1 = 5
  BY OptionsMax
<1>3. ASSUME NEW i \in DOMAIN buffer PROVE buffer[i].index < 5
  <2>1. buffer[i] \in Stored
    BY DEF ParserTyped
  <2>2. buffer[i].index \in Indexes
    BY <2>1 DEF Stored
  <2> QED
    BY <2>2 DEF Indexes, UNKNOWN, PACKAGE, OUTPUT, DEBUG
<1> QED
  BY <1>1, <1>2, <1>3 DEF ArraysLargeEnough


-----------------------------------------------------------------------------
(* The first argument that is no option.                                   *)

(* The arguments that are arguments of options, and the options that want  *)
(* the next argument.                                                      *)
Taken == {i \in DOMAIN args : IsOptionArgument[i]}
Wanting == {i \in DOMAIN args : Wants(args[i])}

(* IsOptionArgument is defined by recursion: there is such a function, and *)
(* this is what it says of each argument.                                  *)
LEMMA OptionArguments ==
  ASSUME ParserTyped
  PROVE  \A i \in DOMAIN args : i \in Taken <=> i > 1 /\ i - 1 \notin Taken /\ i - 1 \in Wanting
<1>1. Len(args) \in Nat /\ DOMAIN args = 1 .. Len(args)
  BY DEF ParserTyped
<1> DEFINE Splits(n, T) == \A i \in 0 .. n : i \in T <=> i > 1 /\ i - 1 \notin T /\ i - 1 \in Wanting
           S == {n \in Nat : \E T : Splits(n, T)}
<1>2. 0 \in S
  <2>1. 0 \in Nat /\ Splits(0, {})
    OBVIOUS
  <2> HIDE DEF Splits
  <2> QED
    BY <2>1
<1>3. ASSUME NEW n \in Nat, n \in S PROVE n + 1 \in S
  <2>1. PICK T : Splits(n, T)
    BY <1>3
  <2>2. PICK U : \A i : i \in U <=> (i \in T /\ i \in 0 .. n)
                                  \/ (i = n + 1 /\ i > 1 /\ i - 1 \notin T /\ i - 1 \in Wanting)
    <3>1. \A i : i \in (T \cap (0 .. n)) \cup
                        {k \in {n + 1} : k > 1 /\ k - 1 \notin T /\ k - 1 \in Wanting} <=>
             \/ i \in T /\ i \in 0 .. n
             \/ i = n + 1 /\ i > 1 /\ i - 1 \notin T /\ i - 1 \in Wanting
      OBVIOUS
    <3> QED
      BY <3>1, Zenon
  <2>3. ASSUME NEW i \in 0 .. n + 1
        PROVE  i \in U <=> i > 1 /\ i - 1 \notin U /\ i - 1 \in Wanting
    <3>1. CASE i \in 0 .. n
      BY <2>1, <2>2, <3>1
    <3>2. CASE i = n + 1
      <4>1. n \in 0 .. n /\ (n \in U <=> n \in T) /\ n + 1 \notin 0 .. n
        BY <2>2
      <4> QED
        BY <2>2, <3>2, <4>1
    <3> QED
      BY <3>1, <3>2
  <2>4. Splits(n + 1, U)
    BY <2>3
  <2> QED
    BY <2>4
<1>4. PICK T : Splits(Len(args), T)
  <2> HIDE DEF Splits
  <2>1. 0 \in S /\ \A n \in Nat : n \in S => n + 1 \in S
    BY <1>2, <1>3
  <2>2. Nat \subseteq S
    <3> HIDE DEF S
    <3> QED
      BY <2>1, SetInduction
  <2> QED
    BY <1>1, <2>2
<1> DEFINE Is(b) == b = [i \in 0 .. Len(args) |-> i > 1 /\ ~b[i - 1] /\ Wants(args[i - 1])]
           f == [i \in 0 .. Len(args) |-> i \in T]
<1>5. ASSUME NEW i \in 0 .. Len(args) PROVE (i \in T) <=> (i > 1 /\ ~f[i - 1] /\ Wants(args[i - 1]))
  <2>1. i > 1 => i - 1 \in 1 .. Len(args)
    BY <1>1
  <2>2. i > 1 => (f[i - 1] <=> i - 1 \in T) /\ (Wants(args[i - 1]) <=> i - 1 \in Wanting)
    BY <1>1, <2>1 DEF Wanting
  <2>3. (i \in T) <=> (i > 1 /\ i - 1 \notin T /\ i - 1 \in Wanting)
    BY <1>4
  <2> HIDE DEF f
  <2> QED
    BY <2>2, <2>3
<1>6. Is(f)
  <2>1. [i \in 0 .. Len(args) |-> i \in T]
          = [i \in 0 .. Len(args) |-> i > 1 /\ ~f[i - 1] /\ Wants(args[i - 1])]
    <3> HIDE DEF f
    <3>1. ASSUME NEW i \in 0 .. Len(args)
          PROVE  (i \in T) = (i > 1 /\ ~f[i - 1] /\ Wants(args[i - 1]))
      BY <1>5
    <3> QED
      BY <3>1
  <2> QED
    BY <2>1
<1>7. Is(CHOOSE b : Is(b))
  <2> HIDE DEF Is, f
  <2> QED
    BY <1>6
<1>8. IsOptionArgument = CHOOSE b : Is(b)
  BY DEF IsOptionArgument
<1> HIDE DEF f
<1>9. PICK b : b = IsOptionArgument /\ Is(b)
  <2> HIDE DEF Is
  <2> QED
    BY <1>7, <1>8
<1>10. ASSUME NEW i \in 0 .. Len(args)
       PROVE  b[i] <=> (i > 1 /\ ~b[i - 1] /\ Wants(args[i - 1]))
  BY <1>9, Zenon
<1>11. \A i \in 1 .. Len(args) :
         /\ i \in Taken <=> b[i]
         /\ i \in Wanting <=> Wants(args[i])
  BY <1>1, <1>9, Zenon DEF Taken, Wanting
<1> HIDE DEF Is
<1>12. ASSUME NEW i \in DOMAIN args
       PROVE  i \in Taken <=> i > 1 /\ i - 1 \notin Taken /\ i - 1 \in Wanting
  <2>1. i \in 0 .. Len(args) /\ i \in 1 .. Len(args) /\ (i > 1 => i - 1 \in 1 .. Len(args))
    BY <1>1
  <2> QED
    BY <1>10, <1>11, <2>1, Zenon
<1> QED
  BY <1>12


(* All that the workhorse has passed are options and their arguments; the  *)
(* last of them has the argument that it wants, and the letters that are   *)
(* done want none.                                                         *)
Walked ==
  /\ \A i \in 1 .. at - 1 : i \in Taken \/ IsOption(args, i)
  /\ at > 1 => at - 1 \in Taken \/ at - 1 \notin Wanting
  /\ letter > 0 => \A k \in 1 .. letter : ~ShortOption(args[at].letters[k]).required

Walk ==
  /\ Passing => Walked
  /\ pass \in {"parsed", "error"} => InputIsFirstNonOption

(* Where it is, then, is no option's argument, and what it does with the   *)
(* option there shows whether that wants the next argument.                *)
LEMMA WhatIsWanted ==
  ASSUME ParserTyped, Walked, at <= Len(args)
  PROVE  /\ at \notin Taken
         /\ IsOption(args, at) =>
              LET required == Entry(args, at, letter).required
                  own == More(args, at, letter) \/ (args[at].kind = "long" /\ args[at].attached)
              IN  /\ required => (at \in Wanting <=> ~own)
                  /\ ~required /\ ~More(args, at, letter) => at \notin Wanting
<1>1. /\ at \in Nat /\ letter \in Nat /\ 1 <= at /\ at \in DOMAIN args /\ args[at] \in Arguments
      /\ letter > 0 => args[at].kind = "group" /\ letter < Len(args[at].letters)
  BY DEF ParserTyped
<1>2. at \notin Taken
  BY <1>1, OptionArguments DEF Walked
<1>3. at \in Wanting <=> Wants(args[at])
  BY <1>1 DEF Wanting
<1>4. CASE args[at].kind = "long"
  <2>1. /\ Entry(args, at, letter) = LongOption(args[at].name) /\ ~More(args, at, letter)
        /\ Wants(args[at]) <=> ~args[at].attached /\ LongOption(args[at].name).required
    BY <1>4 DEF Entry, More, Wants
  <2> QED
    BY <1>2, <1>3, <1>4, <2>1
<1>5. CASE args[at].kind = "group"
  <2> DEFINE letters == args[at].letters
             needs(k) == ShortOption(letters[k]).required
  <2>1. /\ Entry(args, at, letter).required <=> needs(letter + 1)
        /\ More(args, at, letter) <=> letter + 1 < Len(letters)
    BY <1>5 DEF Entry, More
  <2>2. DOMAIN letters = 1 .. Len(letters) /\ Len(letters) \in 1 .. 2
    BY <1>1, <1>5, ArgumentTyped
  <2>3. Wants(args[at]) <=> \A k \in 1 .. Len(letters) : needs(k) <=> k = Len(letters)
    BY <1>5, <2>2 DEF Wants
  <2>4. \A k \in 1 .. letter : ~needs(k)
    BY <1>1 DEF Walked
  <2>5. letter + 1 <= Len(letters)
    <3>1. CASE letter = 0
      BY <2>2, <3>1
    <3>2. CASE letter > 0
      BY <1>1, <2>2, <3>2
    <3> QED
      BY <1>1, <3>1, <3>2
  <2> HIDE DEF letters, needs
  <2>6. letter + 1 \in 1 .. Len(letters) /\ Len(letters) \in 1 .. Len(letters)
    BY <1>1, <2>2, <2>5
  <2>7. ASSUME Wants(args[at]) PROVE needs(letter + 1) <=> letter + 1 = Len(letters)
    BY <2>3, <2>6, <2>7, Zenon
  <2>8. ASSUME needs(letter + 1), letter + 1 = Len(letters) PROVE Wants(args[at])
    <3>1. ASSUME NEW k \in 1 .. Len(letters) PROVE needs(k) <=> k = Len(letters)
      <4>1. k = letter + 1 \/ (k \in 1 .. letter /\ k # Len(letters))
        <5>1. letter \in Nat /\ letter + 1 = Len(letters)
          BY <1>1, <2>8, Zenon
        <5>2. Len(letters) \in Nat
          BY <2>2
        <5>3. \A n, m \in Nat : n + 1 = m => \A j \in 1 .. m : j = n + 1 \/ (j \in 1 .. n /\ j # m)
          OBVIOUS
        <5> QED
          BY <5>1, <5>2, <5>3, Zenon
      <4> QED
        BY <2>4, <2>8, <4>1, Zenon
    <3> QED
      BY <2>3, <3>1, Zenon
  <2>9. letter + 1 < Len(letters) <=> letter + 1 # Len(letters)
    <3>1. letter \in Nat /\ Len(letters) \in Nat
      BY <1>1, <2>2
    <3>2. \A n, m \in Nat : n + 1 <= m => (n + 1 < m <=> n + 1 # m)
      OBVIOUS
    <3> QED
      BY <2>5, <3>1, <3>2, Zenon
  <2>10. LET required == Entry(args, at, letter).required
         IN  /\ required => (at \in Wanting <=> ~More(args, at, letter))
             /\ ~required /\ ~More(args, at, letter) => at \notin Wanting
    BY <1>3, <2>1, <2>7, <2>8, <2>9, Zenon
  <2> QED
    BY <1>2, <1>5, <2>10
<1> QED
  BY <1>2, <1>4, <1>5 DEF IsOption

LEMMA WalkedStep ==
  ASSUME ParserTyped, Walked, TakesOption, args' = args
  PROVE  Walked'
<1>1. /\ Takes(args, at, letter)
      /\ at' = AfterAt(args, at, letter) /\ letter' = AfterLetter(args, at, letter)
  BY DEF TakesOption
<1>2. IsOption(args, at) /\ ~Lacks(args, at, letter) /\ at <= Len(args)
  BY <1>1 DEF Takes, IsOption
<1>3. /\ at \in Nat /\ letter \in Nat /\ 1 <= at /\ Len(args) \in Nat
      /\ DOMAIN args = 1 .. Len(args)
      /\ letter > 0 => args[at].kind = "group"
  BY DEF ParserTyped
<1> DEFINE required == Entry(args, at, letter).required
           own == More(args, at, letter) \/ (args[at].kind = "long" /\ args[at].attached)
<1>4. /\ at \notin Taken
      /\ required => (at \in Wanting <=> ~own)
      /\ ~required /\ ~More(args, at, letter) => at \notin Wanting
  BY <1>2, WhatIsWanted
<1>5. Taken' = Taken /\ Wanting' = Wanting /\ \A i : IsOption(args', i) <=> IsOption(args, i)
  <2>1. IsOptionArgument' = IsOptionArgument
    BY DEF IsOptionArgument
  <2> QED
    BY <2>1 DEF Taken, Wanting
<1>6. ASSUME at' = at + 1, letter' = 0, at \notin Wanting PROVE Walked'
  <2>1. \A i \in 1 .. at' - 1 : i \in Taken \/ IsOption(args, i)
    BY <1>2, <1>3, <1>6 DEF Walked
  <2>2. at' - 1 = at
    BY <1>3, <1>6
  <2> QED
    BY <1>5, <1>6, <2>1, <2>2 DEF Walked
<1>7. CASE required /\ Optarg(args, at, letter) = Whole(at + 1)
  <2>1. at < Len(args) /\ ~own
    <3>1. None # Whole(at + 1) /\ <<at, 1>> # Whole(at + 1) /\ <<at, letter + 2>> # Whole(at + 1)
      <4>1. None # Whole(at + 1)
        BY <1>3, NoneDistinct DEF Whole
      <4> QED
        BY <1>3, <4>1 DEF Whole
    <3>2. args[at].kind = "long" => ~args[at].attached
      BY <1>7, <3>1 DEF Optarg
    <3>3. ~More(args, at, letter)
      BY <1>7, <3>1 DEF Optarg, More
    <3>4. Optarg(args, at, letter) = Following(args, at)
      BY <3>2, <3>3 DEF Optarg
    <3> QED
      BY <1>7, <3>1, <3>2, <3>3, <3>4 DEF Following
  <2>2. at' = at + 2 /\ letter' = 0
    BY <1>1, <1>7 DEF AfterAt, AfterLetter
  <2>3. at \in Wanting
    BY <1>4, <1>7, <2>1
  <2>4. at + 1 \in Taken
    <3>1. at + 1 \in DOMAIN args /\ at + 1 > 1 /\ (at + 1) - 1 = at
      BY <1>3, <2>1
    <3> QED
      BY <1>4, <2>3, <3>1, OptionArguments
  <2>5. ASSUME NEW i \in 1 .. at' - 1 PROVE i \in Taken \/ IsOption(args, i)
    <3>1. i \in 1 .. at - 1 \/ i = at \/ i = at + 1
      BY <1>3, <2>2
    <3> QED
      BY <1>2, <2>4, <3>1 DEF Walked
  <2>6. at' - 1 = at + 1
    BY <1>3, <2>2
  <2> QED
    BY <1>5, <2>2, <2>4, <2>5, <2>6 DEF Walked
<1>8. CASE required /\ Optarg(args, at, letter) # Whole(at + 1)
  <2>1. at' = at + 1 /\ letter' = 0
    BY <1>1, <1>8 DEF AfterAt, AfterLetter
  <2>2. own
    <3>1. Following(args, at) \in {None, Whole(at + 1)}
      BY DEF Following
    <3>2. Optarg(args, at, letter) # None
      BY <1>2, <1>8 DEF Lacks
    <3> QED
      BY <1>8, <3>1, <3>2 DEF Optarg
  <2>3. at \notin Wanting
    BY <1>4, <1>8, <2>2
  <2> QED
    BY <1>6, <2>1, <2>3
<1>9. CASE ~required /\ ~More(args, at, letter)
  <2>1. at' = at + 1 /\ letter' = 0
    BY <1>1, <1>9 DEF AfterAt, AfterLetter
  <2> QED
    BY <1>4, <1>6, <1>9, <2>1
<1>10. CASE ~required /\ More(args, at, letter)
  <2>1. at' = at /\ letter' = letter + 1 /\ args[at].kind = "group"
    BY <1>1, <1>10 DEF AfterAt, AfterLetter, More
  <2>2. ~ShortOption(args[at].letters[letter + 1]).required
    BY <1>10, <2>1 DEF Entry
  <2>3. \A k \in 1 .. letter + 1 : ~ShortOption(args[at].letters[k]).required
    <3>1. \A k \in 1 .. letter : ~ShortOption(args[at].letters[k]).required
      BY <1>3 DEF Walked
    <3>2. \A k \in 1 .. letter + 1 : k = letter + 1 \/ k \in 1 .. letter
      BY <1>3
    <3> QED
      BY <2>2, <3>1, <3>2
  <2>4. /\ args' = args /\ at' = at
        /\ \A k \in 1 .. letter' : ~ShortOption(args[at].letters[k]).required
    BY <2>1, <2>3, Zenon
  <2> QED
    BY <1>5, <2>4 DEF Walked
<1> QED
  BY <1>7, <1>8, <1>9, <1>10


LEMMA OptionsEndAt ==
  ASSUME ParserTyped, NEW e \in 1 .. Len(args) + 1,
         \A i \in 1 .. e - 1 : i \in Taken \/ IsOption(args, i),
         e <= Len(args) => e \notin Taken /\ args[e].kind \in {"word", "end"}
  PROVE  OptionsEnd = e
<1>1. Len(args) \in Nat /\ DOMAIN args = 1 .. Len(args)
  BY DEF ParserTyped
<1> DEFINE S == {i \in DOMAIN args : ~IsOptionArgument[i] /\ args[i].kind \in {"word", "end"}}
                  \cup {Len(args) + 1}
<1>2. \A i : i \in S <=> \/ i \in DOMAIN args /\ i \notin Taken /\ args[i].kind \in {"word", "end"}
                         \/ i = Len(args) + 1
  BY DEF Taken
<1>3. OptionsEnd = Min(S)
  BY DEF OptionsEnd
<1> HIDE DEF S
<1>4. e \in S
  BY <1>1, <1>2
<1>5. ASSUME NEW i \in S PROVE i \in Nat /\ e <= i
  <2>1. CASE i = Len(args) + 1
    BY <1>1, <2>1
  <2>2. CASE i \in DOMAIN args /\ i \notin Taken /\ args[i].kind \in {"word", "end"}
    <3>1. i \notin 1 .. e - 1
      BY <2>2 DEF IsOption
    <3> QED
      BY <1>1, <2>2, <3>1
  <2> QED
    BY <1>2, <2>1, <2>2
<1>6. \A x \in S : (\A y \in S : x <= y) => x = e
  BY <1>4, <1>5
<1> QED
  BY <1>3, <1>4, <1>5, <1>6 DEF Min

LEMMA StoreEnds ==
  ASSUME ParserTyped, Walked, pass = "store", args' = args,
         (\E from \in {at, at + 1} : Ends(from)) \/ Refuses
  PROVE  InputIsFirstNonOption'
<1>1. /\ Len(args) \in Nat /\ DOMAIN args = 1 .. Len(args)
      /\ at \in Nat /\ 1 <= at /\ at <= Len(args) + 1
  BY DEF ParserTyped
<1> DEFINE rest == IF OptionsEnd <= Len(args) /\ args[OptionsEnd].kind = "end"
                   THEN OptionsEnd + 1 ELSE OptionsEnd
           incomplete == /\ OptionsEnd > Len(args) /\ args # <<>>
                         /\ ~IsOptionArgument[Len(args)] /\ Wants(Last(args))
<1>2. /\ OptionsEnd' = OptionsEnd /\ IsOptionArgument' = IsOptionArgument
  BY DEF OptionsEnd, IsOptionArgument
<1>3. ASSUME /\ pass' = "parsed" => ~incomplete /\ nonop' = (IF rest <= Len(args) THEN rest ELSE None)
             /\ pass' = "error" => incomplete
      PROVE  InputIsFirstNonOption'
  BY <1>2, <1>3 DEF InputIsFirstNonOption
<1>4. args # <<>> => /\ Len(args) \in DOMAIN args /\ Last(args) = args[Len(args)]
                     /\ ~IsOptionArgument[Len(args)] <=> Len(args) \notin Taken
                     /\ Wants(Last(args)) <=> Len(args) \in Wanting
  <2> SUFFICES ASSUME args # <<>>
               PROVE  Len(args) \in DOMAIN args /\ Last(args) = args[Len(args)]
    BY DEF Taken, Wanting
  <2>1. args \in Seq(Arguments)
    BY DEF ParserTyped
  <2>2. Len(args) # 0
    BY <2>1, EmptySeq
  <2> QED
    BY <1>1, <2>2 DEF Last
<1>5. \A i \in 1 .. at - 1 : i \in Taken \/ IsOption(args, i)
  BY DEF Walked
<1>6. at <= Len(args) => at \notin Taken
  BY WhatIsWanted
<1>7. ASSUME NEW from, Ends(from) PROVE InputIsFirstNonOption'
  <2>1. /\ pass' = "parsed" /\ nonop' = (IF from <= Len(args) THEN from ELSE None)
        /\ at <= Len(args) => args[at].kind \in {"word", "end"}
        /\ from = IF at <= Len(args) /\ args[at].kind = "end" THEN at + 1 ELSE at
    BY <1>1, <1>7 DEF Ends, Finish
  <2>2. OptionsEnd = at
    BY <1>1, <1>5, <1>6, <2>1, OptionsEndAt
  <2>3. rest = from
    BY <2>1, <2>2
  <2>4. ~incomplete
    <3> SUFFICES ASSUME OptionsEnd > Len(args), args # <<>>
                 PROVE  Len(args) \in Taken \/ Len(args) \notin Wanting
      BY <1>4
    <3>1. at - 1 = Len(args) /\ at > 1
      BY <1>1, <1>4, <2>2
    <3> QED
      BY <3>1 DEF Walked
  <2> HIDE DEF rest, incomplete
  <2> QED
    BY <1>3, <2>1, <2>3, <2>4
<1>8. CASE Refuses
  <2>1. /\ IsOption(args, at) /\ Entry(args, at, letter).required
        /\ Optarg(args, at, letter) = None /\ pass' = "error" /\ at <= Len(args)
    BY <1>8 DEF Refuses, Lacks, IsOption, Fail
  <2>2. at \in DOMAIN args /\ args # <<>>
    BY <1>1, <2>1
  <2>3. None # Whole(at + 1) /\ <<at, 1>> # None /\ <<at, letter + 2>> # None
    <3>1. Whole(at + 1) \in Nat \X Nat /\ <<at, 1>> \in Nat \X Nat /\ <<at, letter + 2>> \in Nat \X Nat
      BY DEF Whole, ParserTyped
    <3> QED
      BY <3>1, NoneDistinct
  <2>4. at = Len(args) /\ ~More(args, at, letter)
        /\ ~(args[at].kind = "long" /\ args[at].attached)
    <3>1. args[at].kind = "long" => ~args[at].attached
      BY <2>1, <2>3 DEF Optarg
    <3>2. ~More(args, at, letter)
      BY <2>1, <2>3 DEF Optarg, More
    <3>3. Following(args, at) = None
      BY <2>1, <3>1, <3>2 DEF Optarg
    <3>4. ~(at < Len(args))
      BY <2>3, <3>3 DEF Following
    <3> QED
      BY <1>1, <2>1, <3>1, <3>2, <3>4
  <2>5. at \in Wanting /\ at \notin Taken
    BY <2>1, <2>4, WhatIsWanted
  <2>6. OptionsEnd = Len(args) + 1
    <3>1. \A i \in 1 .. (Len(args) + 1) - 1 : i \in Taken \/ IsOption(args, i)
      BY <1>1, <1>5, <2>1, <2>4
    <3> QED
      BY <1>1, <3>1, OptionsEndAt
  <2>7. incomplete
    BY <1>1, <1>4, <2>2, <2>4, <2>5, <2>6
  <2> HIDE DEF rest, incomplete
  <2> QED
    BY <1>3, <2>1, <2>7
<1> QED
  BY <1>7, <1>8

LEMMA WalkStep ==
  ASSUME ParserTyped, Walk, ParseArguments
  PROVE  Walk'
<1>1. /\ Passing /\ args' = args
      /\ (\E from \in {at, at + 1} : Ends(from)) \/ Refuses \/ TakesOption
  BY Workhorse
<1>2. Walked
  BY <1>1 DEF Walk
<1>3. CASE (\E from \in {at, at + 1} : Ends(from)) \/ Refuses
  <2>1. /\ at' = 1 /\ letter' = 0
        /\ pass = "count" => pass' = "store"
        /\ pass # "count" => pass' \in {"parsed", "error"}
    BY <1>3, NothingTaken
  <2>2. CASE pass = "count"
    BY <2>1, <2>2 DEF Walk, Walked, Passing
  <2>3. CASE pass = "store"
    <3>1. InputIsFirstNonOption'
      BY <1>1, <1>2, <1>3, <2>3, StoreEnds
    <3> QED
      BY <2>1, <2>3, <3>1 DEF Walk, Passing
  <2> QED
    BY <1>1, <2>2, <2>3 DEF Passing
<1>4. CASE TakesOption
  <2>1. Walked' /\ pass' = pass
    BY <1>1, <1>2, <1>4, WalkedStep DEF TakesOption
  <2> QED
    BY <1>1, <2>1 DEF Walk, Passing
<1> QED
  BY <1>1, <1>3, <1>4

LEMMA WalkInitially ==
  ASSUME InitParser
  PROVE  Walk
  BY DEF InitParser, Walk, Walked, Passing

LEMMA WalkUnchanged ==
  ASSUME Walk, UNCHANGED <<args, pass, at, letter, nonop>>
  PROVE  Walk'
<1>1. /\ args' = args /\ pass' = pass /\ at' = at /\ letter' = letter /\ nonop' = nonop
      /\ IsOptionArgument' = IsOptionArgument
  BY DEF IsOptionArgument
<1>2. Taken' = Taken /\ Wanting' = Wanting /\ (\A i : IsOption(args', i) <=> IsOption(args, i))
      /\ OptionsEnd' = OptionsEnd
  BY <1>1 DEF Taken, Wanting, OptionsEnd
<1>3. Walked' <=> Walked
  BY <1>1, <1>2 DEF Walked
<1>4. InputIsFirstNonOption' <=> InputIsFirstNonOption
  BY <1>1, <1>2 DEF InputIsFirstNonOption
<1> QED
  BY <1>1, <1>3, <1>4 DEF Walk, Passing


-----------------------------------------------------------------------------
(* The function main.                                                      *)

Items == {"declaration", "unknown", "bad"}

(* The options are fixed when main goes on; feof is noticed only when all  *)
(* is in the buffer; and without a warning there was one call of yyparse,  *)
(* which has put all that it scanned into the unit.                        *)
MainInv ==
  /\ phase # "options" => ~Passing
  /\ phase \notin {"options", "end"} =>
       pass = "parsed" /\ context.output = ArgOf(OUTPUT, "output.ll")
  /\ phase # "end" => numErrors = 0 /\ written = None
  /\ file \in Seq(Items) /\ scanned \in Nat /\ fetched \in Nat
  /\ scanned <= fetched /\ fetched <= Len(file)
  /\ eof \in BOOLEAN
  /\ eof = TRUE => fetched = Len(file)
  /\ phase \in {"options", "open"} => file = <<>> /\ warned = FALSE
  /\ phase \in {"options", "open", "yyparse"} /\ warned = FALSE =>
       scanned = 0 /\ fetched = 0 /\ eof = FALSE
  /\ phase \in {"parse", "check", "generate", "print"} /\ warned = FALSE =>
       unit = [i \in 1 .. scanned |-> i] /\ \A i \in 1 .. scanned : file[i] # "bad"
  /\ phase \in {"check", "generate", "print"} /\ warned = FALSE => scanned = Len(file)
  /\ warned \in BOOLEAN
  /\ OutputIsWholeProgram

(* A step is one of the workhorse or leaves the parser of options alone.   *)
LEMMA EachStep ==
  ASSUME [Next]_vars
  PROVE  (ParseArguments /\ UNCHANGED main) \/ UNCHANGED parser
<1>1. CASE Options
  BY <1>1 DEF Options
<1>2. CASE Next /\ ~Options
  BY <1>2 DEF Next, RefuseOptions, PrintUsage, NoInput, SetContext, CannotOpen, Open, BeginUnit,
     Refill, ParseDeclaration, SyntaxError, UnknownToken, EndOfFile, CompilerCrashes,
     doSemPass, generateCode, print, Ended, vars
<1>3. CASE UNCHANGED vars
  BY <1>3 DEF vars
<1> QED
  BY <1>1, <1>2, <1>3

LEMMA MainInitially ==
  ASSUME Init
  PROVE  MainInv
<1>1. file = <<>> /\ Len(<<>>) = 0 /\ <<>> \in Seq(Items)
  BY DEF Init
<1>2. /\ phase = "options" /\ scanned = 0 /\ fetched = 0 /\ eof = FALSE /\ warned = FALSE
      /\ numErrors = 0 /\ written = None
  BY DEF Init
<1>3. OutputIsWholeProgram
  BY <1>2 DEF OutputIsWholeProgram
<1>4. /\ file \in Seq(Items) /\ scanned \in Nat /\ fetched \in Nat
      /\ scanned <= fetched /\ fetched <= Len(file)
  BY <1>1, <1>2
<1>5. eof \in BOOLEAN /\ warned \in BOOLEAN /\ (eof = TRUE => fetched = Len(file))
  BY <1>2
<1> QED
  BY <1>1, <1>2, <1>3, <1>4, <1>5, Zenon DEF MainInv

(* The declarations parsed so far, and one more.                           *)
LEMMA OneMore ==
  ASSUME NEW n \in Nat
  PROVE  Append([i \in 1 .. n |-> i], n + 1) = [i \in 1 .. n + 1 |-> i]
<1> DEFINE s == [i \in 1 .. n |-> i]
           t == [i \in 1 .. n + 1 |-> i]
<1>1. s \in Seq(Nat) /\ DOMAIN s = 1 .. n
  BY SeqDef
<1>2. Len(s) = n
  <2>1. Len(s) \in Nat /\ DOMAIN s = 1 .. Len(s)
    BY <1>1, LenProperties
  <2> QED
    BY <1>1, <2>1
<1>3. DOMAIN Append(s, n + 1) = 1 .. n + 1
  BY <1>1, <1>2
<1>4. \A i \in 1 .. n + 1 : Append(s, n + 1)[i] = i
  BY <1>1, <1>2
<1>5. Append(s, n + 1) \in Seq(Nat)
  BY <1>1
<1> HIDE DEF s
<1>6. Append(s, n + 1) = [i \in 1 .. n + 1 |-> Append(s, n + 1)[i]]
  BY <1>3, <1>5
<1> QED
  BY <1>4, <1>6 DEF s

(* What exits without an output file.                                      *)
LEMMA MainExits ==
  ASSUME MainInv, written' = None, phase' = "end", UNCHANGED <<file, scanned, fetched, eof, warned>>,
         ~Passing'
  PROVE  MainInv'
  BY DEF MainInv, OutputIsWholeProgram

LEMMA MainStep ==
  ASSUME MainInv, [Next]_vars
  PROVE  MainInv'
<1> DEFINE data == <<context, file, fetched, eof, scanned, unit, warned, numErrors, written>>
<1>1. CASE Options
  <2>1. ParseArguments /\ UNCHANGED main
    BY <1>1 DEF Options
  <2>2. Passing
    BY <2>1 DEF ParseArguments, StopAtNonOption, StopAtDashes, TakeLong, TakeLetter
  <2>3. phase = "options"
    BY <2>2 DEF MainInv
  <2> QED
    BY <2>1, <2>3 DEF MainInv, OutputIsWholeProgram, main
<1>2. ASSUME NEW c, ExitWith(c), UNCHANGED parser, phase # "end", ~Passing PROVE MainInv'
  <2>1. written' = None /\ phase' = "end" /\ UNCHANGED <<file, scanned, fetched, eof, warned>>
    BY <1>2 DEF ExitWith, Exit, MainInv
  <2>2. ~Passing'
    BY <1>2 DEF Passing, parser
  <2> QED
    BY <2>1, <2>2, MainExits
<1>3. CASE RefuseOptions \/ PrintUsage \/ NoInput
  <2>1. \E c : ExitWith(c) /\ UNCHANGED parser /\ phase # "end" /\ ~Passing
    BY <1>3 DEF RefuseOptions, PrintUsage, NoInput, Passing
  <2> QED
    BY <1>2, <2>1
<1>4. CASE CannotOpen \/ SyntaxError \/ CompilerCrashes
  <2>1. \E c : ExitWith(c) /\ UNCHANGED parser /\ phase # "end" /\ ~Passing
    BY <1>4 DEF CannotOpen, SyntaxError, CompilerCrashes, MainInv
  <2> QED
    BY <1>2, <2>1
<1>5. CASE SetContext
  <2>1. /\ phase = "options" /\ pass = "parsed" /\ phase' = "open" /\ pass' = "parsed"
        /\ context'.output = ArgOf(OUTPUT, "output.ll") /\ options' = options
        /\ UNCHANGED <<file, fetched, eof, scanned, unit, warned, numErrors, written>>
    BY <1>5 DEF SetContext, parser
  <2>2. ~Passing' /\ ArgOf(OUTPUT, "output.ll")' = ArgOf(OUTPUT, "output.ll")
    BY <2>1 DEF Passing, ArgOf
  <2> QED
    BY <2>1, <2>2 DEF MainInv, OutputIsWholeProgram
<1> DEFINE kept == /\ pass' = pass /\ ArgOf(OUTPUT, "output.ll")' = ArgOf(OUTPUT, "output.ll")
                   /\ Passing' <=> Passing
<1>6. ASSUME UNCHANGED parser PROVE kept
  BY <1>6 DEF parser, ArgOf, Passing
<1> HIDE DEF kept
<1>7. CASE Open
  <2>1. /\ phase = "open" /\ phase' = "yyparse" /\ kept
        /\ file' \in BoundedSeq(Items, MaxItems)
        /\ UNCHANGED <<context, fetched, eof, scanned, unit, warned, numErrors, written>>
    BY <1>6, <1>7 DEF Open, Items
  <2>2. file' \in Seq(Items) /\ Len(file') \in Nat
    BY <2>1, BoundedSequence, ItemsNatural
  <2> QED
    BY <2>1, <2>2 DEF MainInv, OutputIsWholeProgram, kept
<1>8. CASE BeginUnit
  <2>1. /\ phase = "yyparse" /\ phase' = "parse" /\ kept /\ unit' = <<>>
        /\ UNCHANGED <<context, file, fetched, eof, scanned, warned, numErrors, written>>
    BY <1>6, <1>8 DEF BeginUnit
  <2>2. <<>> = [i \in 1 .. 0 |-> i] /\ 1 .. 0 = {}
    OBVIOUS
  <2> QED
    BY <2>1, <2>2 DEF MainInv, OutputIsWholeProgram, kept
<1>9. CASE Refill
  <2>1. /\ phase = "parse" /\ phase' = "parse" /\ kept
        /\ scanned = fetched /\ fetched' \in fetched .. Len(file)
        /\ UNCHANGED <<context, file, scanned, unit, warned, numErrors, written>>
    BY <1>6, <1>9 DEF Refill
  <2>2. Len(file) \in Nat /\ fetched' \in Nat /\ scanned <= fetched' /\ fetched' <= Len(file)
    BY <2>1 DEF MainInv
  <2>3. /\ eof' = FALSE \/ eof' = TRUE
        /\ fetched' < Len(file) => eof' = FALSE
    BY <1>9 DEF Refill
  <2>4. eof' = TRUE => fetched' = Len(file)
    BY <2>2, <2>3
  <2> QED
    BY <2>1, <2>2, <2>3, <2>4 DEF MainInv, OutputIsWholeProgram, kept
<1>10. CASE ParseDeclaration
  <2>1. /\ phase = "parse" /\ phase' = "parse" /\ kept
        /\ scanned < fetched /\ file[scanned + 1] = "declaration"
        /\ unit' = Append(unit, scanned + 1) /\ scanned' = scanned + 1
        /\ UNCHANGED <<context, file, fetched, eof, warned, numErrors, written>>
    BY <1>6, <1>10 DEF ParseDeclaration, Item
  <2>2. scanned' \in Nat /\ scanned' <= fetched
    BY <2>1 DEF MainInv
  <2>3. ASSUME warned = FALSE
        PROVE  unit' = [i \in 1 .. scanned' |-> i] /\ \A i \in 1 .. scanned' : file[i] # "bad"
    <3>1. /\ unit = [i \in 1 .. scanned |-> i] /\ scanned \in Nat
          /\ \A i \in 1 .. scanned : file[i] # "bad"
      BY <2>1, <2>3 DEF MainInv
    <3>2. unit' = [i \in 1 .. scanned + 1 |-> i]
      BY <2>1, <3>1, OneMore
    <3>3. \A i \in 1 .. scanned + 1 : i = scanned + 1 \/ i \in 1 .. scanned
      BY <3>1
    <3>4. \A i \in 1 .. scanned + 1 : file[i] # "bad"
      BY <2>1, <3>1, <3>3
    <3> QED
      BY <2>1, <3>2, <3>4
  <2> QED
    BY <2>1, <2>2, <2>3 DEF MainInv, OutputIsWholeProgram, kept
<1>11. CASE UnknownToken
  <2>1. /\ phase = "parse" /\ phase' \in {"check", "yyparse"} /\ kept
        /\ scanned < fetched /\ scanned' = scanned + 1 /\ warned' = TRUE
        /\ UNCHANGED <<context, file, fetched, eof, unit, numErrors, written>>
    BY <1>6, <1>11 DEF UnknownToken, AfterParse
  <2>2. scanned' \in Nat /\ scanned' <= fetched
    BY <2>1 DEF MainInv
  <2> QED
    BY <2>1, <2>2 DEF MainInv, OutputIsWholeProgram, kept
<1>12. CASE EndOfFile
  <2>1. /\ phase = "parse" /\ phase' = "check" /\ kept /\ scanned = fetched /\ eof = TRUE
        /\ UNCHANGED <<context, file, fetched, eof, scanned, unit, warned, numErrors, written>>
    BY <1>6, <1>12 DEF EndOfFile, AfterParse, MainInv
  <2> QED
    BY <2>1 DEF MainInv, OutputIsWholeProgram, kept
<1>13. CASE \E errors \in 0 .. 1 : doSemPass(errors)
  <2>1. /\ phase = "check" /\ kept
        /\ UNCHANGED <<context, file, fetched, eof, scanned, unit, warned, written>>
        /\ phase' = "end" \/ (phase' = "generate" /\ numErrors' = 0)
    BY <1>6, <1>13 DEF doSemPass, Exit
  <2>2. CASE phase' = "end"
    <3>1. written' = None /\ ~Passing'
      BY <2>1 DEF MainInv, kept
    <3> QED
      BY <2>1, <2>2, <3>1, MainExits
  <2>3. CASE phase' = "generate" /\ numErrors' = 0
    BY <2>1, <2>3 DEF MainInv, OutputIsWholeProgram, kept
  <2> QED
    BY <2>1, <2>2, <2>3
<1>14. CASE generateCode
  BY <1>6, <1>14 DEF generateCode, MainInv, OutputIsWholeProgram, kept
<1>15. CASE \E opened \in BOOLEAN : print(opened)
  <2>1. /\ phase = "print" /\ phase' = "end" /\ kept
        /\ UNCHANGED <<context, file, fetched, eof, scanned, unit, warned, numErrors>>
        /\ written' = None \/ (written' = unit /\ code' = 0)
    BY <1>6, <1>15 DEF print, Exit
  <2>2. CASE written' = None
    <3>1. ~Passing'
      BY <2>1 DEF MainInv, kept
    <3> QED
      BY <2>1, <2>2, <3>1, MainExits
  <2>3. CASE written' = unit /\ code' = 0
    <3>1. ASSUME warned = FALSE
          PROVE  written' = [i \in DOMAIN file |-> i] /\ "bad" \notin Range(file)
      <4>1. /\ unit = [i \in 1 .. scanned |-> i] /\ scanned = Len(file)
            /\ \A i \in 1 .. scanned : file[i] # "bad"
        BY <2>1, <3>1 DEF MainInv
      <4>2. DOMAIN file = 1 .. Len(file)
        BY DEF MainInv
      <4> QED
        BY <2>3, <4>1, <4>2 DEF Range
    <3>2. OutputIsWholeProgram'
      BY <2>1, <2>3, <3>1 DEF MainInv, OutputIsWholeProgram, kept
    <3> QED
      BY <2>1, <3>2 DEF MainInv, kept
  <2> QED
    BY <2>1, <2>2, <2>3
<1>16. CASE UNCHANGED vars
  <2>1. UNCHANGED main /\ kept
    BY <1>6, <1>16 DEF vars
  <2> QED
    BY <2>1 DEF MainInv, OutputIsWholeProgram, main, kept
<1> QED
  BY <1>1, <1>3, <1>4, <1>5, <1>7, <1>8, <1>9, <1>10, <1>11, <1>12, <1>13, <1>14, <1>15, <1>16
     DEF Next, Ended

-----------------------------------------------------------------------------
(* The inductive invariant and what follows from it.                       *)

IInv == ParserTyped /\ Threaded /\ Sized /\ Walk /\ MainInv

LEMMA Initially == Init => IInv
  BY ParserInitially, SizedInitially, WalkInitially, MainInitially DEF Init, IInv

LEMMA Inductive == IInv /\ [Next]_vars => IInv'
<1> SUFFICES ASSUME IInv, [Next]_vars PROVE IInv'
  OBVIOUS
<1>1. ParserTyped /\ Threaded /\ Sized /\ Walk /\ MainInv
  BY DEF IInv
<1>2. MainInv'
  BY <1>1, MainStep
<1>3. CASE ParseArguments
  BY <1>1, <1>2, <1>3, ParserStep, SizedStep, WalkStep DEF IInv
<1>4. CASE UNCHANGED parser
  <2>1. /\ args' = args /\ pass' = pass /\ at' = at /\ letter' = letter /\ nonop' = nonop
        /\ buffer_max' = buffer_max /\ options' = options /\ buffer' = buffer
        /\ next_' = next_ /\ prev_' = prev_
    BY <1>4 DEF parser
  <2>2. ParserTyped'
    BY <1>1, <2>1 DEF ParserTyped
  <2>3. Threaded'
    BY <1>1, <2>1, ListsUnchanged
  <2>4. Sized'
    BY <1>1, <2>1 DEF Sized
  <2>5. Walk'
    BY <1>1, <2>1, WalkUnchanged
  <2> QED
    BY <1>2, <2>2, <2>3, <2>4, <2>5 DEF IInv
<1> QED
  BY <1>3, <1>4, EachStep

LEMMA Always == Spec => []IInv
  BY Initially, Inductive, PTL DEF Spec

(* For every command line the two passes over it take the same options, so *)
(* that main's arrays on the stack are never written behind their end.     *)
THEOREM ArraysSuffice == Spec => []ArraysLargeEnough
<1>1. IInv => ArraysLargeEnough
  BY SizedIsLargeEnough DEF IInv
<1> QED
  BY <1>1, Always, PTL

(* For every command line the tagged pointers of Option::append keep the   *)
(* options of each kind in their order.                                    *)
THEOREM ListsInOrder == Spec => []ListsKeepOrder
<1>1. IInv => ListsKeepOrder
  BY DEF IInv, Threaded
<1> QED
  BY <1>1, Always, PTL

(* For every command line what main takes for its input is the first       *)
(* argument behind the options that the usage text describes, and it       *)
(* refuses just those that end within an option.                           *)
THEOREM InputFound == Spec => []InputIsFirstNonOption
<1>1. IInv => InputIsFirstNonOption
  <2>1. Passing => InputIsFirstNonOption
    BY DEF Passing, InputIsFirstNonOption
  <2> QED
    BY <2>1 DEF IInv, ParserTyped, Walk, Passing
<1> QED
  BY <1>1, Always, PTL

(* For every file, however fread hands it over, an output file is written  *)
(* from all its declarations and only if there was no error.               *)
THEOREM OutputIsComplete == Spec => []OutputIsWholeProgram
<1>1. IInv => OutputIsWholeProgram
  BY DEF IInv, MainInv
<1> QED
  BY <1>1, Always, PTL

=============================================================================
