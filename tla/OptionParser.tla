--------------------------- MODULE OptionParser ---------------------------
(***************************************************************************)
(* optionparser.h as main.cpp uses it: Stats goes through the arguments to *)
(* size two arrays, Parser goes through them again and stores what it      *)
(* finds in these arrays, the options of one kind in a list.  Options end  *)
(* at the first other argument (gnu is false), long names are not          *)
(* abbreviated and have two dashes.  An argument is a record:              *)
(*   [kind |-> "word"]                       "-" and whatever has no dash  *)
(*   [kind |-> "end"]                        "--"                          *)
(*   [kind |-> "long", name, attached]       "--output", "--output=x"      *)
(*   [kind |-> "group", letters]             "-g", "-go", of one or two    *)
(***************************************************************************)
EXTENDS Naturals, Sequences, FiniteSets, SequencesExt, FiniteSetsExt

CONSTANTS
  Arguments,    \* the arguments that are tried
  MaxArguments, \* bound: the length of a command line
  None          \* a null pointer

ASSUME ArgumentsTyped ==
  Arguments \subseteq
    [kind : {"word", "end"}] \cup [kind : {"long"}, name : STRING, attached : BOOLEAN]
      \cup [kind : {"group"}, letters : [1 .. 1 -> STRING] \cup [1 .. 2 -> STRING]]
ASSUME LengthNatural == MaxArguments \in Nat
ASSUME NoneDistinct ==
  None \notin Nat \cup (Nat \X Nat) \cup [index : Nat, arg : (Nat \X Nat) \cup {None}]

UNKNOWN == 0
PACKAGE == 1
OUTPUT == 2
DEBUG == 4     \* INPUT, 3, has no entry

(* usage[] without the entries that are only text.  An unknown option is   *)
(* taken for the entry with empty names.                                   *)
Usage ==
  {[index |-> UNKNOWN, shortopt |-> "", longopt |-> "", required |-> FALSE],
   [index |-> PACKAGE, shortopt |-> "p", longopt |-> "package", required |-> TRUE],
   [index |-> OUTPUT, shortopt |-> "o", longopt |-> "output", required |-> TRUE],
   [index |-> DEBUG, shortopt |-> "g", longopt |-> "debug", required |-> FALSE]}

UnknownOption == CHOOSE d \in Usage : d.index = UNKNOWN

OrUnknown(found) == IF found = {} THEN UnknownOption ELSE CHOOSE d \in found : TRUE
LongOption(name) == OrUnknown({d \in Usage : d.longopt = name})
ShortOption(letter) == OrUnknown({d \in Usage : d.shortopt = letter})

(* A mistake for the checks to catch: the array without its sentinel.      *)
options_max_Tight == Max({d.index : d \in Usage}) + 1

(* The number of entries by index, and one as a sentinel.                  *)
options_max == Max({d.index : d \in Usage}) + 2

VARIABLES
  args,        \* the command line without the program's name
  pass,        \* "count", "store", "parsed" or "error"
  at,          \* the argument being looked at
  letter,      \* letters of it that are done, if it is a group
  buffer_max,  \* what Stats has counted, and one
  options,     \* by index: the first option of each, or None
  buffer,      \* all options, as [index, arg]
  next_, prev_, \* of the options in both arrays, with the tag of an end
  nonop        \* the first argument that is no option, or None

parser == <<args, pass, at, letter, buffer_max, options, buffer, next_, prev_, nonop>>

Option == {<<"options", i>> : i \in 0 .. options_max - 1}
            \cup {<<"buffer", i>> : i \in 1 .. MaxArguments * 2}

Self == [n \in Option |-> [to |-> n, tag |-> TRUE]]

InitParser ==
  /\ args \in BoundedSeq(Arguments, MaxArguments)
  /\ pass = "count"
  /\ at = 1
  /\ letter = 0
  /\ buffer_max = 1
  /\ options = [i \in 0 .. options_max - 1 |-> None]
  /\ buffer = <<>>
  /\ next_ = Self
  /\ prev_ = Self
  /\ nonop = None

-----------------------------------------------------------------------------
(* The lists.                                                              *)

first(n) ==
  LET back[k \in Option] == IF prev_[k].tag THEN k ELSE back[prev_[k].to] IN back[n]

last(n) == prev_[first(n)].to

(* A mistake for the checks to catch: the first does not learn of the last. *)
append_OneWay(n, new) ==
  LET f == first(n) p == last(n)
  IN  /\ next_' = [next_ EXCEPT ![p] = [to |-> new, tag |-> FALSE], ![new] = [to |-> f, tag |-> TRUE]]
      /\ prev_' = [prev_ EXCEPT ![new] = [to |-> p, tag |-> FALSE]]

append(n, new) ==
  LET f == first(n) p == last(n)
  IN  /\ next_' = [next_ EXCEPT ![p] = [to |-> new, tag |-> FALSE], ![new] = [to |-> f, tag |-> TRUE]]
      /\ prev_' = [prev_ EXCEPT ![new] = [to |-> p, tag |-> FALSE], ![f] = [to |-> new, tag |-> TRUE]]

(* StoreOptionAction::perform.  The array options gets copies.             *)
Store(option) ==
  /\ buffer' = Append(buffer, option)
  /\ IF options[option.index] = None
     THEN options' = [options EXCEPT ![option.index] = option] /\ UNCHANGED <<next_, prev_>>
     ELSE append(<<"options", option.index>>, <<"buffer", Len(buffer')>>) /\ UNCHANGED options
  /\ UNCHANGED buffer_max

Count ==
  /\ buffer_max' = buffer_max + 1
  /\ UNCHANGED <<options, buffer, next_, prev_>>

Perform(descriptor, arg) ==
  IF pass = "count" THEN Count ELSE Store([index |-> descriptor.index, arg |-> arg])

-----------------------------------------------------------------------------
(* The workhorse of both passes.                                           *)

Passing == pass \in {"count", "store"}
Argument == args[at]
HasMore == at < Len(args)

(* A text is named by the place where it starts.                           *)
Whole(i) == <<i, 0>>
NextArgument == IF HasMore THEN Whole(at + 1) ELSE None

(* Stats ignores what the workhorse returns.                               *)
Fail ==
  /\ pass' = IF pass = "count" THEN "store" ELSE "error"
  /\ at' = 1 /\ letter' = 0
  /\ UNCHANGED <<buffer_max, options, buffer, next_, prev_, nonop>>

Finish(from) ==
  /\ pass' = IF pass = "count" THEN "store" ELSE "parsed"
  /\ nonop' = IF pass = "store" /\ from <= Len(args) THEN from ELSE None
  /\ at' = 1 /\ letter' = 0
  /\ UNCHANGED <<buffer_max, options, buffer, next_, prev_>>

StopAtNonOption ==
  /\ Passing /\ letter = 0
  /\ IF at > Len(args) THEN TRUE ELSE Argument.kind = "word"
  /\ Finish(at)
  /\ UNCHANGED args

StopAtDashes ==
  /\ Passing /\ letter = 0 /\ at <= Len(args) /\ Argument.kind = "end"
  /\ Finish(at + 1)
  /\ UNCHANGED args

(* An option whose argument would be optarg; Arg::Required fails without.  *)
(* `more` tells whether the group goes on.                                 *)
Handle(descriptor, optarg, more) ==
  IF descriptor.required
  THEN IF optarg = None THEN Fail
       ELSE /\ Perform(descriptor, optarg)
            /\ at' = IF optarg = Whole(at + 1) THEN at + 2 ELSE at + 1
            /\ letter' = 0
            /\ UNCHANGED <<pass, nonop>>
  ELSE /\ Perform(descriptor, None)
       /\ at' = IF more THEN at ELSE at + 1
       /\ letter' = IF more THEN letter + 1 ELSE 0
       /\ UNCHANGED <<pass, nonop>>

TakeLong ==
  /\ Passing /\ letter = 0 /\ at <= Len(args) /\ Argument.kind = "long"
  /\ Handle(LongOption(Argument.name), IF Argument.attached THEN <<at, 1>> ELSE NextArgument, FALSE)
  /\ UNCHANGED args

(* A mistake for the checks to catch: an argument cannot be in the group.  *)
TakeLetter_Detached ==
  /\ Passing /\ at <= Len(args) /\ Argument.kind = "group"
  /\ Handle(ShortOption(Argument.letters[letter + 1]), NextArgument, letter + 1 < Len(Argument.letters))
  /\ UNCHANGED args

TakeLetter ==
  /\ Passing /\ at <= Len(args) /\ Argument.kind = "group"
  /\ LET more == letter + 1 < Len(Argument.letters)
     IN  Handle(ShortOption(Argument.letters[letter + 1]),
                IF more THEN <<at, letter + 2>> ELSE NextArgument, more)
  /\ UNCHANGED args

ParseArguments == StopAtNonOption \/ StopAtDashes \/ TakeLong \/ TakeLetter

-----------------------------------------------------------------------------
(* Properties.                                                             *)

(* Both arrays are on the stack of main and have the sizes that the first  *)
(* pass computed; the second one never writes behind them and leaves the   *)
(* sentinel at the end of each empty.                                      *)
ArraysLargeEnough ==
  pass # "count" =>
    /\ Len(buffer) < buffer_max
    /\ \A i \in DOMAIN buffer : buffer[i].index < options_max - 1

(* The n-th and the m-th option are of one kind, and one of them is the    *)
(* first or the last of its kind, or they are next to each other in it.    *)
Alike(n, m) == buffer[n].index = buffer[m].index
IsFirst(n) == \A m \in DOMAIN buffer : Alike(m, n) => n <= m
IsLast(n) == \A m \in DOMAIN buffer : Alike(m, n) => m <= n
Adjacent(n, m) == n < m /\ Alike(n, m) /\ \A k \in DOMAIN buffer : Alike(k, n) => k <= n \/ m <= k

Place(n) == IF IsFirst(n) THEN <<"options", buffer[n].index>> ELSE <<"buffer", n>>

Linked(n, m, tag) ==
  /\ next_[Place(n)] = [to |-> Place(m), tag |-> tag]
  /\ prev_[Place(m)] = [to |-> Place(n), tag |-> tag]

(* The options of one kind are a list in the order of the command line,    *)
(* readable from either end through the tagged pointers.  Its head is a    *)
(* copy of the first, which is therefore the one that counts.              *)
ListsKeepOrder ==
  /\ \A i \in DOMAIN options : options[i] # None => \E n \in DOMAIN buffer : buffer[n].index = i
  /\ \A n \in DOMAIN buffer : IsFirst(n) => options[buffer[n].index] = buffer[n]
  /\ \A n, m \in DOMAIN buffer :
       /\ Adjacent(n, m) => Linked(n, m, FALSE)
       /\ Alike(n, m) /\ IsLast(n) /\ IsFirst(m) => Linked(n, m, TRUE)

(* What the usage text promises: a required argument is the rest of its    *)
(* option or the next argument, whatever that looks like, and options end  *)
(* at -- or at the first argument that is none.                            *)
Wants(a) ==
  \/ a.kind = "long" /\ ~ a.attached /\ LongOption(a.name).required
  \/ /\ a.kind = "group"
     /\ \A k \in DOMAIN a.letters : ShortOption(a.letters[k]).required <=> k = Len(a.letters)

IsOptionArgument ==
  LET is[i \in 0 .. Len(args)] == i > 1 /\ ~ is[i - 1] /\ Wants(args[i - 1]) IN is

OptionsEnd ==
  Min({i \in DOMAIN args : ~ IsOptionArgument[i] /\ args[i].kind \in {"word", "end"}}
        \cup {Len(args) + 1})

(* The two passes agree with that description: the compiler's input is the *)
(* first argument behind the options, and a command line is refused if an  *)
(* option is left without its argument.                                    *)
InputIsFirstNonOption ==
  LET start == OptionsEnd
      rest == IF start <= Len(args) /\ args[start].kind = "end" THEN start + 1 ELSE start
      incomplete == start > Len(args) /\ args # <<>> /\ ~ IsOptionArgument[Len(args)] /\ Wants(Last(args))
  IN  /\ pass = "parsed" => ~ incomplete /\ nonop = (IF rest <= Len(args) THEN rest ELSE None)
      /\ pass = "error" => incomplete

=============================================================================
