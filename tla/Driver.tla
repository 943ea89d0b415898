------------------------------- MODULE Driver -------------------------------
(***************************************************************************)
(* The function main of stp, with the option parser: parse the input file  *)
(* (scanner tokens.l, grammar parser.y) until there is no more, check the  *)
(* tree, generate code and write it.  A file is a sequence of items: a     *)
(* declaration, a character that is no token ("unknown", between           *)
(* declarations) or something that is a syntax error.                      *)
(***************************************************************************)
EXTENDS OptionParser

CONSTANT MaxItems    \* bound: items of the input file
ASSUME ItemsNatural == MaxItems \in Nat

CRASH == 139        \* killed by a signal

VARIABLES
  phase,      \* the step of main
  context,    \* [output, package, debug] of CompilerContext
  file,       \* the items of the input file
  fetched,    \* items that fread has put in the scanner's buffer
  eof,        \* feof(yyin)
  scanned,    \* items scanned
  unit,       \* compileUnit: the declarations of the tree, or None
  warned,     \* "Unknown token!" has been printed
  numErrors,  \* SemPass has logged errors
  written,    \* the output file has the module that was generated from unit
  code        \* the exit code, CRASH, or None while main runs

main == <<phase, context, file, fetched, eof, scanned, unit, warned, numErrors, written, code>>
vars == <<parser, main>>

Init ==
  /\ InitParser
  /\ phase = "options"
  /\ context = None
  /\ file = <<>>
  /\ fetched = 0
  /\ eof = FALSE
  /\ scanned = 0
  /\ unit = None
  /\ warned = FALSE
  /\ numErrors = 0
  /\ written = None
  /\ code = None

Exit(c) == phase' = "end" /\ code' = c

ExitWith(c) ==
  Exit(c) /\ UNCHANGED <<context, file, fetched, eof, scanned, unit, warned, numErrors, written>>

Options == ParseArguments /\ UNCHANGED main

RefuseOptions == phase = "options" /\ pass = "error" /\ ExitWith(1) /\ UNCHANGED parser

PrintUsage == phase = "options" /\ pass = "parsed" /\ args = <<>> /\ ExitWith(0) /\ UNCHANGED parser

(* nonOption(0) indexes a null array if there is no input file.            *)
NoInput ==
  /\ phase = "options" /\ pass = "parsed" /\ args # <<>> /\ nonop = None
  /\ ExitWith(CRASH)
  /\ UNCHANGED parser

ArgOf(i, default) == IF options[i] = None THEN default ELSE options[i].arg

SetContext ==
  /\ phase = "options" /\ pass = "parsed" /\ nonop # None
  /\ context' = [output |-> ArgOf(OUTPUT, "output.ll"), package |-> ArgOf(PACKAGE, ""),
                 debug |-> options[DEBUG] # None]
  /\ phase' = "open"
  /\ UNCHANGED <<parser, file, fetched, eof, scanned, unit, warned, numErrors, written, code>>

CannotOpen == phase = "open" /\ ExitWith(255) /\ UNCHANGED parser

Open ==
  /\ phase = "open"
  /\ file' \in BoundedSeq({"declaration", "unknown", "bad"}, MaxItems)
  /\ phase' = "yyparse"
  /\ UNCHANGED <<parser, context, fetched, eof, scanned, unit, warned, numErrors, written, code>>

-----------------------------------------------------------------------------
(* The scanner and the parser.                                             *)

(* The action in front of the unit's contents.                             *)
BeginUnit ==
  /\ phase = "yyparse"
  /\ unit' = <<>>
  /\ phase' = "parse"
  /\ UNCHANGED <<parser, context, file, fetched, eof, scanned, warned, numErrors, written, code>>

(* The scanner's buffer is empty: fread fills it, and the end of the file  *)
(* is noticed when it returns less than it was asked for.  At the end the  *)
(* scanner asks yywrap, which returns no value; if it finds a zero, it     *)
(* reads the file once more to the same effect.                            *)
Refill ==
  /\ phase = "parse" /\ scanned = fetched /\ ~ eof
  /\ fetched' \in fetched .. Len(file)
  /\ eof' \in (IF fetched' < Len(file) THEN {FALSE} ELSE IF fetched' = fetched THEN {TRUE} ELSE BOOLEAN)
  /\ eof' \/ fetched' > fetched
  /\ UNCHANGED <<parser, phase, context, file, scanned, unit, warned, numErrors, written, code>>

Item == file[scanned + 1]

ParseDeclaration ==
  /\ phase = "parse" /\ scanned < fetched /\ Item = "declaration"
  /\ unit' = Append(unit, scanned + 1)
  /\ scanned' = scanned + 1
  /\ UNCHANGED <<parser, phase, context, file, fetched, eof, warned, numErrors, written, code>>

(* while (!feof(yyin))                                                     *)
AfterParse == phase' = IF eof THEN "check" ELSE "yyparse"

(* A mistake for the checks to catch: yyerror prints and returns.          *)
SyntaxError_Printed ==
  /\ phase = "parse" /\ scanned < fetched /\ Item = "bad"
  /\ scanned' = scanned + 1
  /\ AfterParse
  /\ UNCHANGED <<parser, context, file, fetched, eof, unit, warned, numErrors, written, code>>

(* yyerror.                                                                *)
SyntaxError ==
  /\ phase = "parse" /\ scanned < fetched /\ Item = "bad"
  /\ ExitWith(255)
  /\ UNCHANGED parser

(* yyterminate: for the parser the file ends here.                         *)
UnknownToken ==
  /\ phase = "parse" /\ scanned < fetched /\ Item = "unknown"
  /\ scanned' = scanned + 1
  /\ warned' = TRUE
  /\ AfterParse
  /\ UNCHANGED <<parser, context, file, fetched, eof, unit, numErrors, written, code>>

EndOfFile ==
  /\ phase = "parse" /\ scanned = fetched /\ eof
  /\ AfterParse
  /\ UNCHANGED <<parser, context, file, fetched, eof, scanned, unit, warned, numErrors, written, code>>

-----------------------------------------------------------------------------
(* What the passes find in the unit is left open here.                     *)

CompilerCrashes == phase \in {"check", "generate"} /\ ExitWith(CRASH) /\ UNCHANGED parser

doSemPass(errors) ==
  /\ phase = "check"
  /\ numErrors' = errors
  /\ IF errors > 0 THEN Exit(1) ELSE phase' = "generate" /\ UNCHANGED code
  /\ UNCHANGED <<parser, context, file, fetched, eof, scanned, unit, warned, written>>

generateCode ==
  /\ phase = "generate"
  /\ phase' = "print"
  /\ UNCHANGED <<parser, context, file, fetched, eof, scanned, unit, warned, numErrors, written, code>>

(* errorCode is not looked at; what a raw_fd_ostream without a file does   *)
(* depends on how LLVM was built.                                          *)
print(opened) ==
  /\ phase = "print"
  /\ written' = IF opened THEN unit ELSE None
  /\ \E c \in IF opened THEN {0} ELSE {0, 1, CRASH} : Exit(c)
  /\ UNCHANGED <<parser, context, file, fetched, eof, scanned, unit, warned, numErrors>>

Ended == phase = "end" /\ UNCHANGED vars

Next ==
  \/ Options \/ RefuseOptions \/ PrintUsage \/ NoInput \/ SetContext \/ CannotOpen \/ Open
  \/ BeginUnit \/ Refill \/ ParseDeclaration \/ SyntaxError \/ UnknownToken \/ EndOfFile
  \/ CompilerCrashes \/ (\E errors \in 0 .. 1 : doSemPass(errors))
  \/ generateCode \/ (\E opened \in BOOLEAN : print(opened))
  \/ Ended

Spec == Init /\ [][Next]_vars

-----------------------------------------------------------------------------
(* Properties.                                                             *)

(* The scanner, the parser and the passes report errors in four different  *)
(* ways (a message, exit, a counter, a crash), and feof is about the file  *)
(* and not about the scanner.  Still an output file is only written for a  *)
(* program without errors, from all its declarations, for its options; the *)
(* one exception is a character that is no token, which is reported.       *)
OutputIsWholeProgram ==
  written # None =>
    /\ pass = "parsed" /\ numErrors = 0
    /\ ~ warned => written = [i \in DOMAIN file |-> i] /\ "bad" \notin Range(file)
    /\ context.output = ArgOf(OUTPUT, "output.ll") /\ code = 0

=============================================================================
