------------------------------ MODULE ConfFile ------------------------------
(***************************************************************************)
(* Reading a configuration file (core/ngx_conf_file.c): the tokens of      *)
(* ngx_conf_read_token, the blocks of ngx_conf_parse and the look-up of a  *)
(* directive by ngx_conf_handler.                                          *)
(*                                                                         *)
(* The file passes through a buffer.  Where the buffer ends has nothing to *)
(* do with where words end: what was begun moves to the front, and the     *)
(* reader goes on with its flags.  Two readers of the same file move side  *)
(* by side here, one with a small buffer and one whose buffer holds the    *)
(* whole file.                                                             *)
(*                                                                         *)
(* Characters: "n" stands for all letters, LF ends a line, "q" is the      *)
(* double quote, "s" the single one.  Included files, parameters of the    *)
(* command line and custom handlers are left out.                          *)
(***************************************************************************)
EXTENDS Integers, Sequences, SequencesExt

CONSTANTS
  Files,     (* the texts that are tried *)
  Sizes,     (* the sizes of the small buffer: NGX_CONF_BUFFER *)
  Commands   (* the directives: their names, [name, block, counts] *)

Characters == {"n", " ", "LF", ";", "{", "}", "#", "\\", "q", "s", "$", ")"}

ASSUME ConfAssumption == Files \subseteq Seq(Characters) /\ Sizes \subseteq Nat \ {0}

VARIABLE conf

Blank == {" ", "LF"}

(* The flags and `start` are set anew at each call of ngx_conf_read_token. *)
Begin(r) ==
  [r EXCEPT !.args = << >>, !.start = r.pos, !.startLine = r.line, !.rc = "more", !.last = TRUE,
            !.need = FALSE, !.sharp = FALSE, !.variable = FALSE, !.quoted = FALSE, !.s = FALSE, !.d = FALSE]

Reader(file, size) ==
  [file |-> file, size |-> size, buf |-> << >>, pos |-> 0, offset |-> 0, start |-> 0, line |-> 1,
   startLine |-> 1, args |-> << >>, rc |-> "more", last |-> TRUE, need |-> FALSE, sharp |-> FALSE,
   variable |-> FALSE, quoted |-> FALSE, s |-> FALSE, d |-> FALSE, depth |-> 0, told |-> << >>]

Return(r, rc) == [r EXCEPT !.rc = rc]

(* Fault of Refill: what was begun is not kept. *)
RefillForgets(r) ==
  LET n == IF Len(r.file) - r.offset < r.size THEN Len(r.file) - r.offset ELSE r.size
  IN [r EXCEPT !.buf = SubSeq(r.file, r.offset + 1, r.offset + n), !.pos = 0, !.start = 0, !.offset = @ + n]

(* The characters from `start` move to the front, others fill the rest. *)
Refill(r) ==
  LET len == r.pos - r.start
      n == IF Len(r.file) - r.offset < r.size - len THEN Len(r.file) - r.offset ELSE r.size - len
  IN IF len = r.size THEN [r EXCEPT !.rc = "too long", !.line = r.startLine]
     ELSE [r EXCEPT !.buf = SubSeq(@, r.start + 1, r.pos) \o SubSeq(r.file, r.offset + 1, r.offset + n),
                    !.pos = len, !.start = 0, !.offset = @ + n]

(* A backslash is dropped before a quote or another one, and makes a LF of *)
(* the letter; elsewhere it stays.                                         *)
Unescaped(text) ==
  LET Next1(w, ch) ==
        IF ~w.escape THEN IF ch = "\\" THEN [w EXCEPT !.escape = TRUE] ELSE [w EXCEPT !.out = Append(@, ch)]
        ELSE [out |-> CASE ch \in {"q", "s", "\\"} -> Append(w.out, ch)
                        [] ch = "n" -> Append(w.out, "LF")
                        [] OTHER -> w.out \o << "\\", ch >>,
              escape |-> FALSE]
  IN FoldLeft(Next1, [out |-> << >>, escape |-> FALSE], text).out

Argument(r) == [r EXCEPT !.args = Append(@, Unescaped(SubSeq(r.buf, r.start + 1, r.pos - 1)))]

(* last_space: between two words. *)
Outside(r, ch) ==
  LET a == [r EXCEPT !.start = r.pos - 1, !.startLine = r.line]
      Into(b) == [b EXCEPT !.last = FALSE]
  IN CASE ch \in Blank -> r
       [] ch \in {";", "{"} -> Return(a, IF a.args = << >> THEN "error" ELSE IF ch = "{" THEN "block" ELSE "ok")
       [] ch = "}" -> Return(a, IF a.args # << >> THEN "error" ELSE "block done")
       [] ch = "#" -> [a EXCEPT !.sharp = TRUE]
       [] ch = "\\" -> Into([a EXCEPT !.quoted = TRUE])
       [] ch = "q" -> Into([a EXCEPT !.start = @ + 1, !.d = TRUE])
       [] ch = "s" -> Into([a EXCEPT !.start = @ + 1, !.s = TRUE])
       [] ch = "$" -> Into([a EXCEPT !.variable = TRUE])
       [] OTHER -> Into(a)

Inside(r, ch) ==
  LET a == [r EXCEPT !.variable = FALSE]
  IN IF ch = "{" /\ r.variable THEN r
     ELSE CASE ch = "\\" -> [a EXCEPT !.quoted = TRUE]
            [] ch = "$" -> [a EXCEPT !.variable = TRUE]
            [] a.d /\ ch = "q" -> Argument([a EXCEPT !.d = FALSE, !.need = TRUE])
            [] a.s /\ ~a.d /\ ch = "s" -> Argument([a EXCEPT !.s = FALSE, !.need = TRUE])
            [] ~a.d /\ ~a.s /\ ch \in Blank \cup {";", "{"} ->
                 Return(Argument([a EXCEPT !.last = TRUE]),
                        CASE ch = ";" -> "ok" [] ch = "{" -> "block" [] OTHER -> "more")
            [] OTHER -> a

(* A closing quote wants a blank, the end of the directive, or ")". *)
AfterQuote(r, ch) ==
  LET a == [r EXCEPT !.last = TRUE, !.need = FALSE]
  IN CASE ch \in Blank -> a [] ch = ";" -> Return(r, "ok") [] ch = "{" -> Return(r, "block")
       [] ch = ")" -> Outside(a, ch) [] OTHER -> Return(r, "error")

Character(r) ==
  LET ch == r.buf[r.pos + 1]
      a == [r EXCEPT !.pos = @ + 1, !.line = IF ch = "LF" THEN @ + 1 ELSE @, !.sharp = @ /\ ch # "LF"]
  IN IF a.sharp THEN a
     ELSE IF a.quoted THEN [a EXCEPT !.quoted = FALSE]
     ELSE IF a.need THEN AfterQuote(a, ch)
     ELSE IF a.last THEN Outside(a, ch) ELSE Inside(a, ch)

(* A turn of the loop of ngx_conf_read_token. *)
Turn(r) ==
  IF r.pos < Len(r.buf) THEN Character(r)
  ELSE IF r.offset >= Len(r.file)
  THEN Return(r, IF r.args # << >> \/ ~r.last THEN "error" ELSE "file done")
  ELSE LET a == Refill(r) IN IF a.rc = "more" THEN Character(a) ELSE a

(* ngx_conf_handler: the directive is known, ends as it should, and has as *)
(* many words as it takes.                                                 *)
Known(r) ==
  \E cmd \in Commands : /\ cmd.name = r.args[1]
                        /\ cmd.block = (r.rc = "block")
                        /\ Len(r.args) \in cmd.counts

(* ngx_conf_parse after a token.  A block is parsed by a call of its own,  *)
(* of which only the depth is kept.                                        *)
Parsed(r) ==
  CASE r.rc = "block done" -> IF r.depth = 0 THEN Return(r, "failed") ELSE Begin([r EXCEPT !.depth = @ - 1])
    [] r.rc = "file done" -> Return(r, IF r.depth > 0 THEN "failed" ELSE "parsed")
    [] r.rc \in {"ok", "block"} ->
         IF ~Known(r) THEN Return(r, "failed")
         ELSE Begin([r EXCEPT !.told = Append(@, r.args), !.depth = IF r.rc = "block" THEN @ + 1 ELSE @])
    [] OTHER -> Return(r, "failed")

ConfInit ==
  \E file \in Files, size \in Sizes :
    conf = [small |-> Reader(file, size), whole |-> Reader(file, Len(file) + 1)]

Reading(r) == r.rc \notin {"failed", "parsed", "too long"}

ConfNext ==
  /\ Reading(conf.small)
  /\ conf' = [reader \in {"small", "whole"} |->
                IF conf[reader].rc = "more" THEN Turn(conf[reader]) ELSE Parsed(conf[reader])]

ConfSpec == ConfInit /\ [][ConfNext]_conf

-----------------------------------------------------------------------------
(* Both readers understand the same: the words so far, the directives, the *)
(* line, and how it ends; unless the small buffer is full of what follows  *)
(* the start of one word, and the reader says so (ngx_conf_file.c:606,     *)
(* ngx_conf_file.c:608).                                                   *)
WordsAreWhole ==
  LET a == conf.small
      b == conf.whole
  IN IF a.rc = "too long" THEN a.pos - a.start = a.size /\ a.told = b.told
     ELSE /\ << a.rc, a.args, a.told, a.depth, a.line >> = << b.rc, b.args, b.told, b.depth, b.line >>
          /\ SubSeq(a.buf, a.start + 1, a.pos) = SubSeq(b.buf, b.start + 1, b.pos)
=============================================================================
