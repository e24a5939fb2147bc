----------------------------- MODULE Predictor ------------------------------
(***************************************************************************)
(* The flight delay predictor (src/cs6240_a3): the learner's map, combine  *)
(* and reduce functions as Hadoop may call them, the predicter that        *)
(* rewrites a file through a temporary one, and the checker.  A line of a  *)
(* CSV file is the sequence of its fields, or Unreadable; a key of the     *)
(* model is the fields it names with their values.                         *)
(***************************************************************************)
EXTENDS Integers, Bags, SequencesExt, FiniteSetsExt

CONSTANTS
    HEADERS,         \* columns that are read, in order; ArrDel15 is one
    KEYS,            \* sets of columns a prediction looks at, in order
    Line,            \* lines of the training file
    PLine,           \* lines of the file to predict
    MaxLearn, MaxPredict   \* bounds on the lines of each
ASSUME PredictorAssumption ==
    /\ "ArrDel15" \in Range(HEADERS) /\ IsInjective(HEADERS)
    /\ IsInjective(KEYS) /\ \A k \in Range(KEYS) : k \subseteq Range(HEADERS)
    /\ {MaxLearn, MaxPredict} \subseteq Nat

VARIABLES
    pphase,          \* what runs: learn, reduce, predict, replace, done, down
    lines,           \* history: the training lines, as a bag
    values,          \* for each key, the DelayValues <<sum, count>> on their way to the reducer
    model,           \* model.m: the percentage, times 100, of each key
    files,           \* predict.csv, the temporary file, and the name in the working directory
    original,        \* history: predict.csv as it was
    aside,           \* predict.csv is not in the working directory
    refused          \* history: the file system has refused the deletion or the renaming

prVars == <<pphase, lines, values, model, files, original, aside, refused>>

Unreadable == <<"unterminated quote">>
NoText     == ""         \* the text of a field that is not there
Integer(x) == x \in {"0", "1"}
None       == <<<<"no file">>>>

----------------------------------------------------------------------------
(* Parser *)

\* data after parse: the columns that were there.  Fields beyond the headers are dropped.
parse(line) ==
    IF line = Unreadable THEN [c \in {} |-> NoText]
    ELSE [c \in {HEADERS[i] : i \in 1 .. Min({Len(HEADERS), Len(line)})} |->
             line[CHOOSE i \in DOMAIN HEADERS : HEADERS[i] = c]]
isValid(data) == DOMAIN data = Range(HEADERS)
getText(data, c) == IF c \in DOMAIN data THEN data[c] ELSE NoText
getKeyValuePairs(data, key) == [c \in key |-> data[c]]
setArrDel15(data, v) == [data EXCEPT !["ArrDel15"] = v]
getValues(data) == [i \in DOMAIN HEADERS |-> getText(data, HEADERS[i])]

----------------------------------------------------------------------------
(* DelayLearner *)

\* A line without an integer in ArrDel15 is skipped by the exception.
map(line) ==
    LET data == parse(line) IN
    IF isValid(data) /\ Integer(data["ArrDel15"])
    THEN [keys |-> {getKeyValuePairs(data, k) : k \in Range(KEYS)}, delayed |-> IF data["ArrDel15"] = "1" THEN 1 ELSE 0]
    ELSE [keys |-> {}, delayed |-> 0]

\* The combiner and the reducer add the sums and the counts.
Total(bag) ==
    <<MapThenSumSet(LAMBDA v : v[1] * bag[v], DOMAIN bag), MapThenSumSet(LAMBDA v : v[2] * bag[v], DOMAIN bag)>>

Combined(bag) == Total(bag)

Percentage(t) == IF t[2] > 0 /\ t[1] > 0 THEN (t[1] * 10000) \div t[2] ELSE 0

LearnInit ==
    /\ pphase = "learn" /\ lines = EmptyBag /\ values = [k \in {} |-> EmptyBag] /\ model = [k \in {} |-> 0]
    /\ files = [predict |-> <<>>, tmp |-> None, cwd |-> None] /\ original = <<>>
    /\ aside = FALSE /\ refused = FALSE

\* A mapper gets a line.
MapLine(line) ==
    LET m == map(line) IN
    /\ pphase = "learn" /\ BagCardinality(lines) < MaxLearn
    /\ lines' = lines (+) SetToBag({line})
    /\ values' = [k \in DOMAIN values \cup m.keys |->
                    (IF k \in DOMAIN values THEN values[k] ELSE EmptyBag)
                    (+) (IF k \in m.keys THEN SetToBag({<<m.delayed, 1>>}) ELSE EmptyBag)]
    /\ UNCHANGED <<pphase, model, files, original, aside, refused>>

\* Hadoop may combine some values of one key, any number of times or never.
Combine(k, group) ==
    /\ pphase \in {"learn", "reduce"} /\ BagCardinality(group) > 1
    /\ values' = [values EXCEPT ![k] = (@ (-) group) (+) SetToBag({Combined(group)})]
    /\ UNCHANGED <<pphase, lines, model, files, original, aside, refused>>

EndOfInput == pphase = "learn" /\ pphase' = "reduce" /\ UNCHANGED <<lines, values, model, files, original, aside, refused>>

Reduce(k) ==
    /\ pphase = "reduce"
    /\ model' = [j \in DOMAIN model \cup {k} |-> IF j = k THEN Percentage(Total(values[k])) ELSE model[j]]
    /\ values' = [j \in DOMAIN values \ {k} |-> values[j]]
    /\ UNCHANGED <<pphase, lines, files, original, aside, refused>>

----------------------------------------------------------------------------
(* DelayPredicter; the model is read into the map first. *)

processLine(line) ==
    LET data    == parse(line)
        delayed == \E k \in Range(KEYS) :
                     LET key == getKeyValuePairs(data, k) IN key \in DOMAIN model /\ model[key] >= 5000
    IN  IF ~isValid(data) THEN getValues(data)
        ELSE getValues(setArrDel15(data, IF delayed THEN "1" ELSE "0"))

\* The file to predict is given, in the working directory or not.
GivePredictFile(rows, elsewhere) ==
    /\ pphase = "reduce" /\ DOMAIN values = {}
    /\ pphase' = "predict" /\ files' = [files EXCEPT !.predict = rows, !.tmp = <<>>]
    /\ original' = rows /\ aside' = elsewhere
    /\ UNCHANGED <<lines, values, model, refused>>

\* One turn of the loop; every line is flushed.
PredictLine ==
    /\ pphase = "predict" /\ Len(files.tmp) < Len(files.predict)
    /\ files' = [files EXCEPT !.tmp = Append(@, processLine(files.predict[Len(@) + 1]))]
    /\ UNCHANGED <<pphase, lines, values, model, original, aside, refused>>

\* predict.csv is deleted, or it cannot be and the temporary file stays.
DeletePredictFile(can) ==
    /\ pphase = "predict" /\ Len(files.tmp) = Len(files.predict)
    /\ IF can THEN pphase' = "replace" /\ files' = [files EXCEPT !.predict = None]
       ELSE pphase' = "done" /\ UNCHANGED files
    /\ refused' = (refused \/ ~can) /\ UNCHANGED <<lines, values, model, original, aside>>

\* renameTo takes the bare name, so the working directory; its result is not looked at.
RenameTemporary(can) ==
    /\ pphase = "replace" /\ pphase' = "done"
    /\ files' = IF ~can THEN files
                ELSE IF aside THEN [files EXCEPT !.cwd = files.tmp, !.tmp = None]
                ELSE [files EXCEPT !.predict = files.tmp, !.tmp = None]
    /\ refused' = (refused \/ ~can) /\ UNCHANGED <<lines, values, model, original, aside>>

\* The program stops on an exception or is killed; started again, it needs predict.csv
\* and takes a new temporary file.
PredicterStops ==
    /\ pphase \in {"predict", "replace"} /\ pphase' = "down"
    /\ UNCHANGED <<lines, values, model, files, original, aside, refused>>
PredictAgain ==
    /\ pphase = "down" /\ files.predict # None
    /\ pphase' = "predict" /\ files' = [files EXCEPT !.tmp = <<>>]
    /\ UNCHANGED <<lines, values, model, original, aside, refused>>

----------------------------------------------------------------------------
(* DelayChecker.check, over the shorter of the two files *)

check(predicted, verified) ==
    LET both == {i \in DOMAIN predicted \cap DOMAIN verified : isValid(parse(predicted[i])) /\ isValid(parse(verified[i]))}
        same == {i \in both : getText(parse(predicted[i]), "ArrDel15") = getText(parse(verified[i]), "ArrDel15")}
    IN  [correct |-> Cardinality(same), wrong |-> Cardinality(both \ same)]

PredictorNext ==
    \/ \E line \in Line : MapLine(line)
    \/ \E k \in DOMAIN values : Reduce(k) \/ \E group \in SubBag(values[k]) : Combine(k, group)
    \/ EndOfInput
    \/ \E rows \in SeqOf(PLine, MaxPredict), elsewhere \in BOOLEAN : GivePredictFile(rows, elsewhere)
    \/ PredictLine
    \/ \E can \in BOOLEAN : DeletePredictFile(can) \/ RenameTemporary(can)
    \/ PredicterStops \/ PredictAgain

----------------------------------------------------------------------------
\* The number of training lines that have a feature, late or in all.
Seen(key, P(_)) ==
    MapThenSumSet(LAMBDA l : lines[l],
        {l \in DOMAIN lines : key \in map(l).keys /\ P(map(l).delayed)})
Late(key) == Seen(key, LAMBDA d : d = 1)
All(key)  == Seen(key, LAMBDA d : TRUE)
\* What the prediction for a line is to be: one that cannot be parsed as it is (DelayPredicter.java:189).
Due(line) ==
    LET data == parse(line) IN
    IF ~isValid(data) THEN line
    ELSE [getValues(data) EXCEPT ![CHOOSE i \in DOMAIN HEADERS : HEADERS[i] = "ArrDel15"] =
            IF \E k \in Range(KEYS) : LET key == getKeyValuePairs(data, k) IN All(key) > 0 /\ 2 * Late(key) >= All(key)
            THEN "1" ELSE "0"]
\* What such a line becomes instead: its fields, and empty ones for the missing columns.
Padded(line) == [i \in DOMAIN HEADERS |-> IF line # Unreadable /\ i \in DOMAIN line THEN line[i] ELSE NoText]
\* The original's lines, as far as rows goes; and all of them.
Predicted(rows) ==
    \A i \in DOMAIN rows :
      /\ rows[i] \in {Due(original[i]), Padded(original[i])}
      /\ rows[i] = Due(original[i]) <=> isValid(parse(original[i]))
Complete(rows) == Len(rows) = Len(original) /\ Predicted(rows)

(***************************************************************************)
(* However often the combiner ran and over whichever values, the model     *)
(* holds the share of late flights of every feature (DelayLearnerCombiner, *)
(* DelayLearnerReducer).  Each valid line of the predicted file is what    *)
(* the training data says of it, in its place; an invalid one is never     *)
(* returned as it is, but padded (DelayPredicter.processLine).  A stop at  *)
(* any point leaves predict.csv or a complete file of predictions, and the *)
(* checker counts the lines that both files have right.  The predictions   *)
(* replace predict.csv (:121) exactly if it is in the working directory    *)
(* and nothing was refused; elsewhere it is gone, and they are in the      *)
(* working directory.                                                      *)
(***************************************************************************)
PredictorRight ==
    LET done   == check([i \in DOMAIN original |-> Due(original[i])], original)
        usable == {i \in DOMAIN original : isValid(parse(original[i]))}
    IN  /\ \A k \in DOMAIN model : All(k) > 0 /\ model[k] = Percentage(<<Late(k), All(k)>>)
        /\ pphase \notin {"learn", "reduce"} => \A l \in DOMAIN lines : map(l).keys \subseteq DOMAIN model
        /\ files.tmp # None => Len(files.tmp) <= Len(original) /\ Predicted(files.tmp)
        /\ files.predict = original \/ \E rows \in {files.tmp, files.predict, files.cwd} : Complete(rows)
        /\ pphase = "down" /\ files.predict = None => Complete(files.tmp)
        /\ pphase = "done" =>
             IF refused THEN Complete(files.tmp) /\ files.cwd = None
             ELSE files.tmp = None /\ (IF aside THEN files.predict = None /\ Complete(files.cwd)
                                        ELSE Complete(files.predict) /\ files.cwd = None)
        /\ done.correct + done.wrong = Cardinality(usable)
        /\ done.correct = Cardinality({i \in usable : original[i] = Due(original[i])})
=============================================================================
