---------------------------- MODULE Annotations ----------------------------
(***************************************************************************)
(* The annotations of an Ingress and what the store makes of them:         *)
(* internal/ingress/annotations (annotations.go, parser, proxy, class) with*)
(* its errors (internal/ingress/errors), and the copy that syncIngress of  *)
(* store.go keeps.                                                         *)
(*                                                                         *)
(* An Ingress is its annotations, a function from the keys that are set to *)
(* their contents, and the paths of each of its rules.  A content is the   *)
(* sequence of its lines, each a text with or without blanks around it.    *)
(***************************************************************************)
EXTENDS Integers, Sequences

CONSTANTS IngressClass,   \* class.IngressClass
          Atoi            \* the texts that strconv.Atoi takes, and their values

Line(text) == [text |-> text, padded |-> FALSE]
Padded(text) == [text |-> text, padded |-> TRUE]
Text(text) == <<Line(text)>>

AnnotationsPrefix == "wls.ingress.kubernetes.io"
IngressKey == <<"kubernetes.io", "ingress.class">>

(* GetAnnotationWithPrefix *)
WithPrefix(suffix) == <<AnnotationsPrefix, suffix>>

---------------------------------------------------------------------------
(* class.IsValid: a blank annotation, or none, is of the default class. *)
DefaultClass == "wls"
Class(ing) ==
  IF IngressKey \in DOMAIN ing.annotations THEN ing.annotations[IngressKey] ELSE Text("")
IsValid(ing) ==
  \/ Class(ing) = Text("") /\ IngressClass = DefaultClass
  \/ Class(ing) = Text(IngressClass)

---------------------------------------------------------------------------
(* The parsers return a value or an error. *)
NoError == "nil"
ErrMissingAnnotations == "ingress rule without annotations"
InvalidContent == "does not contain a valid value"

Ok(value) == [val |-> value, err |-> NoError]
Fail(zero, error) == [val |-> zero, err |-> error]

(* normalizeString: every line is trimmed; the lines stay. *)
normalizeString(content) == [i \in DOMAIN content |-> Line(content[i].text)]

(* parseString: what is empty once it is trimmed is not valid. *)
parseString(annotations, name) ==
  LET s == normalizeString(annotations[name])
  IN IF name \notin DOMAIN annotations THEN Fail(Text(""), ErrMissingAnnotations)
     ELSE IF s = Text("") THEN Fail(Text(""), InvalidContent) ELSE Ok(s)

(* parseInt: strconv.Atoi takes neither blanks nor lines. *)
parseInt(annotations, name) ==
  LET content == annotations[name]
  IN IF name \notin DOMAIN annotations THEN Fail(0, ErrMissingAnnotations)
     ELSE IF content \in {Text(t) : t \in DOMAIN Atoi} THEN Ok(Atoi[content[1].text])
     ELSE Fail(0, InvalidContent)

(* checkAnnotation: no annotation at all is an error of its own, and the   *)
(* same one; a name with the prefix is never empty.                        *)
HasAnnotations(ing) == DOMAIN ing.annotations # {}

GetStringAnnotation(name, ing) ==
  IF HasAnnotations(ing) THEN parseString(ing.annotations, WithPrefix(name))
  ELSE Fail(Text(""), ErrMissingAnnotations)
GetIntAnnotation(name, ing) ==
  IF HasAnnotations(ing) THEN parseInt(ing.annotations, WithPrefix(name))
  ELSE Fail(0, ErrMissingAnnotations)

(* Mutant of Parse: the first error is returned. *)
ParseReturnsError(ing) ==
  LET timeout == GetIntAnnotation("proxy-read-timeout", ing)
      size == GetStringAnnotation("proxy-body-size", ing)
  IN IF InvalidContent \in {timeout.err, size.err}
     THEN Fail([ReadTimeout |-> 0, BodySize |-> Text("")], InvalidContent)
     ELSE Ok([ReadTimeout |-> IF timeout.err = NoError THEN timeout.val ELSE 300,
              BodySize |-> IF size.err = NoError THEN size.val ELSE Text("10m")])

(* proxy.Parse: an error of either annotation, whichever, is its default.  *)
Parse(ing) ==
  LET timeout == GetIntAnnotation("proxy-read-timeout", ing)
      size == GetStringAnnotation("proxy-body-size", ing)
  IN Ok([ReadTimeout |-> IF timeout.err = NoError THEN timeout.val ELSE 300,
         BodySize |-> IF size.err = NoError THEN size.val ELSE Text("10m")])

(* Extract: a parser that fails leaves its part of the result empty. *)
Extract(ing) ==
  IF Parse(ing).err = NoError THEN [Proxy |-> Parse(ing).val]
  ELSE [Proxy |-> [ReadTimeout |-> 0, BodySize |-> Text("")]]

---------------------------------------------------------------------------
(* syncIngress: a copy of the Ingress in which no path is empty, with its  *)
(* parsed annotations.                                                     *)
Stored(ing) ==
  [annotations |-> ing.annotations,
   rules |-> [r \in DOMAIN ing.rules |->
                [p \in DOMAIN ing.rules[r] |->
                   IF ing.rules[r][p] = "" THEN "/" ELSE ing.rules[r][p]]],
   ParsedAnnotations |-> Extract(ing)]
=============================================================================
