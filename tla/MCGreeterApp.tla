---------------------------- MODULE MCGreeterApp ----------------------------
(***************************************************************************)
(* A greeter on two screens, and keyboards with one layout and with        *)
(* three: the longer name has a gap in front of its last layout.           *)
(***************************************************************************)
EXTENDS GreeterApp

Token(name, at, length) == [name |-> name, at |-> at, length |-> length]

\* "pc+us+inet(evdev)" and "pc+us+ru:2+de:3+inet(evdev)"
MCLayouts ==
  {<<Token("us", 2, 3), Token("inet", 5, 5)>>,
   <<Token("us", 2, 3), Token("ru", 5, 3), Token("de", 10, 3), Token("inet", 15, 5)>>}

MCRegistered == {{"login1"}, {"login1", "UPower"}}
=============================================================================
