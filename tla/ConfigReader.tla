---------------------------- MODULE ConfigReader ----------------------------
(***************************************************************************)
(* ConfigReader: how a configuration is read from its files and written    *)
(* back.  A file is a sequence of lines; the text of comments, of values   *)
(* and of descriptions is left out, which section a line falls into and    *)
(* what becomes of lines the program does not know is not.  A configuration*)
(* is a function from its entries <<section, name>> to their values.       *)
(***************************************************************************)
EXTENDS Integers, Sequences, SequencesExt, FiniteSets, FiniteSetsExt

Text == [kind |-> "text"]            \* a comment
Blank == [kind |-> "blank"]
Mark == [kind |-> "mark"]            \* UNUSED_SECTION_COMMENT
Header(s) == [kind |-> "section", name |-> s]
Entry(n, v) == [kind |-> "entry", name |-> n, value |-> v]

ImplicitSection == "General"
NoSection == "" \* currentSection == nullptr

\* m_sections: what the entries are in, and the configuration itself.
Sections(config) == {k[1] : k \in DOMAIN config} \cup {ImplicitSection}

\* In version 0.14.0, these sections were renamed.
Renamed(s) == CASE s = "XDisplay" -> "X11" [] s = "WaylandDisplay" -> "Wayland" [] OTHER -> s

\* Mutant of LoadInternal: a header only counts when the section is known.
LoadKnownSections(config, file) ==
  LET Line(st, l) ==
        IF l.kind = "section" /\ l.name \in Sections(config) THEN [st EXCEPT !.section = l.name]
        ELSE IF l.kind = "entry" /\ <<st.section, l.name>> \in DOMAIN config
          THEN [st EXCEPT !.config[<<st.section, l.name>>] = l.value]
        ELSE st
  IN FoldLeft(Line, [config |-> config, section |-> ImplicitSection], file).config

\* loadInternal: the lines of one file over the present values.
LoadInternal(config, file) ==
  LET Line(st, l) ==
        IF l.kind = "section" THEN [st EXCEPT !.section = Renamed(l.name)]
        ELSE IF l.kind = "entry" /\ <<st.section, l.name>> \in DOMAIN config
          THEN [st EXCEPT !.config[<<st.section, l.name>>] = l.value]
        ELSE st
  IN FoldLeft(Line, [config |-> config, section |-> ImplicitSection], file).config

-----------------------------------------------------------------------------
(* ConfigBase::save *)

\* What save is at: the section, the sections in their order, their lines, lines
\* not yet in a section, the entries still to be written.
SaveState(config, default) ==
  [section |-> ImplicitSection, order |-> <<>>,
   data |-> [s \in Sections(config) \cup {NoSection} |-> <<>>],
   junk |-> <<>>, changed |-> FALSE,
   remaining |-> {k \in DOMAIN config : config[k] # default[k]}]

\* Mutant of WriteSectionData: what was collected before the line is kept for the next.
WriteWithoutSection(st, l) ==
  [st EXCEPT !.order = IF st.section \in ToSet(@) \cup {NoSection} THEN @ ELSE Append(@, st.section),
             !.data[st.section] = IF st.section = NoSection THEN <<l>> ELSE @ \o st.junk \o <<l>>,
             !.junk = <<>>]

\* writeSectionData: the collected lines and this one go to the current section.
WriteSectionData(st, l) ==
  [st EXCEPT !.order = IF st.section \in ToSet(@) \cup {NoSection} THEN @ ELSE Append(@, st.section),
             !.data[st.section] = @ \o st.junk \o <<l>>,
             !.junk = <<>>]

SaveEntry(config, st, l) ==
  LET k == <<st.section, l.name>> IN
  IF k \in DOMAIN config
    THEN [WriteSectionData(st, Entry(l.name, config[k])) EXCEPT
            !.changed = @ \/ l.value # config[k], !.remaining = @ \ {k}]
    ELSE WriteSectionData(st, l)

SaveHeader(config, st, l) ==
  IF l.name \in Sections(config)
    THEN LET to == [st EXCEPT !.section = l.name]
         IN IF l.name \in ToSet(st.order) THEN to ELSE WriteSectionData(to, l)
    ELSE WriteSectionData([st EXCEPT !.section = NoSection], l)

\* Mutant of SaveRemaining: an entry of a section that has none yet gets no header.
SaveInPlace(config, st, k) ==
  WriteSectionData([st EXCEPT !.section = k[1], !.changed = TRUE], Entry(k[2], config[k]))

\* An entry that is not in the file, behind its section or with a new one.
SaveRemaining(config, st, k) ==
  LET to == [st EXCEPT !.section = k[1], !.changed = TRUE]
      begun == IF k[1] \in ToSet(st.order) THEN to ELSE WriteSectionData(to, Header(k[1]))
  IN WriteSectionData([begun EXCEPT !.junk = <<Blank, Text>>], Entry(k[2], config[k]))

\* QByteArray::trimmed of the lines that belong nowhere.
Trimmed(lines) ==
  LET full == {i \in DOMAIN lines : lines[i] # Blank}
  IN IF full = {} THEN <<>> ELSE SubSeq(lines, Min(full), Max(full))

\* save: [changed, lines], the file being rewritten only when something changed.
\* Comments behind the last line that is written are dropped.
Save(config, default, file) ==
  LET Line(st, l) == CASE l.kind = "entry" -> SaveEntry(config, st, l)
                       [] l.kind = "section" -> SaveHeader(config, st, l)
                       [] l.kind \in {"text", "blank"} -> [st EXCEPT !.junk = Append(@, l)]
                       [] OTHER -> st
      Remaining(st, k) == SaveRemaining(config, st, k)
      read == FoldLeft(Line, SaveState(config, default), file)
      st == FoldLeft(Remaining, read, SetToSeq(read.remaining))
      known == FlattenSeq([i \in DOMAIN st.order |-> st.data[st.order[i]]])
      unused == st.data[NoSection]
  IN [changed |-> st.changed,
      lines |-> IF unused = <<>> THEN known ELSE known \o <<Blank, Mark>> \o Trimmed(unused)]

-----------------------------------------------------------------------------
(* Pure properties of the two, stated of what they are applied to *)

\* The lines with entries the configuration does not have.
UnknownLines(config, file) ==
  LET Line(st, l) ==
        IF l.kind = "section" THEN [st EXCEPT !.section = l.name]
        ELSE IF l.kind = "entry" /\ <<st.section, l.name>> \notin DOMAIN config
          THEN [st EXCEPT !.lines = @ \cup {<<st.section, l>>}]
        ELSE st
  IN FoldLeft(Line, [section |-> ImplicitSection, lines |-> {}], file).lines
=============================================================================
