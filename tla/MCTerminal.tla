----------------------------- MODULE MCTerminal -----------------------------
(* Three users on a terminal of two or three columns: one edits a line     *)
(* with every key, one uses the history, and one types a password.         *)
EXTENDS Terminal

EditKeys ==
  {"backspace", "altLeft", "altRight", "left", "right", "home", "end", "deleteWord",
   "deleteLine", "ctrlU", "ctrlD", "clearScreen", "tab", "resize"}

MCTypists ==
  {[chars |-> {"a", "b", " "}, keys |-> EditKeys \union {"enter"}, lines |-> 1, echo |-> TRUE],
   [chars |-> {"a"}, keys |-> {"enter", "ctrlC", "up", "down", "resize"}, lines |-> 4, echo |-> TRUE],
   [chars |-> {"a", " "}, keys |-> (EditKeys \ {"tab"}) \union {"enter"}, lines |-> 1, echo |-> FALSE]}

MCPrompts == {<<">">>, <<">", ">">>}

MCSuggestions == <<<<"a">>, <<"a", "b">>, <<"b", "a", "a">>>>

MCEmpty == <<>>

MCGlyphs == {"a", "b", " ", ">"}

MCLines == UNION {[1..n -> MCGlyphs] : n \in 0..maxLineLength}

MCWidths == <<2, 3>>
=============================================================================
