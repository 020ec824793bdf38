-------------------------------- MODULE Vault --------------------------------
(***************************************************************************)
(* The recovery sheet and what it opens: recovery.ts, and the parts of     *)
(* identity.ts and trust.ts it goes through.  The sheet shows the recovery *)
(* key as words, the last of which carries a checksum, and as a square     *)
(* code.  The server holds the identity wrapped under that key, together   *)
(* with the roster of device keys.  Encryption that is authenticated opens *)
(* under the one key or fails: what is damaged is as if under another key. *)
(***************************************************************************)
EXTENDS Integers, Sequences, FiniteSets, SequencesExt

CONSTANTS
  NoRoster,               \* a bundle without one, a mark that cannot be read
  Misspelt,               \* what is not in the word list
  WORDS,                  \* the words, numbered from 0; an even number of them
  PHRASE,                 \* words on a sheet: 24
  VERIFY_WORD_POSITIONS   \* the words asked back: <<4, 17>>

\* A key fills every word but the last, and leaves one bit of that for the checksum.
RecoveryKeys == {[high |-> h, low |-> l] : h \in [1 .. PHRASE - 1 -> 0 .. WORDS - 1], l \in 0 .. WORDS \div 2 - 1}

\* A checksum that depends on the places of the words, and lets half of all mistakes pass.
Checksum(key) ==
  ((key.low + MapThenSumSet(LAMBDA i : (2 * i + 1) * key.high[i], DOMAIN key.high)) \div 2) % 2

entropyToMnemonic(key) == Append(key.high, 2 * key.low + Checksum(key))

mnemonicToEntropy(words) == [high |-> Front(words), low |-> Last(words) \div 2]

validateMnemonic(words) == entropyToMnemonic(mnemonicToEntropy(words)) = words

makeRecoverySheet(key) == [words |-> entropyToMnemonic(key), code |-> [whole |-> TRUE, key |-> key]]

\* The owner is asked for two of the words before the wizard goes on.
challengePassed(sheet, answers) ==
  /\ Len(answers) = Len(VERIFY_WORD_POSITIONS)
  /\ \A i \in DOMAIN answers : answers[i] = sheet.words[VERIFY_WORD_POSITIONS[i]]

-----------------------------------------------------------------------------
(* What was typed or scanned *)

Reject(by) == [ok |-> FALSE, by |-> by]

parseRecoveryWords(words) ==
  CASE Len(words) # PHRASE                                 -> Reject("length")
    [] Len(words) = PHRASE /\ Misspelt \in {words[i] : i \in DOMAIN words} -> Reject("unknown word")
    [] OTHER -> IF validateMnemonic(words) THEN [ok |-> TRUE, key |-> mnemonicToEntropy(words)]
                ELSE Reject("checksum")

\* The text of 32 bytes and no other way to write them.
parseRecoveryQr(code) == IF code.whole THEN [ok |-> TRUE, key |-> code.key] ELSE Reject("length")

-----------------------------------------------------------------------------
(* The wrapped identity: [kind, under, bundle]; a bundle is [idSK, roster],  *)
(* a roster [version, devices], its devices a sequence.                      *)

wrapUnderRecoveryKey(idSK, key, roster) ==
  [kind |-> "recovery", under |-> key, bundle |-> [idSK |-> idSK, roster |-> roster]]

ROSTER_FIRST_VERSION == 1

\* The rosters that are usable: a version, and devices, none of them twice.
decodes(roster) ==
  /\ roster # NoRoster
  /\ roster.version >= ROSTER_FIRST_VERSION
  /\ roster.devices # <<>>
  /\ IsInjective(roster.devices)

\* Memory is a version, 0 before the first; what cannot be read is not "no memory".
acceptRosterVersion(memory, version) == memory # NoRoster /\ (memory = 0 \/ version >= memory)

\* The roster inside the seal is not optional: without it the identity stays shut.
openIdentity(blob, key, memory) ==
  CASE blob.kind # "recovery" \/ blob.under # key -> Reject("unwrap")
    [] blob.kind = "recovery" /\ blob.under = key ->
         IF decodes(blob.bundle.roster) /\ acceptRosterVersion(memory, blob.bundle.roster.version)
           THEN [ok |-> TRUE, idSK |-> blob.bundle.idSK, version |-> blob.bundle.roster.version]
           ELSE Reject("roster")

\* A mutant: whatever fails is put down to the sheet.
attemptRecoveryBlanket(parsed, blob, memory) ==
  LET opened == openIdentity(blob, parsed.key, memory)
  IN  CASE ~parsed.ok -> [ok |-> FALSE, action |-> "check the sheet"]
        [] parsed.ok /\ ~opened.ok -> [ok |-> FALSE, action |-> "check the sheet"]
        [] OTHER -> opened

\* A checksum that fits is no proof of the words; the seal is.  When the seal opens,
\* it is not the sheet that is wrong; when it does not, the sheet is blamed for it.
attemptRecovery(parsed, blob, memory) ==
  LET opened == openIdentity(blob, parsed.key, memory)
  IN  CASE ~parsed.ok -> [ok |-> FALSE, action |-> "check the sheet"]
        [] parsed.ok /\ ~opened.ok ->
             [ok |-> FALSE, action |-> IF opened.by = "roster" THEN "get help" ELSE "check the sheet"]
        [] OTHER -> opened
=============================================================================
