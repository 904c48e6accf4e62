------------------------------ MODULE Loaders -------------------------------
(* The loaders of every command and test (interp/load_*.go and the files    *)
(* that hold their commands): the extensions each asks for first, the tags  *)
(* and positional arguments it matches with LoadSpec, and its checks after. *)
EXTENDS LoadSpec

YariloEnvironmentExtension == "vnd.yarilo.environment"
YariloPipeExtension == "vnd.yarilo.pipe"
YariloFilterExtension == "vnd.yarilo.filter"
YariloExecuteExtension == "vnd.yarilo.execute"
YariloReportExtension == "vnd.yarilo.report"
DovecotTestExtension == "vnd.dovecot.testsuite"

supportedRequires ==
  {"fileinto", "envelope", "encoded-character", "comparator-i;octet",
   "comparator-i;ascii-casemap", "comparator-i;ascii-numeric",
   "comparator-i;unicode-casemap", "imap4flags", "variables", "relational", "copy",
   "reject", "ereject", "subaddress", "environment", "body", "vacation", "regex",
   "date", "index", "editheader", "mailbox", "duplicate", "ihave", "special-use",
   "mailboxid", "imapsieve", "imapflags", "fcc", "vacation-seconds", "include",
   "extlists", "enotify", "spamtest", "spamtestplus", "virustest", "mboxmetadata",
   "servermetadata", "foreverypart", "mime", "extracttext", "replace", "enclose",
   "vnd.yarilo.debug", YariloEnvironmentExtension, YariloPipeExtension,
   YariloFilterExtension, YariloExecuteExtension, YariloReportExtension}

(* A loader. needs: sequences of alternatives, asked for in order before the *)
(* arguments; late: tags known only if the extension is there; runs: what    *)
(* the loaded command asks for again when it runs. texts and textTags: the   *)
(* positional arguments and tags in which it expands variables then; first:  *)
(* how it takes the first argument when that is the name of a variable, and  *)
(* "OfTwo" when it is one only if a second argument follows.                 *)
Loader(needs, tags, pos, checks) ==
  [needs |-> needs, tags |-> tags, pos |-> pos, checks |-> checks, late |-> <<>>,
   tests |-> "none", block |-> "none", testing |-> FALSE, runs |-> {},
   texts |-> DOMAIN pos, textTags |-> {}, first |-> "text"]

(* Loaders whose commands expand no string, and some tags as well.           *)
Constant(l) == [l EXCEPT !.texts = {}]
Expanding(textTags, l) == [l EXCEPT !.textTags = textTags]
Naming(first, l) == [l EXCEPT !.first = first]

None == [t \in {} |-> Flag]

-----------------------------------------------------------------------------
(* Checks after LoadSpec.                                                   *)
NeedIfGiven(tag, ext) == [k |-> "given", tag |-> tag, ext |-> ext]
NeedIfSet(tag, ext) == [k |-> "set", tag |-> tag, ext |-> ext]
AlwaysAsk(tag, ext) == [k |-> "ask", tag |-> tag, ext |-> ext]
NotBoth(a, b) == [k |-> "notboth", tag |-> a, with |-> b]
Exactly1(a, b) == [k |-> "exactly1", tag |-> a, with |-> b]
NeedsTag(a, b) == [k |-> "needstag", tag |-> a, with |-> b]
ValidTag(tag) == [k |-> "validtag", tag |-> tag]
ValidPos(i) == [k |-> "validpos", at |-> i]
Word(i) == [k |-> "word", at |-> i]
KnownVars(i) == [k |-> "vars", at |-> i]
ShortArgs == [k |-> "shortargs"]
CanSet(i) == [k |-> "canset", at |-> i]
FlagArgs == [k |-> "flagargs"]
SingleFirst == [k |-> "singlefirst"]
Key(i) == [k |-> "key", at |-> i]
OptionalKey(i) == [k |-> "optkey", at |-> i]
Mime == [k |-> "mime"]
NoSelector == [k |-> "noselector"]
LastKey == [k |-> "lastkey"]
AtMostOne(groups) == [k |-> "atmostone", groups |-> groups]

MatchTypes == {"is", "contains", "matches", "regex", "value", "count", "list"}
addSpecTags == [comparator |-> One, is |-> Flag, contains |-> Flag, matches |-> Flag,
                regex |-> Flag, value |-> One, count |-> One, list |-> Flag]
addressParts == [all |-> Flag, localpart |-> Flag, domain |-> Flag]
mimeSelectors == {"type", "subtype", "contenttype", "param"}
mimeSpecTags == [mime |-> Flag, anychild |-> Flag, type |-> Flag, subtype |-> Flag,
                 contenttype |-> Flag, param |-> Some]
valueModifierTags == [length |-> Flag, quotewildcard |-> Flag, quoteregex |-> Flag,
                      encodeurl |-> Flag, upperfirst |-> Flag, lowerfirst |-> Flag,
                      upper |-> Flag, lower |-> Flag]
SamePrecedence == {{"quotewildcard", "quoteregex"}, {"upperfirst", "lowerfirst"},
                   {"upper", "lower"}, {"length"}, {"encodeurl"}}

-----------------------------------------------------------------------------
(* Control (load_control.go, mime.go, load_ihave.go, load_include.go)       *)
loadCondBlock == [Loader(<<>>, None, <<>>, <<>>) EXCEPT !.tests = "one", !.block = "required"]
loadElse == [Loader(<<>>, None, <<>>, <<>>) EXCEPT !.block = "required"]
loadStop == Loader(<<>>, None, <<>>, <<>>)
loadForEveryPart == [Loader(<<>>, [name |-> Some], <<>>, <<>>) EXCEPT !.block = "required"]
loadBreak == Loader(<<>>, [name |-> Some], <<>>, <<>>)
loadIhaveTest == Constant(Loader(<< <<"ihave">> >>, None, <<Some>>, <<>>))
loadError == Loader(<< <<"ihave">> >>, None, <<One>>, <<>>)
loadInclude == Constant(Loader(<< <<"include">> >>,
  [personal |-> Flag, global |-> Flag, once |-> Flag, optional |-> Flag], <<One>>,
  <<ValidPos(1)>>))
loadReturn == Loader(<< <<"include">> >>, None, <<>>, <<>>)
loadGlobal == Constant(Loader(<< <<"include">>, <<"variables">> >>, None, <<Some>>, <<Word(1)>>))

(* Actions (load_action.go, load_vacation.go, load_notify.go, report.go)    *)
loadFileInto == Expanding({"flags", "specialuse", "mailboxid"}, Loader(<< <<"fileinto">> >>,
  [flags |-> Some, copy |-> Flag, create |-> Flag, specialuse |-> One, mailboxid |-> One], <<One>>,
  <<AlwaysAsk("flags", "imap4flags"), NeedIfGiven("copy", "copy"), NeedIfGiven("create", "mailbox"),
    NeedIfSet("specialuse", "special-use"), NeedIfSet("mailboxid", "mailboxid")>>))
loadRedirect == Loader(<<>>, [copy |-> Flag, list |-> Flag], <<One>>,
  <<NeedIfGiven("copy", "copy"), NeedIfGiven("list", "extlists")>>)
loadKeep == Expanding({"flags"}, Loader(<<>>, [flags |-> Some], <<>>, <<AlwaysAsk("flags", "imap4flags")>>))
loadDiscard == Loader(<<>>, None, <<>>, <<>>)
loadReject == Loader(<< <<"reject">> >>, None, <<One>>, <<>>)
loadEReject == Loader(<< <<"ereject">> >>, None, <<One>>, <<>>)
loadFlagCmd == Naming("setOfTwo",
  Loader(<< <<"imap4flags">> >>, None, <<Strings, Opt(Strings)>>, <<FlagArgs>>))
loadVacation == Expanding({"subject", "from", "addresses", "handle", "fcc", "specialuse"}, Loader(<< <<"vacation", "vacation-seconds">> >>,
  [days |-> Num, seconds |-> Num, subject |-> One, from |-> One, addresses |-> Some,
   mime |-> Flag, handle |-> One, fcc |-> One, flags |-> Some, create |-> Flag,
   specialuse |-> One], <<One>>,
  <<NotBoth("days", "seconds"), NeedIfGiven("seconds", "vacation-seconds"),
    NeedIfSet("fcc", "fcc"), NeedIfGiven("flags", "imap4flags"),
    NeedIfGiven("create", "mailbox"), NeedIfSet("specialuse", "special-use")>>))
loadNotify == Expanding({"from", "options", "message"}, Loader(<< <<"enotify">> >>,
  [from |-> One, importance |-> One, options |-> Some, message |-> One], <<One>>,
  <<ValidTag("importance")>>))
loadReport == [Loader(<< <<YariloReportExtension>> >>, [headers_only |-> Flag], <<One, One, One>>,
  <<>>) EXCEPT !.runs = {YariloReportExtension}]

(* External programs (pipe.go, filter.go, execute.go). The lists of their   *)
(* arguments are bounded by -1.                                             *)
Program(ext, tags, checks) ==
  [Loader(<< <<ext>> >>, tags, <<One, Opt(Rest)>>, <<ValidPos(1), ShortArgs, KnownVars(2)>> \o checks)
     EXCEPT !.runs = {ext}]
loadPipe == Program(YariloPipeExtension, [copy |-> Flag, try |-> Flag], <<NeedIfGiven("copy", "copy")>>)
loadFilterCmd == Program(YariloFilterExtension, None, <<>>)
loadFilterTest == [loadFilterCmd EXCEPT !.tests = "ignored"]
loadExecuteCmd == Expanding({"input", "output"},
  Program(YariloExecuteExtension, [pipe |-> Flag, input |-> One, output |-> One],
    <<NeedIfSet("output", "variables")>>))
loadExecuteTest == [loadExecuteCmd EXCEPT !.tests = "ignored"]
loadDebugLog == Loader(<<>>, None, <<One>>, <<KnownVars(1)>>)

(* Variables, header and MIME edits (load_variables.go, load_editheader.go, *)
(* mime.go, mime_actions.go)                                                *)
loadSet == Naming("set", Loader(<< <<"variables">> >>, valueModifierTags, <<One, One>>,
  <<AtMostOne(SamePrecedence), NeedIfGiven("encodeurl", "enotify"), CanSet(1)>>))
loadExtractText == Naming("set", Loader(<< <<"extracttext">>, <<"variables">> >>,
  valueModifierTags @@ [first |-> Num], <<One>>,
  <<AtMostOne(SamePrecedence), NeedIfGiven("encodeurl", "enotify"), CanSet(1)>>))
loadAddHeader == Loader(<< <<"editheader">> >>, [last |-> Flag], <<One, One>>, <<>>)
loadDeleteHeader == Loader(<< <<"editheader">> >>, addSpecTags @@ [index |-> Num, last |-> Flag],
  <<One, Opt(Some)>>, <<NeedsTag("last", "index"), OptionalKey(2)>>)
loadReplace == Expanding({"subject", "from"}, Loader(<< <<"replace">> >>, [mime |-> Flag, subject |-> One, from |-> One], <<One>>,
  <<NotBoth("mime", "subject"), NotBoth("mime", "from")>>))
loadEnclose == Expanding({"subject"}, Loader(<< <<"enclose">> >>, [subject |-> One, headers |-> Some], <<One>>, <<>>))

(* Tests (load_tests.go)                                                    *)
WithSubaddress(l) == [l EXCEPT !.late = <<[ext |-> "subaddress", tags |-> [user |-> Flag, detail |-> Flag]]>>]
loadAddressTest == WithSubaddress(Loader(<<>>, addSpecTags @@ addressParts, <<Some, Some>>, <<Key(2)>>))
loadEnvelopeTest == WithSubaddress(Loader(<< <<"envelope">> >>, addSpecTags @@ addressParts,
  <<Some, Some>>, <<Key(2)>>))
loadManyTest == [Loader(<<>>, None, <<>>, <<>>) EXCEPT !.tests = "many"]
loadNotTest == [Loader(<<>>, None, <<>>, <<>>) EXCEPT !.tests = "one"]
loadConstantTest == Loader(<<>>, None, <<>>, <<>>)
loadExistsTest == Loader(<<>>, mimeSpecTags, <<Some>>, <<NoSelector, Mime>>)
loadHeaderTest == Loader(<<>>, addSpecTags @@ mimeSpecTags, <<Some, Some>>, <<Mime, Key(2)>>)
loadSizeTest == Loader(<<>>, [under |-> Flag, over |-> Flag], <<Num>>, <<Exactly1("under", "over")>>)
loadHasFlagTest == Naming("getOfTwo", Loader(<<>>, addSpecTags, <<Strings, Opt(Some)>>, <<LastKey>>))
loadBodyTest == Loader(<< <<"body">> >>,
  [t \in DOMAIN addSpecTags \ {"value"} |-> addSpecTags[t]]
    @@ [raw |-> Flag, text |-> Flag, content |-> Some], <<Some>>,
  <<AtMostOne({{"raw", "text", "content"}}), Key(1)>>)
loadEnvironmentTest == Loader(<< <<"environment">> >>, addSpecTags, <<Some, Some>>, <<Key(2)>>)
loadStringTest == Loader(<< <<"variables">> >>, addSpecTags, <<Some, Some>>, <<Key(2)>>)

(* Dates, duplicates, mailboxes, lists, scores, metadata                    *)
loadDateTest == Loader(<< <<"date">> >>,
  addSpecTags @@ [zone |-> One, originalzone |-> Flag, index |-> Num, last |-> Flag],
  <<One, One, Some>>,
  <<AtMostOne({{"zone", "originalzone"}}), ValidTag("zone"), Word(2), NeedsTag("last", "index"),
    NeedIfSet("index", "index"), Key(3)>>)
loadCurrentDateTest == Loader(<< <<"date">> >>, addSpecTags @@ [zone |-> One], <<One, Some>>,
  <<ValidTag("zone"), Word(1), Key(2)>>)
loadDuplicateTest == Expanding({"uniqueid"}, Loader(<< <<"duplicate">> >>,
  [handle |-> One, header |-> One, uniqueid |-> One, seconds |-> One, last |-> Flag], <<>>,
  <<NotBoth("header", "uniqueid")>>))
loadMailboxExistsTest == [Loader(<< <<"mailbox">> >>, None, <<Some>>, <<>>) EXCEPT !.tests = "ignored"]
loadMailboxIDExists == Loader(<< <<"mailboxid">> >>, None, <<Some>>, <<>>)
loadSpecialUseExists == Loader(<< <<"special-use">> >>, None, <<Some, Opt(Some)>>, <<SingleFirst>>)
loadValidExtList == Loader(<< <<"extlists">> >>, None, <<Some>>, <<>>)
loadValidNotifyMethod == Loader(<< <<"enotify">> >>, None, <<Some>>, <<>>)
loadNotifyMethodCapability == Loader(<< <<"enotify">> >>, addSpecTags, <<One, One, Some>>, <<Key(3)>>)
loadSpamTest == Loader(<< <<"spamtest", "spamtestplus">> >>, addSpecTags @@ [percent |-> Flag],
  <<Some>>, <<NeedIfGiven("percent", "spamtestplus"), Key(1)>>)
loadVirusTest == Loader(<< <<"virustest">> >>, addSpecTags, <<Some>>, <<Key(1)>>)
loadMetadataTest == Loader(<< <<"mboxmetadata">> >>, addSpecTags, <<One, One, Some>>, <<Key(3)>>)
loadMetadataExistsTest == Loader(<< <<"mboxmetadata">> >>, None, <<One, Some>>, <<>>)
loadServerMetadataTest == Loader(<< <<"servermetadata">> >>, addSpecTags, <<One, Some>>, <<Key(2)>>)
loadServerMetadataExistsTest == Loader(<< <<"servermetadata">> >>, None, <<Some>>, <<>>)

(* The test suite's commands and tests (load_dovecot.go)                    *)
Testing(tags, pos, checks) ==
  [Loader(<< <<DovecotTestExtension>> >>, tags, pos, checks) EXCEPT !.testing = TRUE, !.texts = {}]
messageTags == [index |-> Num, folder |-> One, smtp |-> Flag]
loadDovecotTestSet == Testing(None, <<One, One>>, <<>>)
loadDovecotTestFail == Testing(None, <<One>>, <<KnownVars(1)>>)
loadDovecotTest == [Testing(None, <<One>>, <<>>) EXCEPT !.block = "required"]
loadDovecotCompile == Testing(None, <<One>>, <<>>)
loadDovecotConfigSet == Testing(None, <<One, One>>, <<>>)
loadDovecotBinary == Testing(None, <<One>>, <<>>)
loadDovecotRun == Testing(None, <<>>, <<>>)
loadDovecotError == Testing(addSpecTags @@ [index |-> Num], <<Some>>, <<>>)
loadDovecotResultAction == [Testing(addSpecTags @@ [index |-> Num], <<Some>>, <<Key(1)>>) EXCEPT !.texts = {1}]
loadDovecotResultReset == [Testing(None, <<>>, <<>>) EXCEPT !.block = "ignored"]
loadDovecotMailboxCreate == [Testing(None, <<One>>, <<>>) EXCEPT !.block = "ignored"]
loadDovecotCmdMessage == [Testing(messageTags, <<Num>>, <<>>) EXCEPT !.block = "ignored"]
loadDovecotResultExecute == Testing(None, <<>>, <<>>)
loadDovecotTestMessage == Testing(messageTags, <<Num>>, <<>>)

-----------------------------------------------------------------------------
(* The tables of load.go. require is a step of ScriptLoading, and so are    *)
(* commands with a block that is not empty; test_config_reload takes        *)
(* anything (loadNoop).                                                     *)
commands ==
  [if |-> loadCondBlock, elsif |-> loadCondBlock, else |-> loadElse,
   foreverypart |-> loadForEveryPart, test |-> loadDovecotTest,
   stop |-> loadStop, break |-> loadBreak, error |-> loadError, include |-> loadInclude,
   return |-> loadReturn, global |-> loadGlobal, fileinto |-> loadFileInto,
   redirect |-> loadRedirect, keep |-> loadKeep, discard |-> loadDiscard,
   reject |-> loadReject, ereject |-> loadEReject, setflag |-> loadFlagCmd,
   addflag |-> loadFlagCmd, removeflag |-> loadFlagCmd, vacation |-> loadVacation,
   notify |-> loadNotify, report |-> loadReport, pipe |-> loadPipe,
   filter |-> loadFilterCmd, execute |-> loadExecuteCmd, debug_log |-> loadDebugLog,
   set |-> loadSet, extracttext |-> loadExtractText, addheader |-> loadAddHeader,
   deleteheader |-> loadDeleteHeader, replace |-> loadReplace, enclose |-> loadEnclose,
   test_set |-> loadDovecotTestSet, test_fail |-> loadDovecotTestFail,
   test_binary_load |-> loadDovecotBinary, test_binary_save |-> loadDovecotBinary,
   test_mailbox_create |-> loadDovecotMailboxCreate,
   test_config_set |-> loadDovecotConfigSet, test_config_unset |-> loadDovecotConfigSet,
   test_result_reset |-> loadDovecotResultReset, test_message |-> loadDovecotCmdMessage]

tests ==
  [allof |-> loadManyTest, anyof |-> loadManyTest, not |-> loadNotTest,
   address |-> loadAddressTest, envelope |-> loadEnvelopeTest, exists |-> loadExistsTest,
   false |-> loadConstantTest, true |-> loadConstantTest, header |-> loadHeaderTest,
   size |-> loadSizeTest, string |-> loadStringTest, hasflag |-> loadHasFlagTest,
   environment |-> loadEnvironmentTest, body |-> loadBodyTest, date |-> loadDateTest,
   currentdate |-> loadCurrentDateTest, mailboxexists |-> loadMailboxExistsTest,
   duplicate |-> loadDuplicateTest, ihave |-> loadIhaveTest,
   specialuse_exists |-> loadSpecialUseExists, mailboxidexists |-> loadMailboxIDExists,
   valid_ext_list |-> loadValidExtList, valid_notify_method |-> loadValidNotifyMethod,
   notify_method_capability |-> loadNotifyMethodCapability, spamtest |-> loadSpamTest,
   virustest |-> loadVirusTest, metadata |-> loadMetadataTest,
   metadataexists |-> loadMetadataExistsTest, servermetadata |-> loadServerMetadataTest,
   servermetadataexists |-> loadServerMetadataExistsTest, filter |-> loadFilterTest,
   execute |-> loadExecuteTest, test_script_compile |-> loadDovecotCompile,
   test_script_run |-> loadDovecotRun, test_error |-> loadDovecotError,
   test_message |-> loadDovecotTestMessage, test_result_action |-> loadDovecotResultAction,
   test_result_execute |-> loadDovecotResultExecute]
=============================================================================
