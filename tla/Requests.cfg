\* All methods of the tables, all programs; nothing is bounded but the age of a value,
\* which stops counting at Forever.
CONSTANT Measured <- MeasuredValues
SPECIFICATION Spec
INVARIANTS  InputsBeforeOutputs Announcements StoresMatchGetters
PROPERTIES EveryRequestIsAnswered
