------------------------ MODULE XboxOneDeviceDescription ------------------------
(***************************************************************************)
(* The device description synthesizer of the input interface              *)
(* (XboxOneInputInterface.cpp: CopyStringAtIndex and newDeviceDescription). *)
(* Both are functions of what the USB stack hands back, so they are         *)
(* operators here; a small specification runs CopyStringAtIndex on every   *)
(* input of a bounded set, once each, and keeps the result for the         *)
(* property.  newDeviceDescription's assembly of the dictionary is        *)
(* modelled but checked by no property: it only sets the keys its null    *)
(* checks allow, which nothing that interleaves can disturb.               *)
(*                                                                         *)
(* A string descriptor is its bLength and the UTF-16 code units that        *)
(* follow the 2-byte header in memory, which may run past bLength: what     *)
(* lies there is whatever the buffer holds.                                 *)
(***************************************************************************)
EXTENDS Naturals, Sequences

CONSTANTS
    StringDescriptors,  \* descriptors CopyStringDescriptor may return
    StringIndexes       \* string indexes a device descriptor may name

ASSUME DescriptionConstantsAssumption ==
    /\ StringDescriptors \subseteq
           [present : BOOLEAN, bLength : 0..255, bString : Seq(0..65535)]
    /\ \A d \in StringDescriptors :
           d.bLength >= 2 => Len(d.bString) > (d.bLength - 2) \div 2
    /\ StringIndexes \subseteq 0..255

DescriptorHeaderSize == 2     \* sizeof(IOUSBDescriptorHeader)

(* A C string as OSStringCreate receives it; `present' is FALSE for null.  *)
NoString == [present |-> FALSE, chars |-> <<>>]

(* The keys newDeviceDescription always sets once the dictionary exists.  *)
FixedKeys == {"RegisterService", "HIDDefaultBehavior", "AppleVendorSupported",
              "ReportInterval", "VendorID", "ProductID", "Transport",
              "VersionNumber", "CountryCode", "RequestTimeout",
              "PrimaryUsagePage", "PrimaryUsage"}
StringKeys == {"Manufacturer", "Product", "SerialNumber"}

(* What newDeviceDescription returns on its failure paths: nullptr.        *)
NoDescription == [dict |-> FALSE, keys |-> {}, strings |-> <<>>]

-----------------------------------------------------------------------------
(* Spec section 4.4: index 0 means absent and a failed resolution omits   *)
(* the field; otherwise each UTF-16 unit is narrowed to its low byte, up  *)
(* to the first NUL unit or the descriptor's declared length, whichever   *)
(* comes first.                                                            *)
SpecString(index, d) ==
    IF index = 0 \/ ~d.present \/ d.bLength < DescriptorHeaderSize
    THEN NoString
    ELSE LET declared == (d.bLength - DescriptorHeaderSize) \div 2
             nuls == {k \in 1..declared : d.bString[k] = 0}
             n == IF nuls = {} THEN declared
                  ELSE (CHOOSE k \in nuls : \A j \in nuls : k <= j) - 1
         IN [present |-> TRUE, chars |-> [k \in 1..n |-> d.bString[k] % 256]]

(* Mutant: the loop runs while index <= length, one unit too far.          *)
CopyLoopInclusive(bString, length) ==
    LET loop[i \in 0..(length + 1)] ==
            IF i <= length /\ bString[i + 1] # 0 THEN loop[i + 1] ELSE i
    IN  loop[0]

(* The for loop of CopyStringAtIndex: the index at which it leaves, at    *)
(* the first zero unit or at `length'.                                     *)
CopyLoop(bString, length) ==
    LET loop[i \in 0..length] ==
            IF i < length /\ bString[i + 1] # 0 THEN loop[i + 1] ELSE i
    IN  loop[0]

(* CopyStringAtIndex(descriptorIndex, language): null for index 0, for a  *)
(* failed copy and for a bLength below the header; otherwise length =     *)
(* (bLength - 2) / 2 as a uint8_t, result[index] = (uint8_t)value for each *)
(* unit the loop passes, and OSStringCreate(result, index).  The           *)
(* descriptor is freed at Exit on every path.                              *)
CopyStringAtIndex(descriptorIndex, descriptor) ==
    IF \/ descriptorIndex = 0
       \/ ~descriptor.present
       \/ descriptor.bLength < DescriptorHeaderSize
    THEN NoString
    ELSE LET length == ((descriptor.bLength - DescriptorHeaderSize) \div 2) % 256
             index == CopyLoop(descriptor.bString, length)
         IN  [present |-> TRUE,
              chars |-> [k \in 1..index |-> descriptor.bString[k] % 256]]

(* The three string blocks: a field is set only when CopyStringAtIndex     *)
(* returned a string.                                                      *)
StringFields(e) ==
    [k \in {s \in StringKeys :
              CopyStringAtIndex(e.strings[s].index, e.strings[s].descriptor).present}
       |-> CopyStringAtIndex(e.strings[k].index, e.strings[k].descriptor)]

(* newDeviceDescription(): any null copy (interface, its properties, the  *)
(* device, its descriptor) or a failed OSDictionary::withCapacity returns *)
(* null.  Otherwise the dictionary gets the fixed keys, the location ID   *)
(* when the property exists, the strings that resolve, and BuiltIn for an *)
(* internal port.  Exit releases the properties, the descriptor and the   *)
(* device, whichever were obtained.                                        *)
newDeviceDescription(e) ==
    IF ~(e.interface /\ e.properties /\ e.device /\ e.deviceDescriptor /\ e.dict)
    THEN NoDescription
    ELSE [dict |-> TRUE,
          keys |-> FixedKeys \cup DOMAIN StringFields(e)
                   \cup (IF e.locationID THEN {"LocationID"} ELSE {})
                   \cup (IF e.internal THEN {"BuiltIn"} ELSE {}),
          strings |-> StringFields(e)]

-----------------------------------------------------------------------------
(* The harness: one string descriptor decoded.                            *)
VARIABLES
    input,    \* what the USB stack returns to the call
    result,   \* what the call returned
    done      \* the call has run

hvars == <<input, result, done>>


StringInputs == [index : StringIndexes, descriptor : StringDescriptors]

StringInit == input \in StringInputs /\ result = NoString /\ done = FALSE

(* The call of CopyStringAtIndex; afterwards nothing changes.              *)
DecodeString ==
    /\ ~done
    /\ result' = CopyStringAtIndex(input.index, input.descriptor)
    /\ done' = TRUE
    /\ UNCHANGED input

StringNext == DecodeString \/ (done /\ UNCHANGED hvars)

StringSpec == StringInit /\ [][StringNext]_hvars

-----------------------------------------------------------------------------
(* CopyStringAtIndex decodes every descriptor as spec section 4.4 says: it *)
(* stops at the first NUL unit or at the declared length (an odd bLength  *)
(* rounds down), never reads a unit past bLength, and keeps the low byte. *)
CopyStringMatchesSpec ==
    done => result = SpecString(input.index, input.descriptor)

=============================================================================
