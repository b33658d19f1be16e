-------------------------- MODULE MonotonicTables --------------------------
(***************************************************************************)
(* The two tables of watermarking/monotonic.py as they stand in the file,  *)
(* to be compared with Monotonic, row by row.  A row is written down as    *)
(* runs of evenly spaced numbers: first number, step, count.               *)
(***************************************************************************)
EXTENDS Integers, Sequences
LOCAL INSTANCE SequencesExt

File == INSTANCE Monotonic WITH Depth <- 256

\* The numbers the runs of a row stand for.
Expand(runs) ==
  FlattenSeq([n \in 1 .. Len(runs) \div 3 |->
                [k \in 1 .. runs[3 * n] |-> runs[3 * n - 2] + (k - 1) * runs[3 * n - 1]]])

\* The rows of FTable.
FTableRows == <<
  <<0,1,256>>, <<1,-1,2, 2,1,254>>, <<3,-2,2, 0,2,3, 5,1,251>>, <<5,-2,3, 0,2,4, 7,1,249>>,
  <<7,-2,4, 0,2,5, 9,1,247>>, <<9,-2,5, 0,2,6, 11,1,245>>, <<11,-2,6, 0,2,7, 13,1,243>>,
  <<13,-2,7, 0,2,8, 15,1,241>>, <<15,-2,8, 0,2,9, 17,1,239>>, <<17,-2,9, 0,2,10, 19,1,237>>,
  <<19,-2,10, 0,2,11, 21,1,235>>, <<21,-2,11, 0,2,12, 23,1,233>>, <<23,-2,12, 0,2,13, 25,1,231>>,
  <<25,-2,13, 0,2,14, 27,1,229>>, <<27,-2,14, 0,2,15, 29,1,227>>, <<29,-2,15, 0,2,16, 31,1,225>>,
  <<31,-2,16, 0,2,17, 33,1,223>>, <<33,-2,17, 0,2,18, 35,1,221>>, <<35,-2,18, 0,2,19, 37,1,219>>,
  <<37,-2,19, 0,2,20, 39,1,217>>, <<39,-2,20, 0,2,21, 41,1,215>>, <<41,-2,21, 0,2,22, 43,1,213>>,
  <<43,-2,22, 0,2,23, 45,1,211>>, <<45,-2,23, 0,2,24, 47,1,209>>, <<47,-2,24, 0,2,25, 49,1,207>>,
  <<49,-2,25, 0,2,26, 51,1,205>>, <<51,-2,26, 0,2,27, 53,1,203>>, <<53,-2,27, 0,2,28, 55,1,201>>,
  <<55,-2,28, 0,2,29, 57,1,199>>, <<57,-2,29, 0,2,30, 59,1,197>>, <<59,-2,30, 0,2,31, 61,1,195>>,
  <<61,-2,31, 0,2,32, 63,1,193>>, <<63,-2,32, 0,2,33, 65,1,191>>, <<65,-2,33, 0,2,34, 67,1,189>>,
  <<67,-2,34, 0,2,35, 69,1,187>>, <<69,-2,35, 0,2,36, 71,1,185>>, <<71,-2,36, 0,2,37, 73,1,183>>,
  <<73,-2,37, 0,2,38, 75,1,181>>, <<75,-2,38, 0,2,39, 77,1,179>>, <<77,-2,39, 0,2,40, 79,1,177>>,
  <<79,-2,40, 0,2,41, 81,1,175>>, <<81,-2,41, 0,2,42, 83,1,173>>, <<83,-2,42, 0,2,43, 85,1,171>>,
  <<85,-2,43, 0,2,44, 87,1,169>>, <<87,-2,44, 0,2,45, 89,1,167>>, <<89,-2,45, 0,2,46, 91,1,165>>,
  <<91,-2,46, 0,2,47, 93,1,163>>, <<93,-2,47, 0,2,48, 95,1,161>>, <<95,-2,48, 0,2,49, 97,1,159>>,
  <<97,-2,49, 0,2,50, 99,1,157>>, <<99,-2,50, 0,2,51, 101,1,155>>,
  <<101,-2,51, 0,2,52, 103,1,153>>, <<103,-2,52, 0,2,53, 105,1,151>>,
  <<105,-2,53, 0,2,54, 107,1,149>>, <<107,-2,54, 0,2,55, 109,1,147>>,
  <<109,-2,55, 0,2,56, 111,1,145>>, <<111,-2,56, 0,2,57, 113,1,143>>,
  <<113,-2,57, 0,2,58, 115,1,141>>, <<115,-2,58, 0,2,59, 117,1,139>>,
  <<117,-2,59, 0,2,60, 119,1,137>>, <<119,-2,60, 0,2,61, 121,1,135>>,
  <<121,-2,61, 0,2,62, 123,1,133>>, <<123,-2,62, 0,2,63, 125,1,131>>,
  <<125,-2,63, 0,2,64, 127,1,129>>, <<127,-2,64, 0,2,65, 129,1,127>>,
  <<129,-2,65, 0,2,66, 131,1,125>>, <<131,-2,66, 0,2,67, 133,1,123>>,
  <<133,-2,67, 0,2,68, 135,1,121>>, <<135,-2,68, 0,2,69, 137,1,119>>,
  <<137,-2,69, 0,2,70, 139,1,117>>, <<139,-2,70, 0,2,71, 141,1,115>>,
  <<141,-2,71, 0,2,72, 143,1,113>>, <<143,-2,72, 0,2,73, 145,1,111>>,
  <<145,-2,73, 0,2,74, 147,1,109>>, <<147,-2,74, 0,2,75, 149,1,107>>,
  <<149,-2,75, 0,2,76, 151,1,105>>, <<151,-2,76, 0,2,77, 153,1,103>>,
  <<153,-2,77, 0,2,78, 155,1,101>>, <<155,-2,78, 0,2,79, 157,1,99>>,
  <<157,-2,79, 0,2,80, 159,1,97>>, <<159,-2,80, 0,2,81, 161,1,95>>,
  <<161,-2,81, 0,2,82, 163,1,93>>, <<163,-2,82, 0,2,83, 165,1,91>>,
  <<165,-2,83, 0,2,84, 167,1,89>>, <<167,-2,84, 0,2,85, 169,1,87>>,
  <<169,-2,85, 0,2,86, 171,1,85>>, <<171,-2,86, 0,2,87, 173,1,83>>,
  <<173,-2,87, 0,2,88, 175,1,81>>, <<175,-2,88, 0,2,89, 177,1,79>>,
  <<177,-2,89, 0,2,90, 179,1,77>>, <<179,-2,90, 0,2,91, 181,1,75>>,
  <<181,-2,91, 0,2,92, 183,1,73>>, <<183,-2,92, 0,2,93, 185,1,71>>,
  <<185,-2,93, 0,2,94, 187,1,69>>, <<187,-2,94, 0,2,95, 189,1,67>>,
  <<189,-2,95, 0,2,96, 191,1,65>>, <<191,-2,96, 0,2,97, 193,1,63>>,
  <<193,-2,97, 0,2,98, 195,1,61>>, <<195,-2,98, 0,2,99, 197,1,59>>,
  <<197,-2,99, 0,2,100, 199,1,57>>, <<199,-2,100, 0,2,101, 201,1,55>>,
  <<201,-2,101, 0,2,102, 203,1,53>>, <<203,-2,102, 0,2,103, 205,1,51>>,
  <<205,-2,103, 0,2,104, 207,1,49>>, <<207,-2,104, 0,2,105, 209,1,47>>,
  <<209,-2,105, 0,2,106, 211,1,45>>, <<211,-2,106, 0,2,107, 213,1,43>>,
  <<213,-2,107, 0,2,108, 215,1,41>>, <<215,-2,108, 0,2,109, 217,1,39>>,
  <<217,-2,109, 0,2,110, 219,1,37>>, <<219,-2,110, 0,2,111, 221,1,35>>,
  <<221,-2,111, 0,2,112, 223,1,33>>, <<223,-2,112, 0,2,113, 225,1,31>>,
  <<225,-2,113, 0,2,114, 227,1,29>>, <<227,-2,114, 0,2,115, 229,1,27>>,
  <<229,-2,115, 0,2,116, 231,1,25>>, <<231,-2,116, 0,2,117, 233,1,23>>,
  <<233,-2,117, 0,2,118, 235,1,21>>, <<235,-2,118, 0,2,119, 237,1,19>>,
  <<237,-2,119, 0,2,120, 239,1,17>>, <<239,-2,120, 0,2,121, 241,1,15>>,
  <<241,-2,121, 0,2,122, 243,1,13>>, <<243,-2,122, 0,2,123, 245,1,11>>,
  <<245,-2,123, 0,2,124, 247,1,9>>, <<247,-2,124, 0,2,125, 249,1,7>>,
  <<249,-2,125, 0,2,126, 251,1,5>>, <<251,-2,126, 0,2,127, 253,1,3>>,
  <<253,-2,127, 0,2,128, 255,0,1>>, <<255,-2,128, 0,2,128>>, <<255,-1,3, 251,-2,126, 0,2,127>>,
  <<255,-1,5, 249,-2,125, 0,2,126>>, <<255,-1,7, 247,-2,124, 0,2,125>>,
  <<255,-1,9, 245,-2,123, 0,2,124>>, <<255,-1,11, 243,-2,122, 0,2,123>>,
  <<255,-1,13, 241,-2,121, 0,2,122>>, <<255,-1,15, 239,-2,120, 0,2,121>>,
  <<255,-1,17, 237,-2,119, 0,2,120>>, <<255,-1,19, 235,-2,118, 0,2,119>>,
  <<255,-1,21, 233,-2,117, 0,2,118>>, <<255,-1,23, 231,-2,116, 0,2,117>>,
  <<255,-1,25, 229,-2,115, 0,2,116>>, <<255,-1,27, 227,-2,114, 0,2,115>>,
  <<255,-1,29, 225,-2,113, 0,2,114>>, <<255,-1,31, 223,-2,112, 0,2,113>>,
  <<255,-1,33, 221,-2,111, 0,2,112>>, <<255,-1,35, 219,-2,110, 0,2,111>>,
  <<255,-1,37, 217,-2,109, 0,2,110>>, <<255,-1,39, 215,-2,108, 0,2,109>>,
  <<255,-1,41, 213,-2,107, 0,2,108>>, <<255,-1,43, 211,-2,106, 0,2,107>>,
  <<255,-1,45, 209,-2,105, 0,2,106>>, <<255,-1,47, 207,-2,104, 0,2,105>>,
  <<255,-1,49, 205,-2,103, 0,2,104>>, <<255,-1,51, 203,-2,102, 0,2,103>>,
  <<255,-1,53, 201,-2,101, 0,2,102>>, <<255,-1,55, 199,-2,100, 0,2,101>>,
  <<255,-1,57, 197,-2,99, 0,2,100>>, <<255,-1,59, 195,-2,98, 0,2,99>>,
  <<255,-1,61, 193,-2,97, 0,2,98>>, <<255,-1,63, 191,-2,96, 0,2,97>>,
  <<255,-1,65, 189,-2,95, 0,2,96>>, <<255,-1,67, 187,-2,94, 0,2,95>>,
  <<255,-1,69, 185,-2,93, 0,2,94>>, <<255,-1,71, 183,-2,92, 0,2,93>>,
  <<255,-1,73, 181,-2,91, 0,2,92>>, <<255,-1,75, 179,-2,90, 0,2,91>>,
  <<255,-1,77, 177,-2,89, 0,2,90>>, <<255,-1,79, 175,-2,88, 0,2,89>>,
  <<255,-1,81, 173,-2,87, 0,2,88>>, <<255,-1,83, 171,-2,86, 0,2,87>>,
  <<255,-1,85, 169,-2,85, 0,2,86>>, <<255,-1,87, 167,-2,84, 0,2,85>>,
  <<255,-1,89, 165,-2,83, 0,2,84>>, <<255,-1,91, 163,-2,82, 0,2,83>>,
  <<255,-1,93, 161,-2,81, 0,2,82>>, <<255,-1,95, 159,-2,80, 0,2,81>>,
  <<255,-1,97, 157,-2,79, 0,2,80>>, <<255,-1,99, 155,-2,78, 0,2,79>>,
  <<255,-1,101, 153,-2,77, 0,2,78>>, <<255,-1,103, 151,-2,76, 0,2,77>>,
  <<255,-1,105, 149,-2,75, 0,2,76>>, <<255,-1,107, 147,-2,74, 0,2,75>>,
  <<255,-1,109, 145,-2,73, 0,2,74>>, <<255,-1,111, 143,-2,72, 0,2,73>>,
  <<255,-1,113, 141,-2,71, 0,2,72>>, <<255,-1,115, 139,-2,70, 0,2,71>>,
  <<255,-1,117, 137,-2,69, 0,2,70>>, <<255,-1,119, 135,-2,68, 0,2,69>>,
  <<255,-1,121, 133,-2,67, 0,2,68>>, <<255,-1,123, 131,-2,66, 0,2,67>>,
  <<255,-1,125, 129,-2,65, 0,2,66>>, <<255,-1,127, 127,-2,64, 0,2,65>>,
  <<255,-1,129, 125,-2,63, 0,2,64>>, <<255,-1,131, 123,-2,62, 0,2,63>>,
  <<255,-1,133, 121,-2,61, 0,2,62>>, <<255,-1,135, 119,-2,60, 0,2,61>>,
  <<255,-1,137, 117,-2,59, 0,2,60>>, <<255,-1,139, 115,-2,58, 0,2,59>>,
  <<255,-1,141, 113,-2,57, 0,2,58>>, <<255,-1,143, 111,-2,56, 0,2,57>>,
  <<255,-1,145, 109,-2,55, 0,2,56>>, <<255,-1,147, 107,-2,54, 0,2,55>>,
  <<255,-1,149, 105,-2,53, 0,2,54>>, <<255,-1,151, 103,-2,52, 0,2,53>>,
  <<255,-1,153, 101,-2,51, 0,2,52>>, <<255,-1,155, 99,-2,50, 0,2,51>>,
  <<255,-1,157, 97,-2,49, 0,2,50>>, <<255,-1,159, 95,-2,48, 0,2,49>>,
  <<255,-1,161, 93,-2,47, 0,2,48>>, <<255,-1,163, 91,-2,46, 0,2,47>>,
  <<255,-1,165, 89,-2,45, 0,2,46>>, <<255,-1,167, 87,-2,44, 0,2,45>>,
  <<255,-1,169, 85,-2,43, 0,2,44>>, <<255,-1,171, 83,-2,42, 0,2,43>>,
  <<255,-1,173, 81,-2,41, 0,2,42>>, <<255,-1,175, 79,-2,40, 0,2,41>>,
  <<255,-1,177, 77,-2,39, 0,2,40>>, <<255,-1,179, 75,-2,38, 0,2,39>>,
  <<255,-1,181, 73,-2,37, 0,2,38>>, <<255,-1,183, 71,-2,36, 0,2,37>>,
  <<255,-1,185, 69,-2,35, 0,2,36>>, <<255,-1,187, 67,-2,34, 0,2,35>>,
  <<255,-1,189, 65,-2,33, 0,2,34>>, <<255,-1,191, 63,-2,32, 0,2,33>>,
  <<255,-1,193, 61,-2,31, 0,2,32>>, <<255,-1,195, 59,-2,30, 0,2,31>>,
  <<255,-1,197, 57,-2,29, 0,2,30>>, <<255,-1,199, 55,-2,28, 0,2,29>>,
  <<255,-1,201, 53,-2,27, 0,2,28>>, <<255,-1,203, 51,-2,26, 0,2,27>>,
  <<255,-1,205, 49,-2,25, 0,2,26>>, <<255,-1,207, 47,-2,24, 0,2,25>>,
  <<255,-1,209, 45,-2,23, 0,2,24>>, <<255,-1,211, 43,-2,22, 0,2,23>>,
  <<255,-1,213, 41,-2,21, 0,2,22>>, <<255,-1,215, 39,-2,20, 0,2,21>>,
  <<255,-1,217, 37,-2,19, 0,2,20>>, <<255,-1,219, 35,-2,18, 0,2,19>>,
  <<255,-1,221, 33,-2,17, 0,2,18>>, <<255,-1,223, 31,-2,16, 0,2,17>>,
  <<255,-1,225, 29,-2,15, 0,2,16>>, <<255,-1,227, 27,-2,14, 0,2,15>>,
  <<255,-1,229, 25,-2,13, 0,2,14>>, <<255,-1,231, 23,-2,12, 0,2,13>>,
  <<255,-1,233, 21,-2,11, 0,2,12>>, <<255,-1,235, 19,-2,10, 0,2,11>>,
  <<255,-1,237, 17,-2,9, 0,2,10>>, <<255,-1,239, 15,-2,8, 0,2,9>>,
  <<255,-1,241, 13,-2,7, 0,2,8>>, <<255,-1,243, 11,-2,6, 0,2,7>>, <<255,-1,245, 9,-2,5, 0,2,6>>,
  <<255,-1,247, 7,-2,4, 0,2,5>>, <<255,-1,249, 5,-2,3, 0,2,4>>, <<255,-1,251, 3,-2,2, 0,2,3>>,
  <<255,-1,253, 1,-1,2, 2,0,1>>, <<255,-1,256>>
>>

\* The rows of F_inv_Table, numbers in even and in odd places apart.
F_inv_TableRows == <<
  <<<<0,2,128>>,<<1,2,128>>>>, <<<<1,1,2, 4,2,126>>,<<0,3,2, 5,2,126>>>>,
  <<<<2,1,3, 6,2,125>>,<<1,-1,2, 5,2,126>>>>, <<<<3,1,4, 8,2,124>>,<<2,-1,3, 7,2,125>>>>,
  <<<<4,1,5, 10,2,123>>,<<3,-1,4, 9,2,124>>>>, <<<<5,1,6, 12,2,122>>,<<4,-1,5, 11,2,123>>>>,
  <<<<6,1,7, 14,2,121>>,<<5,-1,6, 13,2,122>>>>, <<<<7,1,8, 16,2,120>>,<<6,-1,7, 15,2,121>>>>,
  <<<<8,1,9, 18,2,119>>,<<7,-1,8, 17,2,120>>>>, <<<<9,1,10, 20,2,118>>,<<8,-1,9, 19,2,119>>>>,
  <<<<10,1,11, 22,2,117>>,<<9,-1,10, 21,2,118>>>>,
  <<<<11,1,12, 24,2,116>>,<<10,-1,11, 23,2,117>>>>,
  <<<<12,1,13, 26,2,115>>,<<11,-1,12, 25,2,116>>>>,
  <<<<13,1,14, 28,2,114>>,<<12,-1,13, 27,2,115>>>>,
  <<<<14,1,15, 30,2,113>>,<<13,-1,14, 29,2,114>>>>,
  <<<<15,1,16, 32,2,112>>,<<14,-1,15, 31,2,113>>>>,
  <<<<16,1,17, 34,2,111>>,<<15,-1,16, 33,2,112>>>>,
  <<<<17,1,18, 36,2,110>>,<<16,-1,17, 35,2,111>>>>,
  <<<<18,1,19, 38,2,109>>,<<17,-1,18, 37,2,110>>>>,
  <<<<19,1,20, 40,2,108>>,<<18,-1,19, 39,2,109>>>>,
  <<<<20,1,21, 42,2,107>>,<<19,-1,20, 41,2,108>>>>,
  <<<<21,1,22, 44,2,106>>,<<20,-1,21, 43,2,107>>>>,
  <<<<22,1,23, 46,2,105>>,<<21,-1,22, 45,2,106>>>>,
  <<<<23,1,24, 48,2,104>>,<<22,-1,23, 47,2,105>>>>,
  <<<<24,1,25, 50,2,103>>,<<23,-1,24, 49,2,104>>>>,
  <<<<25,1,26, 52,2,102>>,<<24,-1,25, 51,2,103>>>>,
  <<<<26,1,27, 54,2,101>>,<<25,-1,26, 53,2,102>>>>,
  <<<<27,1,28, 56,2,100>>,<<26,-1,27, 55,2,101>>>>,
  <<<<28,1,29, 58,2,99>>,<<27,-1,28, 57,2,100>>>>,
  <<<<29,1,30, 60,2,98>>,<<28,-1,29, 59,2,99>>>>, <<<<30,1,31, 62,2,97>>,<<29,-1,30, 61,2,98>>>>,
  <<<<31,1,32, 64,2,96>>,<<30,-1,31, 63,2,97>>>>, <<<<32,1,33, 66,2,95>>,<<31,-1,32, 65,2,96>>>>,
  <<<<33,1,34, 68,2,94>>,<<32,-1,33, 67,2,95>>>>, <<<<34,1,35, 70,2,93>>,<<33,-1,34, 69,2,94>>>>,
  <<<<35,1,36, 72,2,92>>,<<34,-1,35, 71,2,93>>>>, <<<<36,1,37, 74,2,91>>,<<35,-1,36, 73,2,92>>>>,
  <<<<37,1,38, 76,2,90>>,<<36,-1,37, 75,2,91>>>>, <<<<38,1,39, 78,2,89>>,<<37,-1,38, 77,2,90>>>>,
  <<<<39,1,40, 80,2,88>>,<<38,-1,39, 79,2,89>>>>, <<<<40,1,41, 82,2,87>>,<<39,-1,40, 81,2,88>>>>,
  <<<<41,1,42, 84,2,86>>,<<40,-1,41, 83,2,87>>>>, <<<<42,1,43, 86,2,85>>,<<41,-1,42, 85,2,86>>>>,
  <<<<43,1,44, 88,2,84>>,<<42,-1,43, 87,2,85>>>>, <<<<44,1,45, 90,2,83>>,<<43,-1,44, 89,2,84>>>>,
  <<<<45,1,46, 92,2,82>>,<<44,-1,45, 91,2,83>>>>, <<<<46,1,47, 94,2,81>>,<<45,-1,46, 93,2,82>>>>,
  <<<<47,1,48, 96,2,80>>,<<46,-1,47, 95,2,81>>>>, <<<<48,1,49, 98,2,79>>,<<47,-1,48, 97,2,80>>>>,
  <<<<49,1,50, 100,2,78>>,<<48,-1,49, 99,2,79>>>>,
  <<<<50,1,51, 102,2,77>>,<<49,-1,50, 101,2,78>>>>,
  <<<<51,1,52, 104,2,76>>,<<50,-1,51, 103,2,77>>>>,
  <<<<52,1,53, 106,2,75>>,<<51,-1,52, 105,2,76>>>>,
  <<<<53,1,54, 108,2,74>>,<<52,-1,53, 107,2,75>>>>,
  <<<<54,1,55, 110,2,73>>,<<53,-1,54, 109,2,74>>>>,
  <<<<55,1,56, 112,2,72>>,<<54,-1,55, 111,2,73>>>>,
  <<<<56,1,57, 114,2,71>>,<<55,-1,56, 113,2,72>>>>,
  <<<<57,1,58, 116,2,70>>,<<56,-1,57, 115,2,71>>>>,
  <<<<58,1,59, 118,2,69>>,<<57,-1,58, 117,2,70>>>>,
  <<<<59,1,60, 120,2,68>>,<<58,-1,59, 119,2,69>>>>,
  <<<<60,1,61, 122,2,67>>,<<59,-1,60, 121,2,68>>>>,
  <<<<61,1,62, 124,2,66>>,<<60,-1,61, 123,2,67>>>>,
  <<<<62,1,63, 126,2,65>>,<<61,-1,62, 125,2,66>>>>,
  <<<<63,1,64, 128,2,64>>,<<62,-1,63, 127,2,65>>>>,
  <<<<64,1,65, 130,2,63>>,<<63,-1,64, 129,2,64>>>>,
  <<<<65,1,66, 132,2,62>>,<<64,-1,65, 131,2,63>>>>,
  <<<<66,1,67, 134,2,61>>,<<65,-1,66, 133,2,62>>>>,
  <<<<67,1,68, 136,2,60>>,<<66,-1,67, 135,2,61>>>>,
  <<<<68,1,69, 138,2,59>>,<<67,-1,68, 137,2,60>>>>,
  <<<<69,1,70, 140,2,58>>,<<68,-1,69, 139,2,59>>>>,
  <<<<70,1,71, 142,2,57>>,<<69,-1,70, 141,2,58>>>>,
  <<<<71,1,72, 144,2,56>>,<<70,-1,71, 143,2,57>>>>,
  <<<<72,1,73, 146,2,55>>,<<71,-1,72, 145,2,56>>>>,
  <<<<73,1,74, 148,2,54>>,<<72,-1,73, 147,2,55>>>>,
  <<<<74,1,75, 150,2,53>>,<<73,-1,74, 149,2,54>>>>,
  <<<<75,1,76, 152,2,52>>,<<74,-1,75, 151,2,53>>>>,
  <<<<76,1,77, 154,2,51>>,<<75,-1,76, 153,2,52>>>>,
  <<<<77,1,78, 156,2,50>>,<<76,-1,77, 155,2,51>>>>,
  <<<<78,1,79, 158,2,49>>,<<77,-1,78, 157,2,50>>>>,
  <<<<79,1,80, 160,2,48>>,<<78,-1,79, 159,2,49>>>>,
  <<<<80,1,81, 162,2,47>>,<<79,-1,80, 161,2,48>>>>,
  <<<<81,1,82, 164,2,46>>,<<80,-1,81, 163,2,47>>>>,
  <<<<82,1,83, 166,2,45>>,<<81,-1,82, 165,2,46>>>>,
  <<<<83,1,84, 168,2,44>>,<<82,-1,83, 167,2,45>>>>,
  <<<<84,1,85, 170,2,43>>,<<83,-1,84, 169,2,44>>>>,
  <<<<85,1,86, 172,2,42>>,<<84,-1,85, 171,2,43>>>>,
  <<<<86,1,87, 174,2,41>>,<<85,-1,86, 173,2,42>>>>,
  <<<<87,1,88, 176,2,40>>,<<86,-1,87, 175,2,41>>>>,
  <<<<88,1,89, 178,2,39>>,<<87,-1,88, 177,2,40>>>>,
  <<<<89,1,90, 180,2,38>>,<<88,-1,89, 179,2,39>>>>,
  <<<<90,1,91, 182,2,37>>,<<89,-1,90, 181,2,38>>>>,
  <<<<91,1,92, 184,2,36>>,<<90,-1,91, 183,2,37>>>>,
  <<<<92,1,93, 186,2,35>>,<<91,-1,92, 185,2,36>>>>,
  <<<<93,1,94, 188,2,34>>,<<92,-1,93, 187,2,35>>>>,
  <<<<94,1,95, 190,2,33>>,<<93,-1,94, 189,2,34>>>>,
  <<<<95,1,96, 192,2,32>>,<<94,-1,95, 191,2,33>>>>,
  <<<<96,1,97, 194,2,31>>,<<95,-1,96, 193,2,32>>>>,
  <<<<97,1,98, 196,2,30>>,<<96,-1,97, 195,2,31>>>>,
  <<<<98,1,99, 198,2,29>>,<<97,-1,98, 197,2,30>>>>,
  <<<<99,1,100, 200,2,28>>,<<98,-1,99, 199,2,29>>>>,
  <<<<100,1,101, 202,2,27>>,<<99,-1,100, 201,2,28>>>>,
  <<<<101,1,102, 204,2,26>>,<<100,-1,101, 203,2,27>>>>,
  <<<<102,1,103, 206,2,25>>,<<101,-1,102, 205,2,26>>>>,
  <<<<103,1,104, 208,2,24>>,<<102,-1,103, 207,2,25>>>>,
  <<<<104,1,105, 210,2,23>>,<<103,-1,104, 209,2,24>>>>,
  <<<<105,1,106, 212,2,22>>,<<104,-1,105, 211,2,23>>>>,
  <<<<106,1,107, 214,2,21>>,<<105,-1,106, 213,2,22>>>>,
  <<<<107,1,108, 216,2,20>>,<<106,-1,107, 215,2,21>>>>,
  <<<<108,1,109, 218,2,19>>,<<107,-1,108, 217,2,20>>>>,
  <<<<109,1,110, 220,2,18>>,<<108,-1,109, 219,2,19>>>>,
  <<<<110,1,111, 222,2,17>>,<<109,-1,110, 221,2,18>>>>,
  <<<<111,1,112, 224,2,16>>,<<110,-1,111, 223,2,17>>>>,
  <<<<112,1,113, 226,2,15>>,<<111,-1,112, 225,2,16>>>>,
  <<<<113,1,114, 228,2,14>>,<<112,-1,113, 227,2,15>>>>,
  <<<<114,1,115, 230,2,13>>,<<113,-1,114, 229,2,14>>>>,
  <<<<115,1,116, 232,2,12>>,<<114,-1,115, 231,2,13>>>>,
  <<<<116,1,117, 234,2,11>>,<<115,-1,116, 233,2,12>>>>,
  <<<<117,1,118, 236,2,10>>,<<116,-1,117, 235,2,11>>>>,
  <<<<118,1,119, 238,2,9>>,<<117,-1,118, 237,2,10>>>>,
  <<<<119,1,120, 240,2,8>>,<<118,-1,119, 239,2,9>>>>,
  <<<<120,1,121, 242,2,7>>,<<119,-1,120, 241,2,8>>>>,
  <<<<121,1,122, 244,2,6>>,<<120,-1,121, 243,2,7>>>>,
  <<<<122,1,123, 246,2,5>>,<<121,-1,122, 245,2,6>>>>,
  <<<<123,1,124, 248,2,4>>,<<122,-1,123, 247,2,5>>>>,
  <<<<124,1,125, 250,2,3>>,<<123,-1,124, 249,2,4>>>>,
  <<<<125,1,126, 252,2,2>>,<<124,-1,125, 251,2,3>>>>,
  <<<<126,1,127, 254,0,1>>,<<125,-1,126, 253,2,2>>>>, <<<<127,1,128>>,<<126,-1,127, 255,0,1>>>>,
  <<<<128,1,128>>,<<127,-1,128>>>>, <<<<129,1,127, 1,0,1>>,<<128,-1,127, 0,0,1>>>>,
  <<<<130,1,126, 3,-2,2>>,<<129,-1,126, 2,-2,2>>>>,
  <<<<131,1,125, 5,-2,3>>,<<130,-1,125, 4,-2,3>>>>,
  <<<<132,1,124, 7,-2,4>>,<<131,-1,124, 6,-2,4>>>>,
  <<<<133,1,123, 9,-2,5>>,<<132,-1,123, 8,-2,5>>>>,
  <<<<134,1,122, 11,-2,6>>,<<133,-1,122, 10,-2,6>>>>,
  <<<<135,1,121, 13,-2,7>>,<<134,-1,121, 12,-2,7>>>>,
  <<<<136,1,120, 15,-2,8>>,<<135,-1,120, 14,-2,8>>>>,
  <<<<137,1,119, 17,-2,9>>,<<136,-1,119, 16,-2,9>>>>,
  <<<<138,1,118, 19,-2,10>>,<<137,-1,118, 18,-2,10>>>>,
  <<<<139,1,117, 21,-2,11>>,<<138,-1,117, 20,-2,11>>>>,
  <<<<140,1,116, 23,-2,12>>,<<139,-1,116, 22,-2,12>>>>,
  <<<<141,1,115, 25,-2,13>>,<<140,-1,115, 24,-2,13>>>>,
  <<<<142,1,114, 27,-2,14>>,<<141,-1,114, 26,-2,14>>>>,
  <<<<143,1,113, 29,-2,15>>,<<142,-1,113, 28,-2,15>>>>,
  <<<<144,1,112, 31,-2,16>>,<<143,-1,112, 30,-2,16>>>>,
  <<<<145,1,111, 33,-2,17>>,<<144,-1,111, 32,-2,17>>>>,
  <<<<146,1,110, 35,-2,18>>,<<145,-1,110, 34,-2,18>>>>,
  <<<<147,1,109, 37,-2,19>>,<<146,-1,109, 36,-2,19>>>>,
  <<<<148,1,108, 39,-2,20>>,<<147,-1,108, 38,-2,20>>>>,
  <<<<149,1,107, 41,-2,21>>,<<148,-1,107, 40,-2,21>>>>,
  <<<<150,1,106, 43,-2,22>>,<<149,-1,106, 42,-2,22>>>>,
  <<<<151,1,105, 45,-2,23>>,<<150,-1,105, 44,-2,23>>>>,
  <<<<152,1,104, 47,-2,24>>,<<151,-1,104, 46,-2,24>>>>,
  <<<<153,1,103, 49,-2,25>>,<<152,-1,103, 48,-2,25>>>>,
  <<<<154,1,102, 51,-2,26>>,<<153,-1,102, 50,-2,26>>>>,
  <<<<155,1,101, 53,-2,27>>,<<154,-1,101, 52,-2,27>>>>,
  <<<<156,1,100, 55,-2,28>>,<<155,-1,100, 54,-2,28>>>>,
  <<<<157,1,99, 57,-2,29>>,<<156,-1,99, 56,-2,29>>>>,
  <<<<158,1,98, 59,-2,30>>,<<157,-1,98, 58,-2,30>>>>,
  <<<<159,1,97, 61,-2,31>>,<<158,-1,97, 60,-2,31>>>>,
  <<<<160,1,96, 63,-2,32>>,<<159,-1,96, 62,-2,32>>>>,
  <<<<161,1,95, 65,-2,33>>,<<160,-1,95, 64,-2,33>>>>,
  <<<<162,1,94, 67,-2,34>>,<<161,-1,94, 66,-2,34>>>>,
  <<<<163,1,93, 69,-2,35>>,<<162,-1,93, 68,-2,35>>>>,
  <<<<164,1,92, 71,-2,36>>,<<163,-1,92, 70,-2,36>>>>,
  <<<<165,1,91, 73,-2,37>>,<<164,-1,91, 72,-2,37>>>>,
  <<<<166,1,90, 75,-2,38>>,<<165,-1,90, 74,-2,38>>>>,
  <<<<167,1,89, 77,-2,39>>,<<166,-1,89, 76,-2,39>>>>,
  <<<<168,1,88, 79,-2,40>>,<<167,-1,88, 78,-2,40>>>>,
  <<<<169,1,87, 81,-2,41>>,<<168,-1,87, 80,-2,41>>>>,
  <<<<170,1,86, 83,-2,42>>,<<169,-1,86, 82,-2,42>>>>,
  <<<<171,1,85, 85,-2,43>>,<<170,-1,85, 84,-2,43>>>>,
  <<<<172,1,84, 87,-2,44>>,<<171,-1,84, 86,-2,44>>>>,
  <<<<173,1,83, 89,-2,45>>,<<172,-1,83, 88,-2,45>>>>,
  <<<<174,1,82, 91,-2,46>>,<<173,-1,82, 90,-2,46>>>>,
  <<<<175,1,81, 93,-2,47>>,<<174,-1,81, 92,-2,47>>>>,
  <<<<176,1,80, 95,-2,48>>,<<175,-1,80, 94,-2,48>>>>,
  <<<<177,1,79, 97,-2,49>>,<<176,-1,79, 96,-2,49>>>>,
  <<<<178,1,78, 99,-2,50>>,<<177,-1,78, 98,-2,50>>>>,
  <<<<179,1,77, 101,-2,51>>,<<178,-1,77, 100,-2,51>>>>,
  <<<<180,1,76, 103,-2,52>>,<<179,-1,76, 102,-2,52>>>>,
  <<<<181,1,75, 105,-2,53>>,<<180,-1,75, 104,-2,53>>>>,
  <<<<182,1,74, 107,-2,54>>,<<181,-1,74, 106,-2,54>>>>,
  <<<<183,1,73, 109,-2,55>>,<<182,-1,73, 108,-2,55>>>>,
  <<<<184,1,72, 111,-2,56>>,<<183,-1,72, 110,-2,56>>>>,
  <<<<185,1,71, 113,-2,57>>,<<184,-1,71, 112,-2,57>>>>,
  <<<<186,1,70, 115,-2,58>>,<<185,-1,70, 114,-2,58>>>>,
  <<<<187,1,69, 117,-2,59>>,<<186,-1,69, 116,-2,59>>>>,
  <<<<188,1,68, 119,-2,60>>,<<187,-1,68, 118,-2,60>>>>,
  <<<<189,1,67, 121,-2,61>>,<<188,-1,67, 120,-2,61>>>>,
  <<<<190,1,66, 123,-2,62>>,<<189,-1,66, 122,-2,62>>>>,
  <<<<191,1,65, 125,-2,63>>,<<190,-1,65, 124,-2,63>>>>,
  <<<<192,1,64, 127,-2,64>>,<<191,-1,64, 126,-2,64>>>>,
  <<<<193,1,63, 129,-2,65>>,<<192,-1,63, 128,-2,65>>>>,
  <<<<194,1,62, 131,-2,66>>,<<193,-1,62, 130,-2,66>>>>,
  <<<<195,1,61, 133,-2,67>>,<<194,-1,61, 132,-2,67>>>>,
  <<<<196,1,60, 135,-2,68>>,<<195,-1,60, 134,-2,68>>>>,
  <<<<197,1,59, 137,-2,69>>,<<196,-1,59, 136,-2,69>>>>,
  <<<<198,1,58, 139,-2,70>>,<<197,-1,58, 138,-2,70>>>>,
  <<<<199,1,57, 141,-2,71>>,<<198,-1,57, 140,-2,71>>>>,
  <<<<200,1,56, 143,-2,72>>,<<199,-1,56, 142,-2,72>>>>,
  <<<<201,1,55, 145,-2,73>>,<<200,-1,55, 144,-2,73>>>>,
  <<<<202,1,54, 147,-2,74>>,<<201,-1,54, 146,-2,74>>>>,
  <<<<203,1,53, 149,-2,75>>,<<202,-1,53, 148,-2,75>>>>,
  <<<<204,1,52, 151,-2,76>>,<<203,-1,52, 150,-2,76>>>>,
  <<<<205,1,51, 153,-2,77>>,<<204,-1,51, 152,-2,77>>>>,
  <<<<206,1,50, 155,-2,78>>,<<205,-1,50, 154,-2,78>>>>,
  <<<<207,1,49, 157,-2,79>>,<<206,-1,49, 156,-2,79>>>>,
  <<<<208,1,48, 159,-2,80>>,<<207,-1,48, 158,-2,80>>>>,
  <<<<209,1,47, 161,-2,81>>,<<208,-1,47, 160,-2,81>>>>,
  <<<<210,1,46, 163,-2,82>>,<<209,-1,46, 162,-2,82>>>>,
  <<<<211,1,45, 165,-2,83>>,<<210,-1,45, 164,-2,83>>>>,
  <<<<212,1,44, 167,-2,84>>,<<211,-1,44, 166,-2,84>>>>,
  <<<<213,1,43, 169,-2,85>>,<<212,-1,43, 168,-2,85>>>>,
  <<<<214,1,42, 171,-2,86>>,<<213,-1,42, 170,-2,86>>>>,
  <<<<215,1,41, 173,-2,87>>,<<214,-1,41, 172,-2,87>>>>,
  <<<<216,1,40, 175,-2,88>>,<<215,-1,40, 174,-2,88>>>>,
  <<<<217,1,39, 177,-2,89>>,<<216,-1,39, 176,-2,89>>>>,
  <<<<218,1,38, 179,-2,90>>,<<217,-1,38, 178,-2,90>>>>,
  <<<<219,1,37, 181,-2,91>>,<<218,-1,37, 180,-2,91>>>>,
  <<<<220,1,36, 183,-2,92>>,<<219,-1,36, 182,-2,92>>>>,
  <<<<221,1,35, 185,-2,93>>,<<220,-1,35, 184,-2,93>>>>,
  <<<<222,1,34, 187,-2,94>>,<<221,-1,34, 186,-2,94>>>>,
  <<<<223,1,33, 189,-2,95>>,<<222,-1,33, 188,-2,95>>>>,
  <<<<224,1,32, 191,-2,96>>,<<223,-1,32, 190,-2,96>>>>,
  <<<<225,1,31, 193,-2,97>>,<<224,-1,31, 192,-2,97>>>>,
  <<<<226,1,30, 195,-2,98>>,<<225,-1,30, 194,-2,98>>>>,
  <<<<227,1,29, 197,-2,99>>,<<226,-1,29, 196,-2,99>>>>,
  <<<<228,1,28, 199,-2,100>>,<<227,-1,28, 198,-2,100>>>>,
  <<<<229,1,27, 201,-2,101>>,<<228,-1,27, 200,-2,101>>>>,
  <<<<230,1,26, 203,-2,102>>,<<229,-1,26, 202,-2,102>>>>,
  <<<<231,1,25, 205,-2,103>>,<<230,-1,25, 204,-2,103>>>>,
  <<<<232,1,24, 207,-2,104>>,<<231,-1,24, 206,-2,104>>>>,
  <<<<233,1,23, 209,-2,105>>,<<232,-1,23, 208,-2,105>>>>,
  <<<<234,1,22, 211,-2,106>>,<<233,-1,22, 210,-2,106>>>>,
  <<<<235,1,21, 213,-2,107>>,<<234,-1,21, 212,-2,107>>>>,
  <<<<236,1,20, 215,-2,108>>,<<235,-1,20, 214,-2,108>>>>,
  <<<<237,1,19, 217,-2,109>>,<<236,-1,19, 216,-2,109>>>>,
  <<<<238,1,18, 219,-2,110>>,<<237,-1,18, 218,-2,110>>>>,
  <<<<239,1,17, 221,-2,111>>,<<238,-1,17, 220,-2,111>>>>,
  <<<<240,1,16, 223,-2,112>>,<<239,-1,16, 222,-2,112>>>>,
  <<<<241,1,15, 225,-2,113>>,<<240,-1,15, 224,-2,113>>>>,
  <<<<242,1,14, 227,-2,114>>,<<241,-1,14, 226,-2,114>>>>,
  <<<<243,1,13, 229,-2,115>>,<<242,-1,13, 228,-2,115>>>>,
  <<<<244,1,12, 231,-2,116>>,<<243,-1,12, 230,-2,116>>>>,
  <<<<245,1,11, 233,-2,117>>,<<244,-1,11, 232,-2,117>>>>,
  <<<<246,1,10, 235,-2,118>>,<<245,-1,10, 234,-2,118>>>>,
  <<<<247,1,9, 237,-2,119>>,<<246,-1,9, 236,-2,119>>>>,
  <<<<248,1,8, 239,-2,120>>,<<247,-1,8, 238,-2,120>>>>,
  <<<<249,1,7, 241,-2,121>>,<<248,-1,7, 240,-2,121>>>>,
  <<<<250,1,6, 243,-2,122>>,<<249,-1,6, 242,-2,122>>>>,
  <<<<251,1,5, 245,-2,123>>,<<250,-1,5, 244,-2,123>>>>,
  <<<<252,1,4, 247,-2,124>>,<<251,-1,4, 246,-2,124>>>>,
  <<<<253,1,3, 249,-2,125>>,<<252,-1,3, 248,-2,125>>>>,
  <<<<254,1,2, 251,-2,126>>,<<253,-1,2, 250,-2,126>>>>, <<<<255,-2,128>>,<<254,-2,128>>>>
>>

FTableRow(r) == Expand(FTableRows[r + 1])
F_inv_TableRow(r) ==
  FlattenSeq(Zip(Expand(F_inv_TableRows[r + 1][1]), Expand(F_inv_TableRows[r + 1][2])))

-----------------------------------------------------------------------------
\* Every number in the file (monotonic.py 2-519), 131072 in all, is that of the
\* closed forms of Monotonic, which are proved to be what the loops of the module
\* compute (522-552): none was typed, sorted or generated wrongly.
ASSUME TablesAsComputed ==
  /\ Len(FTableRows) = 256 /\ Len(F_inv_TableRows) = 256
  /\ \A x \in File!Level :
       LET numbers == FTableRow(x)  inverse == F_inv_TableRow(x)
           row == [p \in File!Level |-> numbers[p + 1]]
       IN  /\ Len(numbers) = 256 /\ row = File!FTable[x]
           /\ Len(inverse) = 256
           /\ [q \in File!Level |-> inverse[q + 1]] = File!InverseRow(row)
=============================================================================
